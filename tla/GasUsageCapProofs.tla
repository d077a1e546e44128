-------------------------- MODULE GasUsageCapProofs --------------------------
(***************************************************************************)
(* Proofs about GasUsageCap for any number of requests, any cap, any       *)
(* usages with an upper bound and any number of days.  Rebates are         *)
(* excluded only where a theorem says so.                                  *)
(***************************************************************************)
EXTENDS GasUsageCap, FiniteSetTheorems, TLAPS

\* The types and the bound on the counter are inductive together.
CapInv == TypeOK /\ OvershootBounded

-----------------------------------------------------------------------------
(* How many requests are admitted *)

LEMMA Times ==
  ASSUME NEW m \in Nat, NEW a \in Nat, NEW b \in Nat, a <= b
  PROVE  m * a <= m * b /\ m * a \in Nat /\ m * b \in Nat
<1>1. PICK d \in Nat : b = a + d
  <2>1. b - a \in Nat /\ b = a + (b - a)
    OBVIOUS
  <2> QED BY <2>1
<1>2. m * b = m * a + m * d /\ m * a \in Nat /\ m * d \in Nat
  BY <1>1
<1> QED BY <1>2

LEMMA AdmittedCount ==
  ASSUME NEW S \in SUBSET Request
  PROVE  IsFiniteSet(S) /\ Cardinality(S) \in Nat /\ Cardinality(Request) \in Nat
         /\ MaxUsage * Cardinality(S) <= MaxUsage * Cardinality(Request)
<1>1. IsFiniteSet(S) /\ Cardinality(S) <= Cardinality(Request)
  BY CapAssumption, FS_Subset
<1>2. Cardinality(S) \in Nat /\ Cardinality(Request) \in Nat
  BY <1>1, CapAssumption, FS_CardinalityType
<1> QED BY <1>1, <1>2, Times, CapAssumption

\* A request whose usage is counted, or that gives up, makes room for MaxUsage.
LEMMA OneLess ==
  ASSUME NEW S \in SUBSET Request, NEW r \in S
  PROVE  MaxUsage * Cardinality(S \ {r}) = MaxUsage * Cardinality(S) - MaxUsage
         /\ MaxUsage * Cardinality(S) \in Nat
<1>1. Cardinality(S \ {r}) = Cardinality(S) - 1 /\ Cardinality(S) \in Nat
  BY AdmittedCount, FS_RemoveElement
<1>2. Cardinality(S \ {r}) \in Nat
  BY AdmittedCount
<1> QED BY <1>1, <1>2, CapAssumption

-----------------------------------------------------------------------------
(* Steps *)

LEMMA InitInv == Init => CapInv
<1> SUFFICES ASSUME Init PROVE CapInv
  OBVIOUS
<1>1. TypeOK
  BY CapAssumption DEF Init, TypeOK, RequestState
<1>2. Admitted = {}
  BY DEF Init, Admitted
<1>3. OvershootBounded
  BY <1>2, AdmittedCount, FS_EmptySet, CapAssumption DEF Init, OvershootBounded
<1> QED BY <1>1, <1>3 DEF CapInv

\* Without new admissions, and with a counter that does not grow, the bound stays.
LEMMA BoundStays ==
  ASSUME CapInv, Admitted' = Admitted, curDailyUsage' = curDailyUsage
  PROVE  OvershootBounded'
BY DEF CapInv, OvershootBounded

LEMMA StepInv == CapInv /\ [Next]_vars => CapInv'
<1> SUFFICES ASSUME CapInv, [Next]_vars PROVE CapInv'
  OBVIOUS
<1> USE CapAssumption DEF history
<1>1. ASSUME NEW r \in Request, LookAtClock(r) PROVE CapInv'
  <2>1. Admitted' = Admitted
    BY <1>1 DEF LookAtClock, Admitted, CapInv, TypeOK, RequestState
  <2>2. TypeOK'
    BY <1>1 DEF LookAtClock, CapInv, TypeOK, RequestState
  <2> QED BY <1>1, <2>1, <2>2, BoundStays DEF CapInv, LookAtClock
<1>2. ASSUME NEW r \in Request, CompareDate(r) PROVE CapInv'
  <2>1. Admitted' = Admitted
    BY <1>2 DEF CompareDate, Moves, Admitted, CapInv, TypeOK, RequestState
  <2>2. TypeOK'
    BY <1>2 DEF CompareDate, Moves, CapInv, TypeOK, RequestState
  <2> QED BY <1>2, <2>1, <2>2, BoundStays DEF CapInv, CompareDate
<1>3. ASSUME NEW r \in Request, ResetDate(r) PROVE CapInv'
  <2>1. Admitted' = Admitted /\ Admitted \subseteq Request
    BY <1>3 DEF ResetDate, Moves, Admitted, CapInv, TypeOK, RequestState
  <2>2. TypeOK'
    BY <1>3 DEF ResetDate, Moves, CapInv, TypeOK, RequestState
  <2>3. curDailyUsage' = 0
    BY <1>3 DEF ResetDate
  <2>4. MaxUsage * Cardinality(Admitted) <= MaxUsage * Cardinality(Request)
        /\ MaxUsage * Cardinality(Admitted) \in Int /\ MaxUsage * Cardinality(Request) \in Int
    BY <2>1, AdmittedCount
  <2>5. 0 + MaxUsage * Cardinality(Admitted) < DailyCap + MaxUsage * Cardinality(Request)
    BY <2>4
  <2>6. OvershootBounded'
    BY <2>1, <2>3, <2>5 DEF OvershootBounded
  <2> QED BY <2>2, <2>6 DEF CapInv
<1>4. ASSUME NEW r \in Request, CheckUsage(r) PROVE CapInv'
  <2>1. TypeOK'
    BY <1>4 DEF CheckUsage, CapInv, TypeOK, RequestState
  <2>2. CASE Exceeded
    <3>1. Admitted' = Admitted
      BY <1>4, <2>2 DEF CheckUsage, Admitted, CapInv, TypeOK, RequestState
    <3> QED BY <1>4, <2>1, <3>1, BoundStays DEF CapInv, CheckUsage
  <2>3. CASE ~Exceeded
    <3>1. PICK S \in SUBSET Request : S = Admitted'
      BY DEF Admitted
    <3>2. MaxUsage * Cardinality(S) <= MaxUsage * Cardinality(Request)
          /\ MaxUsage * Cardinality(S) \in Int /\ MaxUsage * Cardinality(Request) \in Int
      BY AdmittedCount
    <3>3. curDailyUsage' = curDailyUsage /\ curDailyUsage < DailyCap /\ curDailyUsage \in Int
      BY <1>4, <2>3 DEF CheckUsage, Exceeded, CapInv, TypeOK
    <3>4. curDailyUsage + MaxUsage * Cardinality(S) < DailyCap + MaxUsage * Cardinality(Request)
      BY <3>2, <3>3
    <3>5. OvershootBounded'
      BY <3>1, <3>3, <3>4 DEF OvershootBounded
    <3> QED BY <2>1, <3>5 DEF CapInv
  <2> QED BY <2>2, <2>3
<1>5. ASSUME NEW r \in Request, NEW usage \in Usage, UpdateUsage(r, usage) PROVE CapInv'
  <2>1. TypeOK'
    BY <1>5 DEF UpdateUsage, CapInv, TypeOK, RequestState
  <2>2. PICK S \in SUBSET Request : S = Admitted /\ r \in S /\ Admitted' = S \ {r}
    BY <1>5 DEF UpdateUsage, Admitted, CapInv, TypeOK, RequestState
  <2>3. /\ MaxUsage * Cardinality(S \ {r}) = MaxUsage * Cardinality(S) - MaxUsage
        /\ MaxUsage * Cardinality(S) \in Int
    BY <2>2, OneLess
  <2>4. curDailyUsage' = curDailyUsage + usage /\ usage <= MaxUsage /\ usage \in Int
        /\ curDailyUsage \in Int
    BY <1>5 DEF UpdateUsage, CapInv, TypeOK
  <2>5. MaxUsage * Cardinality(Request) \in Int
    BY AdmittedCount
  <2>6. curDailyUsage + MaxUsage * Cardinality(S) < DailyCap + MaxUsage * Cardinality(Request)
    BY <2>2 DEF CapInv, OvershootBounded
  <2>7. (curDailyUsage + usage) + MaxUsage * Cardinality(S \ {r})
          < DailyCap + MaxUsage * Cardinality(Request)
    BY <2>3, <2>4, <2>5, <2>6
  <2>8. OvershootBounded'
    BY <2>2, <2>4, <2>7 DEF OvershootBounded
  <2> QED BY <2>1, <2>8 DEF CapInv
<1>6. ASSUME NEW r \in Request, GiveUp(r) PROVE CapInv'
  <2>1. TypeOK'
    BY <1>6 DEF GiveUp, CapInv, TypeOK, RequestState
  <2>2. PICK S \in SUBSET Request : S = Admitted /\ r \in S /\ Admitted' = S \ {r}
    <3>1. \A q \in Request : request'[q].next = IF q = r THEN "check" ELSE request[q].next
      BY <1>6 DEF GiveUp, CapInv, TypeOK, RequestState
    <3>2. request[r].next = "update"
      BY <1>6 DEF GiveUp
    <3>3. r \in Admitted /\ Admitted' = Admitted \ {r} /\ Admitted \in SUBSET Request
      BY <3>1, <3>2 DEF Admitted
    <3> QED BY <3>3
  <2>3. /\ MaxUsage * Cardinality(S \ {r}) = MaxUsage * Cardinality(S) - MaxUsage
        /\ MaxUsage * Cardinality(S) \in Int
    BY <2>2, OneLess
  <2>4. MaxUsage * Cardinality(Request) \in Int
    BY AdmittedCount
  <2>5. curDailyUsage' = curDailyUsage /\ curDailyUsage \in Int
    BY <1>6 DEF GiveUp, CapInv, TypeOK
  <2>6. curDailyUsage + MaxUsage * Cardinality(S) < DailyCap + MaxUsage * Cardinality(Request)
    BY <2>2 DEF CapInv, OvershootBounded
  <2>7. curDailyUsage + MaxUsage * Cardinality(S \ {r})
          < DailyCap + MaxUsage * Cardinality(Request)
    BY <2>3, <2>4, <2>5, <2>6
  <2>8. OvershootBounded'
    BY <2>2, <2>5, <2>7 DEF OvershootBounded
  <2> QED BY <2>1, <2>8 DEF CapInv
<1>7. CASE Midnight
  <2>1. TypeOK'
    BY <1>7 DEF Midnight, CapInv, TypeOK
  <2>2. Admitted' = Admitted /\ curDailyUsage' = curDailyUsage
    BY <1>7 DEF Midnight, Admitted
  <2> QED BY <2>1, <2>2, BoundStays DEF CapInv
<1>8. CASE Restart
  <2>1. \A r \in Request : request'[r].next = request[r].next /\ request'[r].at = "out"
                            /\ request'[r].today = request[r].today
    BY <1>8 DEF Restart, CapInv, TypeOK, RequestState
  <2>2. TypeOK'
    BY <1>8, <2>1 DEF Restart, CapInv, TypeOK, RequestState
  <2>3. Admitted' \in SUBSET Request /\ curDailyUsage' = 0
    BY <1>8 DEF Restart, Admitted
  <2>4. MaxUsage * Cardinality(Admitted') <= MaxUsage * Cardinality(Request)
        /\ MaxUsage * Cardinality(Admitted') \in Int /\ MaxUsage * Cardinality(Request) \in Int
    <3>1. PICK S \in SUBSET Request : S = Admitted'
      BY <2>3
    <3> QED BY <3>1, AdmittedCount
  <2>5. OvershootBounded'
    BY <2>3, <2>4 DEF OvershootBounded
  <2> QED BY <2>2, <2>5 DEF CapInv
<1>9. CASE UNCHANGED vars
  BY <1>9 DEF vars, CapInv, TypeOK, OvershootBounded, Admitted
<1> QED BY <1>1, <1>2, <1>3, <1>4, <1>5, <1>6, <1>7, <1>8, <1>9 DEF Next, Step

\* What every theorem below rests on.
THEOREM CapInvariant == Spec => []CapInv
<1> QED BY InitInv, StepInv, PTL DEF Spec

-----------------------------------------------------------------------------
(* Theorems *)

\* However checks, executions and midnights interleave, the counter of
\* gas_usage_cap.rs passes daily_cap by less than the requests it let through and
\* has not counted yet can use (check_usage, 29-36, is called long before
\* update_usage, 39-44).
THEOREM OvershootIsBounded == Spec => []OvershootBounded
<1>1. CapInv => OvershootBounded
  BY DEF CapInv
<1> QED BY <1>1, CapInvariant, PTL

-----------------------------------------------------------------------------
(* Without rebates *)

NoRebates == \A usage \in Usage : usage >= 0

\* No date in the server is ahead of the clock, so after a midnight none is present
\* before a reset; what this process counted of the day is not negative.
ChargeInv ==
  /\ TypeOK
  /\ curDate <= day /\ \A r \in Request : request[r].today <= day
  /\ spentBefore <= spent
  /\ ChargedForTodayOnly

LEMMA StepKeepsCharge ==
  ASSUME NoRebates, ChargeInv, TypeOK', [Next]_vars
  PROVE  ChargeInv'
<1> USE CapAssumption DEF history
<1>0. TypeOK
  BY DEF ChargeInv
<1>1. ASSUME NEW r \in Request, LookAtClock(r) PROVE ChargeInv'
  <2>1. \A q \in Request : request'[q].today = request[q].today \/ request'[q].today = day
    BY <1>0, <1>1 DEF LookAtClock, TypeOK, RequestState
  <2>2. UNCHANGED <<day, curDate, curDailyUsage, history>>
    BY <1>1 DEF LookAtClock
  <2> QED BY <1>0, <2>1, <2>2 DEF ChargeInv, ChargedForTodayOnly, TypeOK
<1>2. ASSUME NEW r \in Request, CompareDate(r) \/ CheckUsage(r) \/ GiveUp(r) PROVE ChargeInv'
  <2>1. \A q \in Request : request'[q].today = request[q].today
    BY <1>0, <1>2 DEF CompareDate, Moves, CheckUsage, GiveUp, TypeOK, RequestState
  <2>2. UNCHANGED <<day, curDate, curDailyUsage, history>>
    BY <1>2 DEF CompareDate, CheckUsage, GiveUp
  <2> QED BY <2>1, <2>2 DEF ChargeInv, ChargedForTodayOnly
<1>3. ASSUME NEW r \in Request, ResetDate(r) PROVE ChargeInv'
  <2>1. \A q \in Request : request'[q].today = request[q].today
    BY <1>0, <1>3 DEF ResetDate, Moves, TypeOK, RequestState
  <2>2. /\ UNCHANGED <<day, spent, spentBefore>>
        /\ curDate' = request[r].today /\ curDailyUsage' = 0
    BY <1>3 DEF ResetDate
  <2>3. spent \in Int /\ spentBefore \in Int
    BY <1>0 DEF TypeOK
  <2> QED BY <2>1, <2>2, <2>3 DEF ChargeInv, ChargedForTodayOnly
<1>4. ASSUME NEW r \in Request, NEW usage \in Usage, UpdateUsage(r, usage) PROVE ChargeInv'
  <2>1. \A q \in Request : request'[q].today = request[q].today
    BY <1>0, <1>4 DEF UpdateUsage, TypeOK, RequestState
  <2>2. /\ UNCHANGED <<day, curDate, spentBefore>>
        /\ spent' = spent + usage /\ curDailyUsage' = curDailyUsage + usage
    BY <1>4 DEF UpdateUsage
  <2>3. /\ spent \in Int /\ spentBefore \in Int /\ curDailyUsage \in Int
        /\ usage \in Int /\ usage >= 0
    BY <1>0 DEF TypeOK, NoRebates
  <2> QED BY <2>1, <2>2, <2>3 DEF ChargeInv, ChargedForTodayOnly
<1>5. CASE Midnight
  <2>1. /\ day' = day + 1 /\ spent' = 0 /\ spentBefore' = 0
        /\ UNCHANGED <<curDate, curDailyUsage, request>>
    BY <1>5 DEF Midnight
  <2>2. day \in Int /\ curDate \in Int /\ \A r \in Request : request[r].today \in Int
    BY <1>0 DEF TypeOK, RequestState
  <2> QED BY <2>1, <2>2 DEF ChargeInv, ChargedForTodayOnly
<1>6. CASE Restart
  <2>1. \A q \in Request : request'[q].today = request[q].today
    BY <1>0, <1>6 DEF Restart, TypeOK, RequestState
  <2>2. /\ UNCHANGED <<day, spent>> /\ spentBefore' = spent
        /\ curDate' = day /\ curDailyUsage' = 0
    BY <1>6 DEF Restart
  <2>3. spent \in Int /\ day \in Int
    BY <1>0 DEF TypeOK
  <2> QED BY <2>1, <2>2, <2>3 DEF ChargeInv, ChargedForTodayOnly
<1>7. CASE UNCHANGED vars
  BY <1>7 DEF vars, ChargeInv, ChargedForTodayOnly, TypeOK
<1> QED BY <1>1, <1>2, <1>3, <1>4, <1>5, <1>6, <1>7 DEF Next, Step

\* reset_date_maybe (46-52) takes the write lock anew and does not compare again, so
\* a reset may come late or twice, and usage of yesterday may be counted late.  Even
\* so a counter that carries the present date holds no more than the day has used.
THEOREM TodayIsNotOvercharged == NoRebates => (Spec => []ChargedForTodayOnly)
<1> SUFFICES ASSUME NoRebates PROVE Spec => []ChargedForTodayOnly
  OBVIOUS
<1>1. Init => ChargeInv
  BY InitInv, CapAssumption DEF CapInv, Init, ChargeInv, ChargedForTodayOnly
<1>2. CapInv /\ CapInv' /\ ChargeInv /\ [Next]_vars => ChargeInv'
  BY StepKeepsCharge DEF CapInv
<1>3. ChargeInv => ChargedForTodayOnly
  BY DEF ChargeInv
<1> QED BY <1>1, <1>2, <1>3, CapInvariant, PTL DEF Spec

-----------------------------------------------------------------------------
(* One cap for each counter *)

N == Cardinality(Request)

\* Nobody in the server is ahead of the clock.
Dates == curDate <= day /\ \A r \in Request : request[r].today <= day

\* The most one counter can hold.
Full == DailyCap - 1 + MaxUsage * N

LEMMA CounterNotOverfull ==
  ASSUME CapInv
  PROVE  /\ N \in Nat /\ MaxUsage * N \in Nat /\ MaxUsage * N <= Full
         /\ Full \in Nat /\ curDailyUsage <= Full
<1>1. PICK S \in SUBSET Request : S = Admitted
  BY DEF Admitted
<1>2. /\ MaxUsage * Cardinality(S) \in Nat
      /\ MaxUsage * N \in Nat /\ N \in Nat
  BY AdmittedCount, CapAssumption DEF N
<1>3. curDailyUsage + MaxUsage * Cardinality(S) < DailyCap + MaxUsage * N
  BY <1>1 DEF CapInv, OvershootBounded, N
<1>4. curDailyUsage \in Int
  BY DEF CapInv, TypeOK
<1> QED BY <1>2, <1>3, <1>4, CapAssumption DEF Full

\* The day has begun, and its first request has not reset the counter yet.  All that can
\* be counted then is what requests inside a call since yesterday bring with them.
Fresh == curDate # day /\ resets = 0 /\ restarts = 0
Old   == {r \in Request : request[r].at # "out" /\ request[r].today < day}

FreshInv ==
  /\ \A r \in Request : request[r].at = "ready" => request[r].today < day
  /\ spent + MaxUsage * Cardinality(Old) <= MaxUsage * N

\* Later, what the present counter does not show was on one that is gone, and was full at
\* most.
CounterInv ==
  /\ Dates
  /\ spentBefore <= (resets + restarts) * Full
  /\ IF Fresh THEN FreshInv ELSE spent <= (resets + restarts) * Full + curDailyUsage

LEMMA OneCounterMore ==
  ASSUME NEW n \in Nat, NEW full \in Nat
  PROVE  (n + 1) * full = n * full + full /\ n * full \in Nat
OBVIOUS

\* A request moves on inside its call without a reset, and it or the clock makes it
\* neither older nor younger.
LEMMA DateStays ==
  ASSUME CapInv, CounterInv, Dates',
         UNCHANGED <<day, curDate, curDailyUsage, history>>, Old' = Old,
         \A r \in Request : Fresh /\ request'[r].at = "ready" => request'[r].today < day
  PROVE  CounterInv'
BY DEF CounterInv, FreshInv, Fresh, Full, N, history

LEMMA StepKeepsCounters ==
  ASSUME CapInv, CounterInv, [Next]_vars
  PROVE  CounterInv'
<1> USE DEF history
<1> DEFINE gone == resets + restarts
<1>1. /\ gone \in Nat /\ Full \in Nat /\ gone * Full \in Nat
      /\ (gone + 1) * Full = gone * Full + Full
  BY CounterNotOverfull, OneCounterMore DEF CapInv, TypeOK
<1>2. /\ TypeOK /\ curDailyUsage \in Int /\ spent \in Int /\ spentBefore \in Int
      /\ resets \in Nat /\ restarts \in Nat /\ curDailyUsage <= Full
  BY CounterNotOverfull DEF CapInv, TypeOK
<1>3. Full' = Full /\ N' = N
  BY DEF Full, N
<1>4. Dates /\ N \in Nat /\ MaxUsage * N \in Nat /\ MaxUsage * N <= Full
  BY CounterNotOverfull DEF CounterInv
<1>5. Fresh => \A r \in Request : request[r].at = "ready" => request[r].today < day
  BY DEF CounterInv, FreshInv
<1>6. Fresh => spent <= Full
  <2>1. PICK S \in SUBSET Request : S = Old
    BY DEF Old
  <2>2. MaxUsage * Cardinality(S) \in Nat
    BY AdmittedCount, CapAssumption
  <2> QED BY <1>1, <1>2, <1>4, <2>1, <2>2 DEF CounterInv, FreshInv
<1>7. spent <= (gone + 1) * Full
  <2>1. CASE Fresh
    <3>1. gone = 0 /\ (gone + 1) * Full = Full
      BY <1>1, <2>1 DEF Fresh
    <3> QED BY <1>6, <2>1, <3>1
  <2>2. CASE ~Fresh
    <3>1. spent <= gone * Full + curDailyUsage
      BY <2>2 DEF CounterInv
    <3> HIDE DEF gone
    <3> QED BY <1>1, <1>2, <3>1
  <2> QED BY <2>1, <2>2
<1>8. ASSUME NEW r \in Request, LookAtClock(r) PROVE CounterInv'
  <2>1. /\ \A q \in Request : q # r => request'[q] = request[q]
        /\ request[r].at = "out" /\ request'[r].at = "dated" /\ request'[r].today = day
        /\ UNCHANGED <<day, curDate, curDailyUsage, history>>
    BY <1>2, <1>8 DEF LookAtClock, TypeOK, RequestState
  <2>2. Old' = Old /\ Dates'
    BY <1>2, <1>4, <2>1 DEF Old, Dates, TypeOK
  <2> QED BY <1>5, <2>1, <2>2, DateStays
<1>9. ASSUME NEW r \in Request, CompareDate(r) PROVE CounterInv'
  <2>1. /\ \A q \in Request : q # r => request'[q] = request[q]
        /\ request[r].at = "dated" /\ request'[r].today = request[r].today
        /\ request'[r].at = IF curDate # request[r].today THEN "stale" ELSE "ready"
        /\ UNCHANGED <<day, curDate, curDailyUsage, history>>
    BY <1>2, <1>9 DEF CompareDate, Moves, TypeOK, RequestState
  <2>2. Old' = Old /\ Dates'
    BY <1>4, <2>1 DEF Old, Dates
  <2>3. Fresh /\ request'[r].at = "ready" => request'[r].today < day
    BY <1>2, <1>4, <2>1 DEF Fresh, Dates, TypeOK, RequestState
  <2> QED BY <1>5, <2>1, <2>2, <2>3, DateStays
<1>10. ASSUME NEW r \in Request, GiveUp(r) PROVE CounterInv'
  <2>1. /\ \A q \in Request : /\ request'[q].at = request[q].at
                              /\ request'[q].today = request[q].today
        /\ UNCHANGED <<day, curDate, curDailyUsage, history>>
    BY <1>2, <1>10 DEF GiveUp, TypeOK, RequestState
  <2>2. Old' = Old /\ Dates'
    BY <1>4, <2>1 DEF Old, Dates
  <2> QED BY <1>5, <2>1, <2>2, DateStays
<1>11. ASSUME NEW r \in Request, NEW usage \in Int, usage <= MaxUsage,
              request[r].at = "ready", request'[r].at = "out",
              \A q \in Request : /\ q # r => request'[q] = request[q]
                                 /\ request'[q].today = request[q].today,
              UNCHANGED <<day, curDate, spentBefore, resets, restarts>>,
              spent' = spent + usage, curDailyUsage' = curDailyUsage + usage
       PROVE  CounterInv'
  <2>1. Dates'
    BY <1>4, <1>11 DEF Dates
  <2>2. Fresh' = Fresh
    BY <1>11 DEF Fresh
  <2>3. CASE Fresh
    <3>1. r \in Old /\ Old' = Old \ {r}
      BY <1>5, <1>11, <2>3 DEF Old
    <3>2. PICK S \in SUBSET Request : S = Old /\ r \in S
      BY <3>1 DEF Old
    <3>3. /\ MaxUsage * Cardinality(S \ {r}) = MaxUsage * Cardinality(S) - MaxUsage
          /\ MaxUsage * Cardinality(S) \in Nat
      BY <3>2, OneLess
    <3>4. spent + MaxUsage * Cardinality(S) <= MaxUsage * N
      BY <2>3, <3>2 DEF CounterInv, FreshInv
    <3>5. (spent + usage) + MaxUsage * Cardinality(S \ {r}) <= MaxUsage * N
      BY <1>2, <1>4, <1>11, <3>3, <3>4, CapAssumption
    <3>6. \A q \in Request : request'[q].at = "ready" => request'[q].today < day
      BY <1>5, <1>11, <2>3
    <3>7. FreshInv'
      BY <1>3, <1>11, <3>1, <3>2, <3>5, <3>6 DEF FreshInv
    <3> QED BY <1>3, <1>11, <2>1, <2>2, <2>3, <3>7 DEF CounterInv
  <2>4. CASE ~Fresh
    <3>1. spent + usage <= gone * Full + (curDailyUsage + usage)
      <4>1. spent <= gone * Full + curDailyUsage
        BY <2>4 DEF CounterInv
      <4> HIDE DEF gone
      <4> QED BY <1>1, <1>2, <1>11, <4>1
    <3> QED BY <1>3, <1>11, <2>1, <2>2, <2>4, <3>1 DEF CounterInv
  <2> QED BY <2>3, <2>4
<1>12. ASSUME NEW r \in Request, CheckUsage(r) PROVE CounterInv'
  <2>1. /\ request[r].at = "ready" /\ request'[r].at = "out"
        /\ \A q \in Request : /\ q # r => request'[q] = request[q]
                              /\ request'[q].today = request[q].today
        /\ UNCHANGED <<day, curDate, curDailyUsage, spent, spentBefore, resets, restarts>>
    BY <1>2, <1>12 DEF CheckUsage, TypeOK, RequestState
  <2>2. spent' = spent + 0 /\ curDailyUsage' = curDailyUsage + 0
    BY <1>2, <2>1
  <2> QED BY <1>11, <2>1, <2>2, CapAssumption
<1>13. ASSUME NEW r \in Request, NEW usage \in Usage, UpdateUsage(r, usage) PROVE CounterInv'
  <2>1. /\ request[r].at = "ready" /\ request'[r].at = "out"
        /\ \A q \in Request : /\ q # r => request'[q] = request[q]
                              /\ request'[q].today = request[q].today
        /\ UNCHANGED <<day, curDate, spentBefore, resets, restarts>>
        /\ spent' = spent + usage /\ curDailyUsage' = curDailyUsage + usage
    BY <1>2, <1>13 DEF UpdateUsage, TypeOK, RequestState
  <2>2. usage \in Int /\ usage <= MaxUsage
    BY CapAssumption
  <2> QED BY <1>11, <2>1, <2>2
<1>14. ASSUME NEW r \in Request, ResetDate(r) PROVE CounterInv'
  <2>1. /\ curDailyUsage' = 0 /\ gone' = gone + 1 /\ resets' # 0
        /\ UNCHANGED <<day, spent, spentBefore>> /\ curDate' = request[r].today
        /\ \A q \in Request : request'[q].today = request[q].today
    BY <1>2, <1>14 DEF ResetDate, Moves, TypeOK, RequestState
  <2>2. gone' * Full' = gone * Full + Full
    BY <1>1, <1>3, <2>1
  <2>3. Dates' /\ ~Fresh'
    BY <1>4, <2>1 DEF Dates, Fresh
  <2> HIDE DEF gone
  <2>4. spent' <= gone' * Full' + curDailyUsage' /\ spentBefore' <= gone' * Full'
    BY <1>1, <1>2, <1>7, <2>1, <2>2 DEF CounterInv, gone
  <2> QED BY <2>3, <2>4 DEF CounterInv, gone
<1>15. CASE Midnight
  <2>1. /\ spent' = 0 /\ spentBefore' = 0 /\ resets' = 0 /\ restarts' = 0 /\ day' = day + 1
        /\ UNCHANGED <<curDate, request>>
    BY <1>15 DEF Midnight
  <2>2. /\ Dates' /\ Fresh'
        /\ \A r \in Request : request'[r].at = "ready" => request'[r].today < day'
    BY <1>2, <1>4, <2>1 DEF Dates, Fresh, TypeOK, RequestState
  <2>3. PICK S \in SUBSET Request : S = Old'
    BY DEF Old
  <2>4. 0 + MaxUsage * Cardinality(S) <= MaxUsage * N
    <3>1. MaxUsage * Cardinality(S) <= MaxUsage * N /\ Cardinality(S) \in Nat
      BY AdmittedCount DEF N
    <3> QED BY <3>1, CapAssumption
  <2>5. FreshInv'
    BY <1>3, <2>1, <2>2, <2>3, <2>4 DEF FreshInv
  <2>6. (0 + 0) * Full = 0
    BY <1>1
  <2> QED BY <1>3, <2>1, <2>2, <2>5, <2>6 DEF CounterInv
<1>16. CASE Restart
  <2>1. /\ curDailyUsage' = 0 /\ spentBefore' = spent
        /\ UNCHANGED <<day, spent, resets>> /\ curDate' = day
        /\ \A q \in Request : request'[q].today = request[q].today
    BY <1>2, <1>16 DEF Restart, TypeOK, RequestState
  <2>2. Dates' /\ ~Fresh'
    BY <1>2, <1>4, <2>1 DEF Dates, Fresh, TypeOK
  <2>3. CASE spent = spentBefore
    <3>1. restarts' = restarts
      BY <1>16, <2>3 DEF Restart
    <3> QED BY <1>1, <1>2, <1>3, <2>1, <2>2, <2>3, <3>1 DEF CounterInv
  <2>4. CASE spent # spentBefore
    <3>1. gone' = gone + 1
      BY <1>2, <1>16, <2>4 DEF Restart
    <3>2. gone' * Full' = gone * Full + Full
      BY <1>1, <1>3, <3>1
    <3> HIDE DEF gone
    <3>3. spent' <= gone' * Full' + curDailyUsage' /\ spentBefore' <= gone' * Full'
      BY <1>1, <1>2, <1>7, <2>1, <3>2
    <3> QED BY <2>2, <3>3 DEF CounterInv, gone
  <2> QED BY <2>3, <2>4
<1>17. CASE UNCHANGED vars
  <2>1. UNCHANGED <<day, curDate, curDailyUsage, request, history>>
    BY <1>17 DEF vars
  <2>2. Old' = Old /\ Dates'
    BY <1>4, <2>1 DEF Old, Dates
  <2> QED BY <1>5, <2>1, <2>2, DateStays
<1> QED BY <1>8, <1>9, <1>10, <1>12, <1>13, <1>14, <1>15, <1>16, <1>17 DEF Next, Step

\* A late reset (50, 56-59) and a restart (18-27) wipe the counter, so daily_cap bounds
\* no day; but whatever the order, and with rebates, a day uses at most one full counter
\* more than it had counters wiped.
THEOREM EachCounterIsCapped == Spec => []CapForEachCounter
<1>1. Init => CounterInv
  <2> SUFFICES ASSUME Init PROVE CounterInv
    OBVIOUS
  <2>1. Full \in Nat /\ (0 + 0) * Full = 0
    BY InitInv, CounterNotOverfull
  <2>2. Dates /\ ~Fresh
    BY CapAssumption DEF Init, Dates, Fresh
  <2> QED BY <2>1, <2>2 DEF Init, CounterInv
<1>2. CapInv /\ CounterInv /\ [Next]_vars => CounterInv'
  BY StepKeepsCounters
<1>3. CapInv /\ CounterInv => CapForEachCounter
  <2> SUFFICES ASSUME CapInv, CounterInv PROVE CapForEachCounter
    OBVIOUS
  <2>1. /\ resets + restarts \in Nat /\ Full \in Nat /\ curDailyUsage <= Full
        /\ spent \in Int /\ curDailyUsage \in Int /\ MaxUsage * N <= Full /\ MaxUsage * N \in Nat
    BY CounterNotOverfull DEF CapInv, TypeOK
  <2>2. /\ (1 + resets + restarts) * Full = (resets + restarts) * Full + Full
        /\ (resets + restarts) * Full \in Nat
    <3>1. 1 + resets + restarts = (resets + restarts) + 1
      BY DEF CapInv, TypeOK
    <3> QED BY <2>1, <3>1, OneCounterMore
  <2>3. CASE Fresh
    <3>1. PICK S \in SUBSET Request : S = Old
      BY DEF Old
    <3>2. MaxUsage * Cardinality(S) \in Nat
      BY AdmittedCount, CapAssumption
    <3>3. spent + MaxUsage * Cardinality(S) <= MaxUsage * N
      BY <2>3, <3>1 DEF CounterInv, FreshInv
    <3>4. spent <= (1 + resets + restarts) * Full
      BY <2>1, <2>2, <3>2, <3>3
    <3> QED BY <3>4 DEF CapForEachCounter, Full, N
  <2>4. CASE ~Fresh
    <3>1. spent <= (1 + resets + restarts) * Full
      BY <2>1, <2>2, <2>4 DEF CounterInv
    <3> QED BY <3>1 DEF CapForEachCounter, Full, N
  <2> QED BY <2>3, <2>4
<1> QED BY <1>1, <1>2, <1>3, CapInvariant, PTL DEF Spec

-----------------------------------------------------------------------------
(* How often a day's counter is wiped *)

\* Requests that will set the date back, and requests that will set it right.
Late  == {r \in Request : request[r].at \in {"dated", "stale"} /\ request[r].today < day}
Stale == {r \in Request : request[r].at = "stale" /\ request[r].today = day}

\* Twice the resets that can still come with o late requests and a date that is not
\* today's: every other request may set it right, then a late one sets it back, and so on.
ToCome(o) == 2 * N + o * (2 * N + 1 - o)

\* Where the date is today's, only requests that found it stale can reset it now.
Spared == IF curDate = day THEN 2 * (N - Cardinality(Late) - Cardinality(Stale)) ELSE 0

ResetInv ==
  /\ Dates
  /\ 2 * resets + ToCome(Cardinality(Late)) - Spared <= ToCome(N)

LEMMA ToComeFacts ==
  /\ N \in Nat
  /\ \A o \in 0..N : ToCome(o) \in Int /\ 2 * N <= ToCome(o) /\ ToCome(o) <= ToCome(N)
  /\ \A o \in 1..N : ToCome(o - 1) = ToCome(o) - 2 * (N - o + 1)
  /\ ToCome(N) = N * (N + 3)
<1>1. N \in Nat
  BY CapAssumption, FS_CardinalityType DEF N
<1>2. ASSUME NEW o \in 0..N
      PROVE  ToCome(o) \in Int /\ 2 * N <= ToCome(o) /\ ToCome(o) <= ToCome(N)
  <2>1. PICK d \in Nat : N = o + d
    <3>1. N - o \in Nat /\ N = o + (N - o)
      BY <1>1
    <3> QED BY <3>1
  <2>2. o * (2 * N + 1 - o) \in Nat
    <3>1. 2 * N + 1 - o \in Nat
      BY <1>1
    <3> QED BY <3>1
  <2>3. ToCome(N) - ToCome(o) = d * d + d
    BY <1>1, <2>1 DEF ToCome
  <2>4. d * d \in Nat
    BY <2>1
  <2>5. ToCome(o) \in Int /\ ToCome(N) \in Int
    BY <1>1, <2>2 DEF ToCome
  <2>6. 2 * N <= ToCome(o)
    BY <1>1, <2>2 DEF ToCome
  <2> QED BY <2>1, <2>3, <2>4, <2>5, <2>6
<1>3. ASSUME NEW o \in 1..N PROVE ToCome(o - 1) = ToCome(o) - 2 * (N - o + 1)
  BY <1>1 DEF ToCome
<1>4. ToCome(N) = N * (N + 3)
  BY <1>1 DEF ToCome
<1> QED BY <1>1, <1>2, <1>3, <1>4

\* No request is late and stale.
LEMMA LateAndStale ==
  ASSUME TypeOK
  PROVE  /\ IsFiniteSet(Late) /\ IsFiniteSet(Stale)
         /\ Cardinality(Late) \in Nat /\ Cardinality(Stale) \in Nat
         /\ Cardinality(Late) + Cardinality(Stale) <= N
<1>1. Late \subseteq Request /\ Stale \subseteq Request /\ Late \cup Stale \subseteq Request
  BY DEF Late, Stale
<1>2. /\ IsFiniteSet(Late) /\ IsFiniteSet(Stale)
      /\ Cardinality(Late \cup Stale) <= N
  BY <1>1, CapAssumption, FS_Subset DEF N
<1>3. Late \cap Stale = {}
  BY DEF Late, Stale, TypeOK, RequestState
<1>4. Cardinality(Late \cup Stale) = Cardinality(Late) + Cardinality(Stale)
  <2>1. Cardinality(Late \cup Stale)
          = Cardinality(Late) + Cardinality(Stale) - Cardinality(Late \cap Stale)
    BY <1>2, FS_Union
  <2>2. Cardinality(Late \cap Stale) = 0
    BY <1>3, FS_EmptySet
  <2> QED BY <1>2, <2>1, <2>2, FS_CardinalityType
<1> QED BY <1>2, <1>4, FS_CardinalityType

\* A step that leaves the resets, the date and both kinds of requests as they were.
LEMMA NobodyMoves ==
  ASSUME ResetInv, Dates', UNCHANGED <<day, curDate, resets>>, Late' = Late, Stale' = Stale
  PROVE  ResetInv'
BY DEF ResetInv, Spared, ToCome, N

\* Who does not carry today's date carries an earlier one.
LEMMA OtherDaysArePast ==
  ASSUME TypeOK, Dates, NEW r \in Request, request[r].today # day
  PROVE  request[r].today < day
<1>1. day \in Int
  BY CapAssumption DEF TypeOK
<1>2. request[r].today \in 1..LastDay
  BY DEF TypeOK, RequestState
<1>3. request[r].today \in Int
  BY <1>2, CapAssumption
<1> QED BY <1>1, <1>3 DEF Dates

\* A late request that resets, or turns out to be right, is late no more; a stale one that
\* resets is stale no more.  o and s count them before the step.
LEMMA StepKeepsResets ==
  ASSUME CapInv, TypeOK', ResetInv, [Next]_vars
  PROVE  ResetInv'
<1> USE CapAssumption DEF history
<1> DEFINE o == Cardinality(Late)
           s == Cardinality(Stale)
<1>0. TypeOK /\ Dates /\ N \in Nat /\ resets \in Nat
  BY ToComeFacts DEF CapInv, TypeOK, ResetInv
<1>1. o \in Nat /\ s \in Nat /\ o + s <= N /\ IsFiniteSet(Late) /\ IsFiniteSet(Stale)
  BY <1>0, LateAndStale
<1>2. 2 * resets + ToCome(o) - Spared <= ToCome(N)
  BY DEF ResetInv
<1>3. /\ ToCome(o) \in Int /\ 2 * N <= ToCome(o) /\ ToCome(o) <= ToCome(N) /\ ToCome(N) \in Int
      /\ o >= 1 => ToCome(o - 1) = ToCome(o) - 2 * (N - o + 1)
  <2>1. o \in 0..N /\ N \in 0..N /\ (o >= 1 => o \in 1..N)
    BY <1>0, <1>1
  <2> QED BY <2>1, ToComeFacts
<1>4. \A n : ToCome(n)' = ToCome(n') /\ N' = N
  BY DEF ToCome, N
<1>5. ASSUME NEW r \in Request, LookAtClock(r) PROVE ResetInv'
  <2>1. \A q \in Request : q # r => request'[q] = request[q]
    BY <1>0, <1>5 DEF LookAtClock, TypeOK, RequestState
  <2>2. request[r].at = "out" /\ request'[r].at = "dated" /\ request'[r].today = day
    BY <1>0, <1>5 DEF LookAtClock, TypeOK, RequestState
  <2>3. UNCHANGED <<day, curDate, resets>>
    BY <1>5 DEF LookAtClock
  <2>4. Late' = Late
    BY <1>0, <2>1, <2>2, <2>3 DEF Late, TypeOK
  <2>5. Stale' = Stale
    BY <2>1, <2>2, <2>3 DEF Stale
  <2>6. Dates'
    BY <1>0, <2>1, <2>2, <2>3 DEF Dates, TypeOK
  <2> QED BY <2>3, <2>4, <2>5, <2>6, NobodyMoves
<1>6. ASSUME NEW r \in Request, CheckUsage(r) \/ GiveUp(r) \/ (\E usage \in Usage : UpdateUsage(r, usage))
      PROVE  ResetInv'
  <2>1. \A q \in Request : q # r => request'[q] = request[q]
    BY <1>0, <1>6 DEF CheckUsage, GiveUp, UpdateUsage, TypeOK, RequestState
  <2>2. /\ request[r].at \in {"out", "ready"} /\ request'[r].at = "out"
        /\ request'[r].today = request[r].today
    BY <1>0, <1>6 DEF CheckUsage, GiveUp, UpdateUsage, TypeOK, RequestState
  <2>3. UNCHANGED <<day, curDate, resets>>
    BY <1>6 DEF CheckUsage, GiveUp, UpdateUsage
  <2>4. Late' = Late /\ Stale' = Stale
    BY <2>1, <2>2, <2>3 DEF Late, Stale
  <2>5. Dates'
    BY <1>0, <2>1, <2>2, <2>3 DEF Dates
  <2> QED BY <2>3, <2>4, <2>5, NobodyMoves
<1>7. ASSUME NEW r \in Request, CompareDate(r) PROVE ResetInv'
  <2>1. \A q \in Request : q # r => request'[q] = request[q]
    BY <1>0, <1>7 DEF CompareDate, Moves, TypeOK, RequestState
  <2>2. /\ request[r].at = "dated" /\ request'[r].today = request[r].today
        /\ request'[r].at = IF curDate # request[r].today THEN "stale" ELSE "ready"
    BY <1>0, <1>7 DEF CompareDate, Moves, TypeOK, RequestState
  <2>3. UNCHANGED <<day, curDate, resets>>
    BY <1>7 DEF CompareDate
  <2>4. Dates'
    BY <1>0, <2>1, <2>2, <2>3 DEF Dates
  <2>5. CASE request[r].today = day /\ curDate = day
    <3>1. Late' = Late /\ Stale' = Stale
      BY <1>0, <2>1, <2>2, <2>3, <2>5 DEF Late, Stale, TypeOK
    <3> QED BY <2>3, <2>4, <3>1, NobodyMoves
  <2>6. CASE request[r].today = day /\ curDate # day
    <3>1. Late' = Late
      BY <1>0, <2>1, <2>2, <2>3, <2>6 DEF Late, TypeOK
    <3>2. Spared = 0 /\ Spared' = 0
      BY <2>3, <2>6 DEF Spared
    <3> QED BY <1>2, <1>4, <2>3, <2>4, <3>1, <3>2 DEF ResetInv
  <2>7. CASE request[r].today # day /\ curDate # request[r].today
    <3>1. Late' = Late /\ Stale' = Stale
      <4>1. request[r].today < day
        BY <1>0, <2>7, OtherDaysArePast
      <4> QED BY <2>1, <2>2, <2>3, <2>7, <4>1 DEF Late, Stale
    <3> QED BY <2>3, <2>4, <3>1, NobodyMoves
  <2>8. CASE request[r].today # day /\ curDate = request[r].today
    <3>1. r \in Late /\ Late' = Late \ {r}
      <4>1. request[r].today < day
        BY <1>0, <2>8, OtherDaysArePast
      <4> QED BY <2>1, <2>2, <2>3, <2>8, <4>1 DEF Late
    <3>2. Cardinality(Late') = o - 1 /\ o >= 1
      <4>1. Cardinality(Late \ {r}) = o - 1 /\ IsFiniteSet(Late \ {r})
        BY <1>1, <3>1, FS_RemoveElement
      <4>2. Cardinality(Late \ {r}) \in Nat
        BY <4>1, FS_CardinalityType
      <4> QED BY <1>1, <3>1, <4>1, <4>2
    <3>3. Spared = 0 /\ Spared' = 0
      BY <2>3, <2>8 DEF Spared
    <3>4. 2 * resets + ToCome(o - 1) - 0 <= ToCome(N)
      BY <1>0, <1>1, <1>2, <1>3, <3>2, <3>3
    <3> QED BY <1>4, <2>3, <2>4, <3>2, <3>3, <3>4 DEF ResetInv
  <2> QED BY <2>5, <2>6, <2>7, <2>8
<1>8. ASSUME NEW r \in Request, ResetDate(r) PROVE ResetInv'
  <2>1. \A q \in Request : q # r => request'[q] = request[q]
    BY <1>0, <1>8 DEF ResetDate, Moves, TypeOK, RequestState
  <2>2. /\ request[r].at = "stale" /\ request'[r].at = "ready"
        /\ request'[r].today = request[r].today
    BY <1>0, <1>8 DEF ResetDate, Moves, TypeOK, RequestState
  <2>3. /\ resets' = resets + 1 /\ UNCHANGED day
        /\ curDate' = request[r].today
    BY <1>8 DEF ResetDate
  <2>4. Dates'
    BY <1>0, <2>1, <2>2, <2>3 DEF Dates
  <2>5. CASE request[r].today = day
    <3>1. Late' = Late /\ r \in Stale /\ Stale' = Stale \ {r}
      BY <1>0, <2>1, <2>2, <2>3, <2>5 DEF Late, Stale, TypeOK
    <3>2. Cardinality(Stale') = s - 1
      BY <1>1, <3>1, FS_RemoveElement
    <3>3. Spared' = 2 * (N - o - (s - 1))
      BY <1>4, <2>3, <2>5, <3>1, <3>2 DEF Spared
    <3>4. Spared <= 2 * (N - o - s) /\ Spared \in Int
      BY <1>0, <1>1 DEF Spared
    <3>5. 2 * (resets + 1) + ToCome(o) - 2 * (N - o - (s - 1)) <= ToCome(N)
      <4> HIDE DEF o, s
      <4> QED BY <1>0, <1>1, <1>2, <1>3, <3>4
    <3> QED BY <1>4, <2>3, <2>4, <3>1, <3>3, <3>5 DEF ResetInv
  <2>6. CASE request[r].today # day
    <3>1. r \in Late /\ Late' = Late \ {r}
      <4>1. request[r].today < day
        BY <1>0, <2>6, OtherDaysArePast
      <4> QED BY <2>1, <2>2, <2>3, <4>1 DEF Late
    <3>2. Cardinality(Late') = o - 1 /\ o >= 1
      <4>1. Cardinality(Late \ {r}) = o - 1 /\ IsFiniteSet(Late \ {r})
        BY <1>1, <3>1, FS_RemoveElement
      <4>2. Cardinality(Late \ {r}) \in Nat
        BY <4>1, FS_CardinalityType
      <4> QED BY <1>1, <3>1, <4>1, <4>2
    <3>3. Spared' = 0
      BY <2>3, <2>6 DEF Spared
    <3>4. Spared <= 2 * (N - o) /\ Spared \in Int
      BY <1>0, <1>1 DEF Spared
    <3>5. 2 * (resets + 1) + ToCome(o - 1) - 0 <= ToCome(N)
      <4>1. ToCome(o - 1) = ToCome(o) - 2 * (N - o + 1)
        BY <1>3, <3>2
      <4> HIDE DEF o, s
      <4> QED BY <1>0, <1>1, <1>2, <1>3, <3>4, <4>1
    <3> QED BY <1>4, <2>3, <2>4, <3>2, <3>3, <3>5 DEF ResetInv
  <2> QED BY <2>5, <2>6
<1>9. CASE Midnight
  <2>1. resets' = 0 /\ day' = day + 1 /\ UNCHANGED <<curDate, request>>
    BY <1>9 DEF Midnight
  <2>2. Dates' /\ curDate' # day'
    BY <1>0, <2>1 DEF Dates, TypeOK, RequestState
  <2>3. Spared' = 0
    BY <2>2 DEF Spared
  <2>4. PICK n \in 0..N : n = Cardinality(Late')
    <3>1. PICK S \in SUBSET Request : S = Late'
      BY DEF Late
    <3>2. Cardinality(S) \in Nat /\ Cardinality(S) <= N
      BY CapAssumption, FS_Subset, FS_CardinalityType DEF N
    <3> QED BY <1>0, <3>1, <3>2
  <2>5. ToCome(n) \in Int /\ ToCome(n) <= ToCome(N)
    BY ToComeFacts
  <2>6. 2 * 0 + ToCome(n) - 0 <= ToCome(N)
    BY <1>3, <2>5
  <2> QED BY <1>4, <2>1, <2>2, <2>3, <2>4, <2>6 DEF ResetInv
<1>10. CASE Restart
  <2>1. /\ \A q \in Request : request'[q].at = "out" /\ request'[q].today = request[q].today
        /\ resets' = resets /\ day' = day /\ curDate' = day
    BY <1>0, <1>10 DEF Restart, TypeOK, RequestState
  <2>2. Dates'
    BY <1>0, <2>1 DEF Dates, TypeOK
  <2>3. Late' = {} /\ Stale' = {}
    BY <2>1 DEF Late, Stale
  <2>4. Cardinality(Late') = 0 /\ Cardinality(Stale') = 0
    BY <2>3, FS_EmptySet
  <2>5. Spared' = 2 * (N - 0 - 0)
    BY <1>4, <2>1, <2>4 DEF Spared
  <2>6. ToCome(0) = 2 * N
    BY <1>0 DEF ToCome
  <2>7. Spared <= 2 * N /\ Spared \in Int
    BY <1>0, <1>1 DEF Spared
  <2>8. 2 * resets + ToCome(0) - 2 * (N - 0 - 0) <= ToCome(N)
    <3> HIDE DEF o, s
    <3> QED BY <1>0, <1>2, <1>3, <2>6, <2>7
  <2> QED BY <1>4, <2>1, <2>2, <2>4, <2>5, <2>8 DEF ResetInv
<1>11. CASE UNCHANGED vars
  <2>1. UNCHANGED <<day, curDate, request, resets>>
    BY <1>11 DEF vars
  <2> QED BY <2>1, <1>0, NobodyMoves DEF Dates, Late, Stale
<1> QED BY <1>5, <1>6, <1>7, <1>8, <1>9, <1>10, <1>11 DEF Next, Step

\* However the looks at the clock (47), the comparisons (48, 49) and the resets (50) of
\* the requests interleave, and however many midnights one sleeps through, a day sees no
\* more than N (N + 3) / 2 resets, restarts or not: a late request can set the date back once.
THEOREM ResetsAreBounded == Spec => []ResetsBounded
<1>1. Init => ResetInv
  <2> SUFFICES ASSUME Init PROVE ResetInv
    OBVIOUS
  <2>1. Dates
    BY CapAssumption DEF Init, Dates
  <2>2. Late = {} /\ Stale = {} /\ resets = 0 /\ curDate = day
    BY DEF Init, Late, Stale
  <2>3. N \in Nat /\ 0 \in 0..N /\ ToCome(0) = 2 * N /\ ToCome(0) <= ToCome(N) /\ ToCome(N) \in Int
    <3>1. N \in Nat /\ 0 \in 0..N /\ N \in 0..N
      BY ToComeFacts
    <3> QED BY <3>1, ToComeFacts DEF ToCome
  <2>4. Cardinality(Late) = 0 /\ Cardinality(Stale) = 0
    BY <2>2, FS_EmptySet
  <2> QED BY <2>1, <2>2, <2>3, <2>4 DEF ResetInv, Spared
<1>2. CapInv /\ CapInv' /\ ResetInv /\ [Next]_vars => ResetInv'
  BY StepKeepsResets DEF CapInv
<1>3. CapInv /\ ResetInv => ResetsBounded
  <2> SUFFICES ASSUME CapInv, ResetInv PROVE ResetsBounded
    OBVIOUS
  <2>1. TypeOK
    BY DEF CapInv
  <2>2. /\ Cardinality(Late) \in Nat /\ Cardinality(Stale) \in Nat
        /\ Cardinality(Late) + Cardinality(Stale) <= N
    BY <2>1, LateAndStale
  <2>3. /\ N \in Nat /\ ToCome(N) = N * (N + 3) /\ ToCome(N) \in Int
        /\ 2 * N <= ToCome(Cardinality(Late)) /\ ToCome(Cardinality(Late)) \in Int
    <3>1. N \in Nat /\ N \in 0..N /\ Cardinality(Late) \in 0..N
      BY <2>2, ToComeFacts
    <3> QED BY <3>1, ToComeFacts
  <2>4. Spared <= 2 * N /\ Spared \in Int
    BY <2>2, <2>3 DEF Spared
  <2>5. 2 * resets <= ToCome(N)
    <3>1. 2 * resets + ToCome(Cardinality(Late)) - Spared <= ToCome(N) /\ resets \in Nat
      BY <2>1 DEF ResetInv, TypeOK
    <3> QED BY <2>3, <2>4, <3>1
  <2> QED BY <2>3, <2>5 DEF ResetsBounded, N
<1> QED BY <1>1, <1>2, <1>3, CapInvariant, PTL DEF Spec
=============================================================================
