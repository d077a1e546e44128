----------------------------- MODULE GasUsageCap -----------------------------
(***************************************************************************)
(* The daily gas usage cap of one server.  A request is checked against    *)
(* the cap when it reserves gas and its usage is counted after execution;  *)
(* both calls first move the counter to the present day, looking at the    *)
(* clock, at the date and at the counter under separate locks.             *)
(***************************************************************************)
EXTENDS Integers, FiniteSets

CONSTANTS
  Request,   \* requests in the hands of the server at the same time
  DailyCap,  \* daily_cap
  Usage,     \* net usages of a transaction
  MaxUsage,  \* the largest of them
  LastDay,   \* bound: days
  MaxSpent   \* bound: usage on one day, in either direction

ASSUME CapAssumption ==
  /\ IsFiniteSet(Request)
  /\ DailyCap \in Nat \ {0}
  /\ MaxUsage \in Nat /\ Usage \subseteq Int /\ \A usage \in Usage : usage <= MaxUsage
  /\ LastDay \in Nat \ {0} /\ MaxSpent \in Nat

VARIABLES
  day,            \* Local::now().date_naive()
  curDate,        \* cur_date
  curDailyUsage,  \* cur_daily_usage
  request,        \* where each request is
  spent,          \* what the executions counted on this day really used
  spentBefore,    \* as much of it as an earlier process of the server counted
  resets,         \* how often reset_date was called on this day
  restarts        \* starts of the server on this day that lost usage of it

history == <<spent, spentBefore, resets, restarts>>
vars    == <<day, curDate, curDailyUsage, request, history>>

\* A request is between calls ("out") or inside its next call: it has looked at the
\* clock ("dated"), found the date to be another one ("stale"), or has the date
\* behind it ("ready").  "today" is the local variable of reset_date_maybe.
RequestState ==
  [next : {"check", "update"}, at : {"out", "dated", "stale", "ready"}, today : 1..LastDay]

\* Requests that were let through and whose usage is not counted yet.
Admitted == {r \in Request : request[r].next = "update"}

Moves(r, at) == request' = [request EXCEPT ![r].at = at]

-----------------------------------------------------------------------------
(* reset_date_maybe, the first part of both calls *)

LookAtClock(r) ==
  /\ request[r].at = "out"
  /\ request' = [request EXCEPT ![r].at = "dated", ![r].today = day]
  /\ UNCHANGED <<day, curDate, curDailyUsage, history>>

CompareDate(r) ==
  /\ request[r].at = "dated"
  /\ Moves(r, IF curDate # request[r].today THEN "stale" ELSE "ready")
  /\ UNCHANGED <<day, curDate, curDailyUsage, history>>

\* The write lock is taken anew, and the date is not compared again.
ResetDate_KeepsUsage(r) ==
  /\ request[r].at = "stale"
  /\ curDate' = request[r].today
  /\ resets' = resets + 1
  /\ Moves(r, "ready")
  /\ UNCHANGED <<day, curDailyUsage, spent, spentBefore, restarts>>

ResetDate_KeepsDate(r) ==
  /\ request[r].at = "stale"
  /\ curDailyUsage' = 0
  /\ resets' = resets + 1
  /\ Moves(r, "ready")
  /\ UNCHANGED <<day, curDate, spent, spentBefore, restarts>>

ResetDate(r) ==
  /\ request[r].at = "stale"
  /\ curDate' = request[r].today
  /\ curDailyUsage' = 0
  /\ resets' = resets + 1
  /\ Moves(r, "ready")
  /\ UNCHANGED <<day, spent, spentBefore, restarts>>

-----------------------------------------------------------------------------
(* The rest of the two calls *)

Exceeded_CapIncluded == curDailyUsage > DailyCap
Exceeded == curDailyUsage >= DailyCap

\* check_usage
CheckUsage(r) ==
  /\ request[r].at = "ready" /\ request[r].next = "check"
  /\ request' = [request EXCEPT ![r].at = "out", ![r].next = IF Exceeded THEN "check" ELSE "update"]
  /\ UNCHANGED <<day, curDate, curDailyUsage, history>>

\* update_usage
UpdateUsage_Overwrites(r, usage) ==
  /\ request[r].at = "ready" /\ request[r].next = "update"
  /\ spent + usage \in (-MaxSpent)..MaxSpent
  /\ curDailyUsage' = usage
  /\ spent' = spent + usage
  /\ request' = [request EXCEPT ![r].at = "out", ![r].next = "check"]
  /\ UNCHANGED <<day, curDate, spentBefore, resets, restarts>>

UpdateUsage(r, usage) ==
  /\ request[r].at = "ready" /\ request[r].next = "update"
  /\ spent + usage \in (-MaxSpent)..MaxSpent
  /\ curDailyUsage' = curDailyUsage + usage
  /\ spent' = spent + usage
  /\ request' = [request EXCEPT ![r].at = "out", ![r].next = "check"]
  /\ UNCHANGED <<day, curDate, spentBefore, resets, restarts>>

\* The reservation expires or its transaction fails, and nothing is counted.
GiveUp(r) ==
  /\ request[r].at = "out" /\ request[r].next = "update"
  /\ request' = [request EXCEPT ![r].next = "check"]
  /\ UNCHANGED <<day, curDate, curDailyUsage, history>>

Midnight ==
  /\ day < LastDay
  /\ day' = day + 1
  /\ spent' = 0 /\ spentBefore' = 0 /\ resets' = 0 /\ restarts' = 0
  /\ UNCHANGED <<curDate, curDailyUsage, request>>

\* The server is started again: GasUsageCap::new.  The counter is lost; requests are
\* not, as reservations that were granted before can still be executed.
Restart ==
  /\ curDate' = day /\ curDailyUsage' = 0
  /\ request' = [r \in Request |-> [request[r] EXCEPT !.at = "out"]]
  /\ spentBefore' = spent
  /\ restarts' = IF spent = spentBefore THEN restarts ELSE restarts + 1
  /\ UNCHANGED <<day, spent, resets>>

Init ==
  /\ day = 1 /\ curDate = 1 /\ curDailyUsage = 0 /\ spent = 0 /\ spentBefore = 0
  /\ resets = 0 /\ restarts = 0
  /\ request = [r \in Request |-> [next |-> "check", at |-> "out", today |-> 1]]

Step(r) ==
  \/ LookAtClock(r) \/ CompareDate(r) \/ ResetDate(r)
  \/ CheckUsage(r) \/ GiveUp(r)
  \/ \E usage \in Usage : UpdateUsage(r, usage)

Next == Midnight \/ Restart \/ \E r \in Request : Step(r)

Spec == Init /\ [][Next]_vars

-----------------------------------------------------------------------------
(* Properties *)

TypeOK ==
  /\ day \in 1..LastDay /\ curDate \in 1..LastDay
  /\ curDailyUsage \in Int /\ spent \in Int /\ spentBefore \in Int
  /\ resets \in Nat /\ restarts \in Nat
  /\ request \in [Request -> RequestState]

\* Requests are checked long before they are counted, so the counter passes the
\* cap; but by no more than what the requests in the server's hands can use.
OvershootBounded ==
  curDailyUsage + MaxUsage * Cardinality(Admitted) < DailyCap + MaxUsage * Cardinality(Request)

\* A counter that carries the present date never charges the day for more than was
\* used on it, whatever was counted late.  (Without rebates: a reset may as well
\* forget a rebate.)
ChargedForTodayOnly == curDate = day => curDailyUsage <= spent - spentBefore

\* A reset by a request that was late in looking, and a restart, give the day a new
\* counter and so another cap; but never more than that: a day uses less than a cap and
\* the usage of the requests in the server's hands for each counter it had.
\* (A counter that yesterday's rebates left below zero admits nobody today: every request
\* that is checked looks at the clock first, and resets it.)
CapForEachCounter ==
  spent <= (1 + resets + restarts) * (DailyCap - 1 + MaxUsage * Cardinality(Request))

\* Requests that looked at the clock on an earlier day set the date back, and each time
\* all the others may reset it anew.  They are used up, though: with N requests there are
\* at most N (N + 3) / 2 resets on a day, however many days the late ones slept.
ResetsBounded == 2 * resets <= Cardinality(Request) * (Cardinality(Request) + 3)

\* "The total amount of gas usage allowed per day": what a day really uses stays
\* below the cap, but for the requests in the server's hands.
DayStaysCapped == spent < DailyCap + MaxUsage * Cardinality(Request)
=============================================================================
