---------------------------- MODULE CoinCustody ----------------------------
(***************************************************************************)
(* What a gas pool promises about its coins: a coin is at one place at a   *)
(* time.  It is lent from the pool to a borrower who is served once, taken *)
(* from the borrower by a task, and returned to the pool by that task.     *)
(* A coin can be lost from the hands of a borrower or a task, for good.    *)
(***************************************************************************)
CONSTANTS Coin, Borrower, Taker, Nil

VARIABLES
  place,     \* where each coin is, and in whose hands
  borrowers  \* borrowers that were served

custodyVars == <<place, borrowers>>

Pool     == [at |-> "pool", by |-> Nil]
Gone     == [at |-> "gone", by |-> Nil]
Lent(b)  == [at |-> "lent", by |-> b]
Taken(t) == [at |-> "taken", by |-> t]

At(p) == {c \in Coin : place[c] = p}

Init ==
  /\ place = [c \in Coin |-> Pool]
  /\ borrowers = {}

Lend(b, coins) ==
  /\ b \notin borrowers
  /\ coins # {}
  /\ place' = [c \in Coin |-> IF c \in coins THEN Lent(b) ELSE place[c]]
  /\ borrowers' = borrowers \cup {b}

\* A task with empty hands takes the coins of some borrowers; the ones it does
\* not keep are lost.
Take(bs, t) ==
  /\ At(Taken(t)) = {}
  /\ LET coins == UNION {At(Lent(b)) : b \in bs}
     IN  \E kept \in SUBSET coins :
           place' = [c \in Coin |-> IF c \in kept THEN Taken(t)
                                    ELSE IF c \in coins THEN Gone ELSE place[c]]
  /\ UNCHANGED borrowers

\* Tasks lose coins they have taken.
Lose(coins) ==
  /\ place' = [c \in Coin |-> IF c \in coins THEN Gone ELSE place[c]]
  /\ UNCHANGED borrowers

\* A task returns all it has.
Return(t) ==
  /\ place' = [c \in Coin |-> IF place[c] = Taken(t) THEN Pool ELSE place[c]]
  /\ UNCHANGED borrowers

Next ==
  \/ \E b \in Borrower, coins \in SUBSET At(Pool) : Lend(b, coins)
  \/ \E bs \in SUBSET borrowers, t \in Taker : Take(bs, t)
  \/ \E coins \in SUBSET UNION {At(Taken(t)) : t \in Taker} : Lose(coins)
  \/ \E t \in Taker : Return(t)

Spec == Init /\ [][Next]_custodyVars
=============================================================================
