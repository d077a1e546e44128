--------------------- MODULE SponsoredTransactionProofs ---------------------
(***************************************************************************)
(* What SponsoredTransaction keeps for every set of accounts, every        *)
(* transaction of any number of commands and any number of retries.        *)
(***************************************************************************)
EXTENDS SponsoredTransaction, TLAPS

\* The task runs past the check only with a transaction that was accepted, so only
\* such a one has its reservation taken, is submitted or lands; what lands is also
\* well typed, which the chain sees to.
AcceptedFirst ==
  /\ stage \notin {"received", "answered"} => Accepted
  /\ coins # "reserved" => Accepted
  /\ sent => Accepted
  /\ landed => Accepted /\ WellTyped

\* What the task holds at each stage, and what is left when it is over.
Holdings ==
  /\ stage \in {"received", "accepted"} => coins = "reserved" /\ ~sent
  /\ stage \in {"taken", "funded", "sign", "submit", "failed"} => coins = "task"
  /\ outcome = "refused" => coins = "reserved"
  /\ outcome = "not_ready" => coins \in {"reserved", "nobody"} /\ ~sent
  /\ outcome \in {"ok", "error"} => coins = "pool"
  /\ locked => stage \in {"sign", "submit"}
  /\ stage = "executed" \/ outcome = "ok" => landed /\ charged
  /\ outcome # "none" <=> stage = "answered"

SponsoredInv ==
  /\ tx \in TransactionData
  /\ stage \in Stages
  /\ AcceptedFirst
  /\ Holdings

-----------------------------------------------------------------------------

\* The check and the chain together look at every argument of every command: what
\* the code passes over takes no coin.
LEMMA CheckCoversCommands ==
  ASSUME NEW commands \in SeqOf(Command, MaxCommands),
         GasCoin \notin AllArgs(ToSet(commands)),
         NEW c \in ToSet(commands),
         c.kind \in {"TransferObjects", "Upgrade"} => c.target # GasCoin,
         c.kind = "SplitCoins" => GasCoin \notin c.args
  PROVE  c.target # GasCoin /\ GasCoin \notin c.args
<1>1. c \in Command
  BY DEF SeqOf, ToSet
<1>2. c.kind \in {"SplitCoins", "MergeCoins"} => c.target # GasCoin
  BY DEF AllArgs
<1>3. ASSUME c.kind \in {"MoveCall", "TransferObjects", "MergeCoins", "MakeMoveVec"}
      PROVE  GasCoin \notin c.args
  <2>1. c.args \subseteq AllArgs(ToSet(commands))
    BY <1>3 DEF AllArgs
  <2> QED BY <2>1
<1>4. CASE c.kind \in {"TransferObjects", "SplitCoins", "MergeCoins"}
  BY <1>2, <1>3, <1>4
<1>5. CASE c.kind \in {"Upgrade", "Publish"}
  <2>1. c.args = {} /\ (c.kind = "Publish" => c.target \in Input)
    BY <1>1, <1>5 DEF Command
  <2> QED BY <1>5, <2>1, SponsoredAssumption
<1>6. CASE c.kind \in {"MoveCall", "MakeMoveVec"}
  <2>1. c.target \in Input
    BY <1>1, <1>6 DEF Command
  <2> QED BY <1>3, <1>6, <2>1, SponsoredAssumption
<1>7. c.kind \in {"TransferObjects", "SplitCoins", "MergeCoins", "Upgrade", "Publish",
                  "MoveCall", "MakeMoveVec"}
  BY <1>1 DEF Command
<1> QED BY <1>4, <1>5, <1>6, <1>7

LEMMA InitGivesSponsoredInv == Init => SponsoredInv
BY DEF Init, SponsoredInv, AcceptedFirst, Holdings, Stages

\* What the client asked for does not change, so neither does the verdict on it.
LEMMA RequestStays ==
  ASSUME UNCHANGED request
  PROVE  /\ Accepted' <=> Accepted
         /\ WellTyped' <=> WellTyped
         /\ UNCHANGED <<advancedFaucetMode, tx>>
<1>1. UNCHANGED <<advancedFaucetMode, tx>>
  BY DEF request
<1> QED BY <1>1 DEF Accepted, CheckTransactionValidity, Signers, WellTyped

LEMMA NextKeepsSponsoredInv ==
  ASSUME SponsoredInv, [Next]_vars
  PROVE  SponsoredInv'
<1> USE DEF SponsoredInv, AcceptedFirst, Holdings, Stages, chain
<1>1. UNCHANGED request
  BY DEF Next, Task, Check, Take, TakeFails, TakeReplyLost, ReadTotalBalance, AcquireLocks,
     LocksRefused, Sign, SignFails, Submit, SubmitWithUnusableResponse, SubmitFails, LookUp,
     Release, ReleaseReplyLost, LandUnseen, ReplaceKey, FallSilent, ComeBack, vars
<1>2. CASE Check
  BY <1>1, <1>2, RequestStays DEF Check, Answer
<1>3. CASE Take \/ TakeFails \/ TakeReplyLost
  BY <1>1, <1>3, RequestStays DEF Take, TakeFails, TakeReplyLost, Answer
<1>4. CASE ReadTotalBalance \/ AcquireLocks \/ LocksRefused
  BY <1>1, <1>4, RequestStays DEF ReadTotalBalance, AcquireLocks, LocksRefused, Fail
<1>5. CASE Sign \/ SignFails
  BY <1>1, <1>5, RequestStays DEF Sign, SignFails, Retry, Fail
<1>6. CASE Submit \/ SubmitWithUnusableResponse
  BY <1>1, <1>6, RequestStays DEF Submit, SubmitWithUnusableResponse, CanLand, Fail
<1>7. CASE SubmitFails
  BY <1>1, <1>7, RequestStays DEF SubmitFails, Retry, Fail
<1>8. CASE LookUp \/ Release \/ ReleaseReplyLost
  BY <1>1, <1>8, RequestStays DEF LookUp, Release, ReleaseReplyLost, Answer
<1>9. CASE LandUnseen \/ ReplaceKey \/ FallSilent \/ ComeBack
  BY <1>1, <1>9, RequestStays DEF LandUnseen, ReplaceKey, FallSilent, ComeBack, CanLand
<1>10. CASE UNCHANGED vars
  BY <1>1, <1>10, RequestStays DEF vars
<1> QED BY <1>2, <1>3, <1>4, <1>5, <1>6, <1>7, <1>8, <1>9, <1>10 DEF Next, Task

-----------------------------------------------------------------------------
(* Theorems *)

\* SponsoredInv is inductive.
THEOREM SponsoredInvariant == Spec => []SponsoredInv
BY InitGivesSponsoredInv, NextKeepsSponsoredInv, PTL DEF Spec

\* check_transaction_validity is enough although it skips arguments: whatever lands
\* outside faucet mode uses the sponsor's coin for gas and nothing else.
THEOREM SponsorsCoinIsSafe == Spec => []SponsorFundsOnlyPayGas
<1>1. SponsoredInv => SponsorFundsOnlyPayGas
  <2> SUFFICES ASSUME SponsoredInv, landed, ~advancedFaucetMode, NEW c \in ToSet(tx.commands)
               PROVE  c.target # GasCoin /\ GasCoin \notin c.args
    BY DEF SponsorFundsOnlyPayGas
  <2>1. tx.commands \in SeqOf(Command, MaxCommands)
    BY DEF SponsoredInv, TransactionData
  <2>2. GasCoin \notin AllArgs(ToSet(tx.commands)) /\ WellTyped
    BY DEF SponsoredInv, AcceptedFirst, Accepted, CheckTransactionValidity
  <2> QED BY <2>1, <2>2, CheckCoversCommands DEF WellTyped
<1> QED BY <1>1, SponsoredInvariant, PTL

\* What each answer of execute_transaction leaves behind, whichever calls failed and
\* however long the task waited for them: no lock; the coins still reserved after a
\* refusal, back in the pool after every error later than ready_for_execution, and with
\* nobody at most after an error of ready_for_execution itself, whose reply may be lost;
\* and after a success a transaction that landed and was charged.
THEOREM AnswersAreSettled == Spec => []SettledAtEnd
<1>1. SponsoredInv => SettledAtEnd
  BY DEF SponsoredInv, Holdings, SettledAtEnd, Stages
<1> QED BY <1>1, SponsoredInvariant, PTL
=============================================================================
