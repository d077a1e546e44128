------------------------ MODULE SponsoredTransaction ------------------------
(***************************************************************************)
(* One call of execute_transaction, from the client's transaction to the   *)
(* answer: the check of what the transaction does with the sponsor's coin, *)
(* the reservation, the object locks, the signature of the sponsor (from a *)
(* key in memory or from a KMS sidecar) and the submission, with every     *)
(* error path.  The pool and the locks, modelled with all their tasks in   *)
(* GasPool and ObjectLocks, are here what one task holds of them.          *)
(***************************************************************************)
EXTENDS Integers, Sequences, SequencesExt

CONSTANTS
  Address,     \* accounts that send, own coins and sign
  Sponsor,     \* the address the signer answered when the server started
  Input,       \* arguments that are not the gas coin
  GasCoin,     \* Argument::GasCoin, the coin that pays the gas
  MaxRetries,  \* the 3 of retry_with_max_attempts: tries after the first one
  MaxCommands  \* bound: commands of a transaction

ASSUME SponsoredAssumption ==
  /\ Sponsor \in Address
  /\ GasCoin \notin Input
  /\ MaxRetries \in Nat /\ MaxCommands \in Nat

Argument == Input \cup {GasCoin}

\* A command of a programmable transaction.  "target" is its single argument: the
\* recipient, the coin that is split or merged into, the upgrade ticket; "args"
\* are its list of arguments, of which the order does not matter here.
Command ==
  [kind : {"TransferObjects", "SplitCoins", "MergeCoins"}, target : Argument, args : SUBSET Argument]
  \cup [kind : {"Upgrade"}, target : Argument, args : {{}}]
  \cup [kind : {"MoveCall", "MakeMoveVec"}, target : Input, args : SUBSET Argument]
  \cup [kind : {"Publish"}, target : Input, args : {{}}]

TransactionData ==
  [sender : Address, owner : Address, commands : SeqOf(Command, MaxCommands)]

VARIABLES
  advancedFaucetMode, \* the mode the server was started in
  tx,        \* the transaction of the client
  userSig,   \* whose signature came with it
  signerKey, \* the key the signer signs with now
  stage,     \* where the task is
  tries,     \* failed attempts of the present retry loop
  sigs,      \* the signatures of the transaction that is submitted
  coins,     \* who has the coins of the reservation: "reserved" as long as this call
             \* did not take them, the "task", the "pool", or "nobody"
  locked,    \* the object locks of the task are held
  sent,      \* the transaction may have reached validators
  landed,    \* it was executed on chain
  charged,   \* its usage was added to the daily usage
  unanswered, \* the call the task awaits gets no answer with which it could go on
  outcome    \* the answer, "none" until there is one: "ok", or the error of the check
             \* ("refused"), of ready_for_execution ("not_ready"), of a later call ("error")

request == <<advancedFaucetMode, tx, userSig>>
chain   == <<sent, landed>>
vars    == <<request, signerKey, stage, tries, sigs, coins, locked, chain, charged, unanswered,
             outcome>>

Stages == {"received", "accepted", "taken", "funded", "sign", "submit", "failed", "lookedUp",
           "executed", "answered"}

-----------------------------------------------------------------------------
(* What the check looks at *)

\* all_args of check_transaction_validity: recipients, split amounts and upgrade
\* tickets are not looked at.
AllArgs_TargetsOnly(commands) ==
  {c.target : c \in {d \in commands : d.kind \in {"SplitCoins", "MergeCoins"}}}
AllArgs(commands) ==
  {c.target : c \in {d \in commands : d.kind \in {"SplitCoins", "MergeCoins"}}}
  \cup UNION {c.args : c \in {d \in commands :
                d.kind \in {"MoveCall", "TransferObjects", "MergeCoins", "MakeMoveVec"}}}

\* TransactionData::signers, its first element first.
Signers == IF tx.owner = tx.sender THEN <<tx.sender>> ELSE <<tx.sender, tx.owner>>

CheckTransactionValidity ==
  IF advancedFaucetMode THEN tx.owner = tx.sender /\ Signers[1] = tx.sender
                        ELSE GasCoin \notin AllArgs(ToSet(tx.commands))

Accepted == tx.owner = Sponsor /\ CheckTransactionValidity

-----------------------------------------------------------------------------
(* The chain, as the code relies on it *)

\* The places the check does not look at take no coin: a recipient is an address,
\* an amount a number, a ticket an UpgradeTicket.
WellTyped ==
  \A c \in ToSet(tx.commands) :
    /\ c.kind \in {"TransferObjects", "Upgrade"} => c.target # GasCoin
    /\ c.kind = "SplitCoins" => GasCoin \notin c.args

\* One signature of every signer, in any order, and no other.
FullySigned ==
  /\ Len(sigs) = Len(Signers)
  /\ ToSet(sigs) = ToSet(Signers)

CanLand == WellTyped /\ FullySigned

\* What reached validators may land while nobody looks.
LandUnseen ==
  /\ sent /\ ~landed /\ CanLand
  /\ landed' = TRUE
  /\ UNCHANGED <<request, signerKey, stage, tries, sigs, coins, locked, sent, charged, unanswered,
                 outcome>>

\* The key behind the signer is replaced; the server keeps the address it asked
\* for when it started.
ReplaceKey ==
  /\ outcome = "none"
  /\ signerKey' \in Address \ {signerKey}
  /\ UNCHANGED <<request, stage, tries, sigs, coins, locked, chain, charged, unanswered, outcome>>

\* The sidecar takes a connection and stays silent (its client has no timeout), or the
\* fullnode or Redis fails each of the attempts of a loop that never gives up: the task
\* goes on when the service is back.
FallSilent ==
  /\ ~unanswered /\ stage \notin {"received", "answered"}
  /\ unanswered' = TRUE
  /\ UNCHANGED <<request, signerKey, stage, tries, sigs, coins, locked, chain, charged, outcome>>

ComeBack ==
  /\ unanswered
  /\ unanswered' = FALSE
  /\ UNCHANGED <<request, signerKey, stage, tries, sigs, coins, locked, chain, charged, outcome>>

-----------------------------------------------------------------------------
(* The task *)

Answer(result) == stage' = "answered" /\ outcome' = result

\* is_valid_address and check_transaction_validity.
Check ==
  /\ stage = "received"
  /\ IF Accepted THEN stage' = "accepted" /\ UNCHANGED outcome ELSE Answer("refused")
  /\ UNCHANGED <<request, signerKey, tries, sigs, coins, locked, chain, charged>>

\* ready_for_execution deletes the key of the reservation and says so.
Take ==
  /\ stage = "accepted"
  /\ coins' = "task"
  /\ stage' = "taken"
  /\ UNCHANGED <<request, signerKey, tries, sigs, locked, chain, charged, outcome>>

\* ready_for_execution fails: the reservation ended before, or the script did not run.
TakeFails ==
  /\ stage = "accepted"
  /\ Answer("not_ready")
  /\ UNCHANGED <<request, signerKey, tries, sigs, coins, locked, chain, charged>>

\* The script deleted the key, but an error arrives instead of its reply and
\* execute_transaction returns it: nobody is left to give the coins back.
TakeReplyLost ==
  /\ stage = "accepted"
  /\ coins' = "nobody"
  /\ Answer("not_ready")
  /\ UNCHANGED <<request, signerKey, tries, sigs, locked, chain, charged>>

\* get_total_gas_coin_balance, which asks the fullnode until it answers.
ReadTotalBalance ==
  /\ stage = "taken"
  /\ stage' = "funded"
  /\ UNCHANGED <<request, signerKey, tries, sigs, coins, locked, chain, charged, outcome>>

\* try_acquire_locks.  In faucet mode the signature of the client is enough.
AcquireLocks ==
  /\ stage = "funded"
  /\ locked' = TRUE
  /\ stage' = IF advancedFaucetMode THEN "submit" ELSE "sign"
  /\ sigs' = IF advancedFaucetMode THEN <<userSig>> ELSE <<>>
  /\ tries' = 0
  /\ UNCHANGED <<request, signerKey, coins, chain, charged, outcome>>

\* An error under execute_transaction_impl drops the locks; the task goes on to
\* return the coins.
Fail_ReturnsEarly == Answer("error") /\ locked' = FALSE
Fail == stage' = "failed" /\ locked' = FALSE /\ UNCHANGED outcome

LocksRefused ==
  /\ stage = "funded"
  /\ Fail
  /\ UNCHANGED <<request, signerKey, tries, sigs, coins, chain, charged>>

\* An attempt of a retry loop fails: after MaxRetries more the loop gives up.
Retry_Forever == tries' = tries /\ UNCHANGED <<stage, locked, outcome>>
Retry ==
  IF tries < MaxRetries
    THEN tries' = tries + 1 /\ UNCHANGED <<stage, locked, outcome>>
    ELSE Fail /\ UNCHANGED tries

\* sign_transaction: the signer answers with a signature.
Sign ==
  /\ stage = "sign"
  /\ sigs' = <<userSig, signerKey>>
  /\ stage' = "submit"
  /\ tries' = 0
  /\ UNCHANGED <<request, signerKey, coins, locked, chain, charged, outcome>>

\* The sidecar cannot be reached, refuses the bytes, or answers without a signature.
SignFails ==
  /\ stage = "sign"
  /\ Retry
  /\ UNCHANGED <<request, signerKey, sigs, coins, chain, charged>>

\* SuiClient::execute_transaction: the effects arrive.  The usage is added, and
\* the locks are dropped at the end of execute_transaction_impl.
Submit ==
  /\ stage = "submit"
  /\ landed \/ CanLand
  /\ sent' = TRUE /\ landed' = TRUE
  /\ charged' = TRUE
  /\ stage' = "executed"
  /\ locked' = FALSE
  /\ UNCHANGED <<request, signerKey, tries, sigs, coins, outcome>>

\* The response names no effects or, in faucet mode, net_usage finds no balance changes
\* in it or too large a sum: an error, although the transaction was executed, and one
\* that is not tried again.
SubmitWithUnusableResponse ==
  /\ stage = "submit"
  /\ landed \/ CanLand
  /\ sent' = TRUE /\ landed' = TRUE
  /\ Fail
  /\ UNCHANGED <<request, signerKey, tries, sigs, coins, charged>>

\* An attempt fails before or after the transaction reached validators.
SubmitFails ==
  /\ stage = "submit"
  /\ sent' \in {sent, TRUE}
  /\ Retry
  /\ UNCHANGED <<request, signerKey, sigs, coins, landed, charged>>

\* get_latest_gas_objects after an error, which asks until it gets an answer.
LookUp ==
  /\ stage = "failed"
  /\ stage' = "lookedUp"
  /\ UNCHANGED <<request, signerKey, tries, sigs, coins, locked, chain, charged, outcome>>

\* release_gas_coins of the derived coin, or of those that were looked up, and the answer.
Release ==
  /\ stage \in {"executed", "lookedUp"}
  /\ coins' = "pool"
  /\ Answer(IF stage = "executed" THEN "ok" ELSE "error")
  /\ UNCHANGED <<request, signerKey, tries, sigs, locked, chain, charged>>

\* add_new_coins ran, but its reply is lost and the loop calls it again.
ReleaseReplyLost ==
  /\ stage \in {"executed", "lookedUp"}
  /\ coins' = "pool"
  /\ UNCHANGED <<request, signerKey, stage, tries, sigs, locked, chain, charged, outcome>>

-----------------------------------------------------------------------------

Init ==
  /\ advancedFaucetMode \in BOOLEAN
  /\ tx \in TransactionData
  /\ userSig \in Address
  /\ signerKey = Sponsor
  /\ stage = "received" /\ outcome = "none"
  /\ tries = 0 /\ sigs = <<>>
  /\ coins = "reserved"
  /\ locked = FALSE /\ sent = FALSE /\ landed = FALSE /\ charged = FALSE /\ unanswered = FALSE

\* The steps of the task.  A call that gets no answer lets it do none of them.
Task ==
  /\ ~unanswered /\ UNCHANGED unanswered
  /\ \/ Check \/ Take \/ TakeFails \/ TakeReplyLost
     \/ ReadTotalBalance \/ AcquireLocks \/ LocksRefused
     \/ Sign \/ SignFails
     \/ Submit \/ SubmitWithUnusableResponse \/ SubmitFails
     \/ LookUp \/ Release \/ ReleaseReplyLost

Next == Task \/ LandUnseen \/ ReplaceKey \/ FallSilent \/ ComeBack

\* A task whose answer is there goes on, since the runtime polls it.  Nothing is assumed
\* of services: retry_forever has no bound, and the sidecar's client no timeout.
Spec == Init /\ [][Next]_vars /\ WF_vars(Task)

-----------------------------------------------------------------------------
(* Properties *)

TypeOK ==
  /\ advancedFaucetMode \in BOOLEAN
  /\ tx \in TransactionData
  /\ userSig \in Address /\ signerKey \in Address
  /\ stage \in Stages
  /\ tries \in 0..MaxRetries
  /\ sigs \in Seq(Address) /\ Len(sigs) <= 2
  /\ coins \in {"reserved", "task", "pool", "nobody"}
  /\ {locked, sent, landed, charged, unanswered} \subseteq BOOLEAN
  /\ outcome \in {"none", "ok", "refused", "not_ready", "error"}

\* "Gas coin can only be used to pay gas": outside faucet mode no transaction that
\* lands does anything else with the sponsor's coin, although the check skips
\* some arguments of some commands.
SponsorFundsOnlyPayGas ==
  landed /\ ~advancedFaucetMode =>
    \A c \in ToSet(tx.commands) : c.target # GasCoin /\ GasCoin \notin c.args

\* What an answer means for the locks and the coins, whichever calls failed.  A refused
\* transaction costs the client nothing, its reservation stands; once the reply of
\* ready_for_execution is there the coins go back to the pool on every path; and only the
\* error of ready_for_execution may mean that nobody has them any more.  What is reported
\* as executed was executed and counted.
SettledAtEnd ==
  /\ outcome # "none" => ~locked
  /\ outcome = "refused" => coins = "reserved"
  /\ outcome = "not_ready" => coins \in {"reserved", "nobody"} /\ ~sent
  /\ outcome \in {"ok", "error"} => coins = "pool"
  /\ outcome = "ok" => landed /\ charged

\* A request is answered if the calls it waits for are answered in the end: signing and
\* submission may fail as often as they like, also after the sidecar's key was replaced.
ExecutionEnds == <>[]~unanswered => <>(outcome # "none")

\* "so that it will finish even when client drops the connection": every task of a request
\* ends, whatever the sidecar, the fullnode and Redis do.
ExecutionFinishes == <>(outcome # "none")
=============================================================================
