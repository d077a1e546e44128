------------------------------ MODULE GasPool ------------------------------
(***************************************************************************)
(* The gas pool: gas-station servers that share one Redis instance.  Each  *)
(* server runs a task per execution request and one coin unlocker.  A task *)
(* is a sequence of steps with an await between them, so tasks of all      *)
(* servers interleave at that grain; a storage call is one atomic script   *)
(* (GasStorage).  The chain, the fullnode that answers reads, the clients  *)
(* and the network are the environment.                                    *)
(***************************************************************************)
EXTENDS GasStorage

CONSTANTS
  InitialBalance,  \* balance of every coin of the initialised pool
  Usage,           \* net gas usages of a transaction; a rebate is negative
  MaxBudget,       \* MAX_BUDGET
  MaxDuration,     \* MAX_DURATION_S
  WordModulus,     \* 2^64: a balance is stored as a u64
  AdvancedFaucetMode, \* the sponsor itself sends; its transactions move SUI
  MaxQueue,        \* bound: queue length up to which a repeated add is explored
  Faults           \* what may go wrong besides a failed transaction

FaultKinds ==
  {"crash",              \* a server dies between two steps
   "timeout",            \* all attempts to submit fail, the outcome is unknown
   "fullnode_lag",       \* reads may be answered from before recent transactions
   "lost_take_reply",    \* the reply of ready_for_execution or expire_coins is lost
   "lost_add_reply",     \* the reply of add_new_coins is lost
   "incomplete_payment", \* a client pays with part of its reservation, or none
   "mixed_payment"}      \* a client pays with a coin of another reservation

ASSUME PoolAssumption ==
  /\ InitialBalance \in Nat
  /\ Usage \subseteq Int
  /\ MaxBudget \in Nat /\ MaxDuration \in Nat
  /\ WordModulus \in Nat \ {0}
  /\ AdvancedFaucetMode \in BOOLEAN
  /\ MaxQueue \in Nat
  /\ Faults \subseteq FaultKinds
  /\ IsFiniteSet(ObjectID) /\ IsFiniteSet(Server)
  /\ Nil \notin GasCoin

VARIABLES
  chain,     \* the live version of every coin, Nil once it was smashed
  fullnode,  \* what the fullnode answers for every coin
  granted,   \* reservation id -> the object references its client received
  exec,      \* reservation id -> the execution task that took it
  unlocker,  \* the coin unlocker task of every server
  network    \* submitted transactions of which nobody waits for the outcome:
             \* records of the reservation they used and their payment

envVars  == <<chain, fullnode, network>>
taskVars == <<granted, exec, unlocker>>
vars     == <<storageVars, envVars, taskVars>>

ObjectRef == [id : ObjectID, version : Nat]

\* Where an execution task is: the reservation is taken ("ready"), the balance
\* prior to execution is known ("funded"), the coins have to be looked up
\* because the transaction failed ("failed"), the coins to return are known
\* ("release").
ExecTask ==
  [server : Server, stage : {"ready", "funded", "failed", "release"},
   payment : Seq(ObjectRef), total : Int, coins : Seq(GasCoin)]

UnlockTask ==
  [stage : {"idle", "query", "release"}, ids : SUBSET ObjectID, coins : Seq(GasCoin)]

Idle == [stage |-> "idle", ids |-> {}, coins |-> <<>>]

-----------------------------------------------------------------------------
(* Who holds a coin outside Redis *)

HeldByExec(r) ==
  IF exec[r].stage = "release" THEN Ids(exec[r].coins) ELSE Ids(exec[r].payment)

HeldByUnlocker(s) ==
  IF unlocker[s].stage = "release" THEN Ids(unlocker[s].coins) ELSE unlocker[s].ids

HeldByTasks ==
  (UNION {HeldByExec(r) : r \in DOMAIN exec})
    \cup (UNION {HeldByUnlocker(s) : s \in Server})

\* The transaction of an execution task, as the network keeps it.
Sent(r) == [reservation |-> r, payment |-> exec[r].payment]

Live == {c \in ObjectID : chain[c] # Nil}

Stranded == Live \ (InRedis \cup HeldByTasks)

-----------------------------------------------------------------------------
(* The chain and the fullnode, as the code relies on them *)

\* An owned input is accepted at its latest version only.
RefsCurrent(payment) ==
  \A i \in 1..Len(payment) :
    /\ chain[payment[i].id] # Nil
    /\ chain[payment[i].id].version = payment[i].version

OnChainTotal(payment) == SumFunction([c \in Ids(payment) |-> chain[c].balance])

NextVersion(payment) ==
  1 + Max({payment[i].version : i \in 1..Len(payment)})

\* A transaction lands: its payment coins are smashed into the first one, which
\* pays the gas, the others are deleted.  A fullnode that does not lag shows it.
Land(payment, usage) ==
  /\ payment # <<>>
  /\ RefsCurrent(payment)
  /\ usage <= OnChainTotal(payment)
  /\ chain' = [c \in ObjectID |->
                 IF c = payment[1].id
                   THEN [id |-> c, version |-> NextVersion(payment),
                         balance |-> OnChainTotal(payment) - usage]
                 ELSE IF c \in Ids(payment) THEN Nil
                 ELSE chain[c]]
  /\ fullnode' = IF "fullnode_lag" \in Faults THEN fullnode ELSE chain'

FullnodeCatchUp ==
  /\ fullnode # chain
  /\ fullnode' = chain
  /\ UNCHANGED <<storageVars, taskVars, chain, network>>

\* get_latest_gas_objects: the answers of the fullnode for a set of coins, less
\* the ones that no longer exist, in the order of a hash map, that is any.
LatestGasObjects_KeepsDeleted(ids) ==
  {[i \in DOMAIN order |-> fullnode[order[i]]] : order \in SetToSeqs(ids)}
LatestGasObjects(ids) ==
  {[i \in DOMAIN order |-> fullnode[order[i]]] :
     order \in SetToSeqs({c \in ids : fullnode[c] # Nil})}

-----------------------------------------------------------------------------
(* Reservation *)

\* ReserveGasRequest::check_validity.
CheckValidity(budget, duration) ==
  /\ budget > 0 /\ budget <= MaxBudget
  /\ duration > 0 /\ duration <= MaxDuration

\* The reserve_gas handler.  A rejected reservation leaves Redis as it was.
ReserveGas(budget, duration) ==
  LET popped == SubSeq(available, 1, Len(available) - Len(available'))
      id     == nextReservationId'
  IN  /\ connected # {}
      /\ CheckValidity(budget, duration)
      /\ ReserveGasCoins(budget, duration)
      /\ granted' = [r \in DOMAIN granted \cup {id} |->
                       IF r = id
                         THEN [i \in DOMAIN popped |->
                                 [id |-> popped[i].id, version |-> popped[i].version]]
                         ELSE granted[r]]
      /\ UNCHANGED <<envVars, exec, unlocker>>

-----------------------------------------------------------------------------
(* Execution *)

\* The payments a client may put in the transaction it submits for r.  Nothing
\* in execute_transaction compares them with the reservation.
Payments(r) ==
  {granted[r]}
  \cup (IF "incomplete_payment" \in Faults
          THEN {SubSeq(granted[r], 1, n) : n \in 0..(Len(granted[r]) - 1)} ELSE {})
  \cup (IF "mixed_payment" \in Faults
          THEN {[granted[r] EXCEPT ![1] = granted[q][1]] : q \in DOMAIN granted} ELSE {})

\* execute_transaction up to ready_for_execution, which fails when the
\* reservation was taken before.
StartExecution(s, r, payment) ==
  /\ s \in connected
  /\ r \in DOMAIN granted
  /\ payment \in Payments(r)
  /\ ReadyForExecution(r)
  /\ exec' = [q \in DOMAIN exec \cup {r} |->
                IF q = r THEN [server |-> s, stage |-> "ready", payment |-> payment,
                               total |-> 0, coins |-> <<>>]
                ELSE exec[q]]
  /\ UNCHANGED <<envVars, granted, unlocker>>

\* The key is deleted, but the handler sees an error and returns.
StartReplyLost(s, r) ==
  /\ "lost_take_reply" \in Faults
  /\ s \in connected
  /\ r \in DOMAIN granted
  /\ ReadyForExecution(r)
  /\ UNCHANGED <<envVars, taskVars>>

\* get_total_gas_coin_balance, prior to execution.
ReadTotalBalance(r) ==
  /\ exec[r].stage = "ready"
  /\ exec' = [exec EXCEPT
       ![r].stage = "funded",
       ![r].total = SumFunction([c \in Ids(exec[r].payment) |->
                                   IF fullnode[c] = Nil THEN 0 ELSE fullnode[c].balance])]
  /\ UNCHANGED <<storageVars, envVars, granted, unlocker>>

FailExecution_ReturnsEarly(r) ==
  /\ exec[r].stage = "funded"
  /\ exec' = Restrict(exec, DOMAIN exec \ {r})
  /\ UNCHANGED <<storageVars, envVars, granted, unlocker>>

\* The object locks are refused, the signer fails, or the chain rejects the
\* transaction: nothing happened on chain.
FailExecution(r) ==
  /\ exec[r].stage = "funded"
  /\ exec' = [exec EXCEPT ![r].stage = "failed"]
  /\ UNCHANGED <<storageVars, envVars, granted, unlocker>>

\* net_usage: the gas cost less the rebate or, in faucet mode, the magnitude of
\* the change of the sponsor's balance.
NetUsage(usage) == IF AdvancedFaucetMode /\ usage < 0 THEN -usage ELSE usage

\* get_coins_after_tx: the gas coin of the effects, with a balance that is not
\* read but derived from the total read before.
CoinsAfterTx_FirstCoin(payment, total, usage) ==
  <<[id |-> payment[1].id, version |-> NextVersion(payment),
     balance |-> (fullnode[payment[1].id].balance - NetUsage(usage)) % WordModulus]>>
CoinsAfterTx(payment, total, usage) ==
  <<[id |-> payment[1].id, version |-> NextVersion(payment),
     balance |-> (total - NetUsage(usage)) % WordModulus]>>

\* The transaction lands and its effects arrive.
ExecuteTransaction(r, usage) ==
  LET payment == exec[r].payment
  IN  /\ exec[r].stage = "funded"
      /\ Land(payment, usage)
      /\ exec' = [exec EXCEPT ![r].stage = "release",
                             ![r].coins = CoinsAfterTx(payment, exec[r].total, usage)]
      /\ UNCHANGED <<storageVars, network, granted, unlocker>>

\* Every attempt to submit returned an error although the transaction may have
\* reached validators.
SubmitTimeout(r) ==
  /\ "timeout" \in Faults
  /\ exec[r].stage = "funded"
  /\ exec' = [exec EXCEPT ![r].stage = "failed"]
  /\ network' = network \cup {Sent(r)}
  /\ UNCHANGED <<storageVars, chain, fullnode, granted, unlocker>>

\* A transaction nobody waits for lands, or is dropped for good.
LandLate(tx, usage) ==
  /\ Land(tx.payment, usage)
  /\ network' = network \ {tx}
  /\ UNCHANGED <<storageVars, taskVars>>

DropLate(tx) ==
  /\ network' = network \ {tx}
  /\ UNCHANGED <<storageVars, taskVars, chain, fullnode>>

\* The look-up after a failed execution.
QueryLatest(r) ==
  /\ exec[r].stage = "failed"
  /\ \E coins \in LatestGasObjects(Ids(exec[r].payment)) :
       exec' = [exec EXCEPT ![r].stage = "release", ![r].coins = coins]
  /\ UNCHANGED <<storageVars, envVars, granted, unlocker>>

\* release_gas_coins, and the end of the task.
ReleaseCoins(r) ==
  /\ exec[r].stage = "release"
  /\ AddNewCoins(exec[r].coins)
  /\ exec' = Restrict(exec, DOMAIN exec \ {r})
  /\ UNCHANGED <<envVars, granted, unlocker>>

\* The script ran but its reply is lost: retry_forever will call it again.
ReleaseReplyLost(r) ==
  /\ "lost_add_reply" \in Faults
  /\ exec[r].stage = "release"
  /\ Len(available) + Len(exec[r].coins) <= MaxQueue
  /\ AddNewCoins(exec[r].coins)
  /\ UNCHANGED <<envVars, taskVars>>

-----------------------------------------------------------------------------
(* The coin unlocker, one loop per server *)

\* The call of expire_coins; with nothing due the loop goes back to sleep.
UnlockerExpire(s) ==
  /\ s \in connected
  /\ unlocker[s].stage = "idle"
  /\ ExpireCoins
  /\ unlocker' = [unlocker EXCEPT
       ![s] = IF ExpiredIds = {} THEN Idle
              ELSE [stage |-> "query", ids |-> ExpiredIds, coins |-> <<>>]]
  /\ UNCHANGED <<envVars, granted, exec>>

\* The keys are deleted but the error is turned into an empty list.
ExpireReplyLost(s) ==
  /\ "lost_take_reply" \in Faults
  /\ s \in connected
  /\ unlocker[s].stage = "idle"
  /\ ExpireCoins
  /\ UNCHANGED <<envVars, taskVars>>

UnlockerQuery(s) ==
  /\ unlocker[s].stage = "query"
  /\ \E coins \in LatestGasObjects(unlocker[s].ids) :
       unlocker' = [unlocker EXCEPT ![s].stage = "release", ![s].coins = coins]
  /\ UNCHANGED <<storageVars, envVars, granted, exec>>

UnlockerRelease(s) ==
  /\ unlocker[s].stage = "release"
  /\ AddNewCoins(unlocker[s].coins)
  /\ unlocker' = [unlocker EXCEPT ![s] = Idle]
  /\ UNCHANGED <<envVars, granted, exec>>

UnlockerReplyLost(s) ==
  /\ "lost_add_reply" \in Faults
  /\ unlocker[s].stage = "release"
  /\ Len(available) + Len(unlocker[s].coins) <= MaxQueue
  /\ AddNewCoins(unlocker[s].coins)
  /\ UNCHANGED <<envVars, taskVars>>

-----------------------------------------------------------------------------
(* Servers stop and start; time passes *)

ExecsOf(s) == {r \in DOMAIN exec : exec[r].server = s}

\* A crash forgets every task of the server.  A transaction it may have
\* submitted stays in the network.
Crash(s) ==
  /\ "crash" \in Faults
  /\ Disconnect(s)
  /\ exec' = Restrict(exec, DOMAIN exec \ ExecsOf(s))
  /\ unlocker' = [unlocker EXCEPT ![s] = Idle]
  /\ network' = network \cup {Sent(r) : r \in {q \in ExecsOf(s) : exec[q].stage = "funded"}}
  /\ UNCHANGED <<chain, fullnode, granted>>

Restart(s) == ConnectStorage(s) /\ UNCHANGED <<envVars, taskVars>>

PassTime == Tick /\ UNCHANGED <<envVars, taskVars>>

-----------------------------------------------------------------------------

\* A pool whose initialisation is over: every coin is in the queue.
Init ==
  /\ \E order \in SetToSeqs(ObjectID) :
       available = [i \in DOMAIN order |->
                      [id |-> order[i], version |-> 1, balance |-> InitialBalance]]
  /\ coinCount = Len(available)
  /\ totalBalance = Balance(available)
  /\ reservation = <<>>
  /\ expirationQueue = <<>>
  /\ nextReservationId = 0
  /\ initialized = TRUE
  /\ connected = Server
  /\ chain = [c \in ObjectID |-> [id |-> c, version |-> 1, balance |-> InitialBalance]]
  /\ fullnode = chain
  /\ granted = <<>>
  /\ exec = <<>>
  /\ unlocker = [s \in Server |-> Idle]
  /\ network = {}

ExecStep(r) ==
  \/ ReadTotalBalance(r)
  \/ FailExecution(r)
  \/ \E usage \in Usage : ExecuteTransaction(r, usage)
  \/ SubmitTimeout(r)
  \/ QueryLatest(r)
  \/ ReleaseCoins(r)
  \/ ReleaseReplyLost(r)

UnlockerStep(s) ==
  \/ UnlockerExpire(s)
  \/ ExpireReplyLost(s)
  \/ UnlockerQuery(s)
  \/ UnlockerRelease(s)
  \/ UnlockerReplyLost(s)

ClientRequest ==
  \/ \E budget \in Budget, duration \in Duration : ReserveGas(budget, duration)
  \/ \E s \in Server, r \in DOMAIN reservation :
       \/ \E payment \in Payments(r) : StartExecution(s, r, payment)
       \/ StartReplyLost(s, r)

Environment ==
  \/ \E tx \in network : (\E usage \in Usage : LandLate(tx, usage)) \/ DropLate(tx)
  \/ FullnodeCatchUp
  \/ \E s \in Server : Crash(s) \/ Restart(s)
  \/ PassTime

Next ==
  \/ ClientRequest
  \/ \E r \in DOMAIN exec : ExecStep(r)
  \/ \E s \in Server : UnlockerStep(s)
  \/ Environment

Spec == Init /\ [][Next]_vars

-----------------------------------------------------------------------------
(* Fairness: what the runtime and the retry loops of the code provide.  The  *)
(* steps of a task follow one another, the unlocker loops every second, time *)
(* passes.  Clients owe nothing, and no fault has to happen.                 *)

TaskProgress(r) ==
  /\ r \in DOMAIN exec
  /\ \/ ReadTotalBalance(r)
     \/ FailExecution(r)
     \/ \E usage \in Usage : ExecuteTransaction(r, usage)
     \/ QueryLatest(r)
     \/ ReleaseCoins(r)

UnlockerProgress(s) == UnlockerExpire(s) \/ UnlockerQuery(s) \/ UnlockerRelease(s)

Fairness ==
  /\ \A r \in 1..MaxReservations : WF_vars(TaskProgress(r))
  /\ \A s \in Server : WF_vars(UnlockerProgress(s))
  /\ WF_vars(PassTime)

FairSpec == Spec /\ Fairness

\* With crashes: some stopped server is started again, and servers do not go on
\* forever dying before the first call of expire_coins, which the unlocker makes
\* as soon as it is spawned.
RecoverySpec ==
  /\ Spec
  /\ WF_vars(\E s \in Server : Restart(s))
  /\ \A s \in Server : WF_vars(UnlockerQuery(s) \/ UnlockerRelease(s))
  /\ SF_vars(\E s \in Server : UnlockerExpire(s))
  /\ WF_vars(PassTime)

-----------------------------------------------------------------------------
(* Properties *)

TypeOK ==
  /\ StorageTypeOK
  /\ chain \in [ObjectID -> GasCoin \cup {Nil}]
  /\ fullnode \in [ObjectID -> GasCoin \cup {Nil}]
  /\ DOMAIN granted \subseteq 1..nextReservationId
  /\ granted \in [DOMAIN granted -> Seq(ObjectRef)]
  /\ DOMAIN exec \subseteq 1..nextReservationId
  /\ exec \in [DOMAIN exec -> ExecTask]
  /\ unlocker \in [Server -> UnlockTask]
  /\ network \subseteq [reservation : 1..nextReservationId, payment : Seq(ObjectRef)]

\* A coin has at most one holder among the queue, the reservations, the
\* execution tasks and the unlockers of all servers: nobody returns or spends a
\* coin that is somebody else's (the Storage trait's first guarantee, kept by
\* the code around the storage).
OneHolder ==
  /\ NoCoinInTwoPlaces
  /\ HeldByTasks \cap InRedis = {}
  /\ \A r, q \in DOMAIN exec : HeldByExec(r) \cap HeldByExec(q) # {} => r = q
  /\ \A s, t \in Server : HeldByUnlocker(s) \cap HeldByUnlocker(t) # {} => s = t
  /\ \A r \in DOMAIN exec, s \in Server : HeldByExec(r) \cap HeldByUnlocker(s) = {}

\* No live coin is forgotten: ready_for_execution and expire_coins take coins
\* out of the pool's automatic release, and release_gas_coins brings back every
\* one that still exists.
NoCoinStranded == Stranded = {}

\* What the queue records of a coin, version and balance, is what the chain
\* has, although the balance was derived and not read.
PoolMatchesChain ==
  \A i \in 1..Len(available) : chain[available[i].id] = available[i]

\* Two transactions that may still land never spend the same version of a gas
\* coin, which is why object locks leave gas coins out.
InFlight == {Sent(r) : r \in {q \in DOMAIN exec : exec[q].stage = "funded"}} \cup network

GasNeverEquivocates ==
  \A tx, other \in InFlight :
    Range(tx.payment) \cap Range(other.payment) # {} => tx = other

\* A reservation ends once and for one reason: an execution task takes it, or it
\* is due and an unlocker takes its coins.
ReservationEndsOnce ==
  [][\A r \in DOMAIN reservation \ DOMAIN reservation' :
       \/ r \in DOMAIN exec' \ DOMAIN exec
       \/ /\ expirationQueue[r] = 0
          /\ \E s \in Server : /\ unlocker[s].stage = "idle"
                             /\ reservation[r] \subseteq unlocker'[s].ids]_vars

\* The pool loses a live coin only when a server dies, and then only one that
\* server had taken: what is in Redis survives.
LostOnlyByCrash ==
  [][\A c \in Stranded' \ Stranded :
       \E s \in connected \ connected' :
         \/ c \in HeldByUnlocker(s)
         \/ \E r \in ExecsOf(s) : c \in HeldByExec(r)]_vars

\* A coin that left the queue comes back or is smashed into one that does: a
\* client that never executes does not keep it.
CoinsReturn ==
  \A c \in ObjectID : c \notin Ids(available) ~> c \in Ids(available) \/ chain[c] = Nil

\* A reservation whose client forgets it, or whose server died after granting
\* it, is ended by the unlocker of any server.
ReservationsEnd ==
  \A r \in 1..MaxReservations : r \in DOMAIN reservation ~> r \notin DOMAIN reservation

-----------------------------------------------------------------------------
(* The pool implements CoinCustody.  A coin with several holders has no place *)
(* there, so the mapping hides no duplicate.                                  *)

Place(c) ==
  LET holders ==
        {[at |-> "pool", by |-> i] : i \in {j \in 1..Len(available) : available[j].id = c}}
        \cup {[at |-> "lent", by |-> r] : r \in {q \in DOMAIN reservation : c \in reservation[q]}}
        \cup {[at |-> "taken", by |-> r] : r \in {q \in DOMAIN exec : c \in HeldByExec(q)}}
        \cup {[at |-> "taken", by |-> s] : s \in {t \in Server : c \in HeldByUnlocker(t)}}
  IN  IF holders = {} THEN [at |-> "gone", by |-> Nil]
      ELSE IF Cardinality(holders) > 1 THEN [at |-> "several holders", by |-> Nil]
      ELSE LET holder == CHOOSE h \in holders : TRUE
           IN  IF holder.at = "pool" THEN [at |-> "pool", by |-> Nil] ELSE holder

Custody == INSTANCE CoinCustody WITH
  Coin <- ObjectID,
  Borrower <- 1..MaxReservations,
  Taker <- (1..MaxReservations) \cup Server,
  place <- [c \in ObjectID |-> Place(c)],
  borrowers <- 1..nextReservationId

ImplementsCustody == Custody!Spec
=============================================================================
