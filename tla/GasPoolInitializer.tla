------------------------- MODULE GasPoolInitializer -------------------------
(***************************************************************************)
(* The gas pool from an empty Redis on: every server runs an initializer,  *)
(* one Init round before it serves when the pool has never been            *)
(* initialised, and Refresh rounds ever after.  A round takes the init     *)
(* lock, lists the sponsor's large coins, splits them by transactions and  *)
(* adds what results to the pool, while other servers already serve.       *)
(***************************************************************************)
EXTENDS GasPool

CONSTANTS
  Genesis,         \* the sponsor's first coins: object ids -> balances
  Deposit,         \* coins the sponsor receives later, likewise
  TargetBalance,   \* target_init_coin_balance
  GasPerObject,    \* gas cost of a split, per resulting coin
  MaxSplit,        \* 2000: coins resulting from one split
  NewCoinFactor,   \* NEW_COIN_BALANCE_FACTOR_THRESHOLD, 200
  ChunkSize,       \* 5000: coins per add_new_coins
  InitDuration,    \* MAX_INIT_DURATION_SEC, in ticks
  RoundFaults      \* what may go wrong in rounds

RoundFaultKinds ==
  {"stale_check",   \* the lock becomes free between a server's check and its request
   "slow_round",    \* a round may outlive its lock
   "unseen_split",  \* a split lands, but all attempts to submit it fail
   "redis_error"}   \* a storage call of a round returns an error

ASSUME InitializerAssumption ==
  /\ DOMAIN Genesis \subseteq ObjectID /\ \A c \in DOMAIN Genesis : Genesis[c] \in Nat
  /\ DOMAIN Deposit \subseteq ObjectID \ DOMAIN Genesis
  /\ \A c \in DOMAIN Deposit : Deposit[c] \in Nat
  /\ TargetBalance \in Nat \ {0} /\ GasPerObject \in Nat \ {0}
  /\ MaxSplit \in Nat \ {0, 1} /\ NewCoinFactor \in Nat
  /\ ChunkSize \in Nat \ {0} /\ InitDuration \in Nat
  /\ RoundFaults \subseteq RoundFaultKinds

VARIABLES
  initLock,  \* <sponsor>:init_lock, as ticks until the timestamp is in the past
  round,     \* what the initializer of every server does
  minted     \* object ids that exist or existed on chain

initializerVars == <<vars, initLock, round, minted>>
poolUnchanged   == UNCHANGED vars

\* A split task keeps the count it began with, whatever becomes of its coin.
SplitTask == [coin : GasCoin, count : Nat]

RoundState ==
  [mode : {"init", "refresh"},
   stage : {"start", "acquire", "list", "split", "sleep", "dead"},
   tasks : SUBSET SplitTask,
   result : SUBSET GasCoin]

Asleep(mode, stage) == [mode |-> mode, stage |-> stage, tasks |-> {}, result |-> {}]

\* start returns before GasPoolContainer::new: only then the server serves.
Serving == {s \in connected : round[s].mode = "refresh"}

InRound == {s \in Server : round[s].stage \in {"list", "split"}}

\* Some server has seen an uninitialised pool and not asked for the lock yet.
CheckPending == \E s \in Server : round[s] = Asleep("init", "acquire")

HeldByRound(s) ==
  {task.coin.id : task \in round[s].tasks} \cup {coin.id : coin \in round[s].result}

SetRound(s, state) == round' = [round EXCEPT ![s] = state]

-----------------------------------------------------------------------------
(* The arithmetic of a split *)

CostPerObject == 2 * GasPerObject  \* calibrate_gas_cost_per_object

TooSmall(coin) == coin.balance <= (CostPerObject + TargetBalance) * 2

SplitCount(coin) == Min({MaxSplit, coin.balance \div (CostPerObject + TargetBalance)})

GasBudget(count) == CostPerObject * count

NewTask(coin) == [coin |-> coin, count |-> SplitCount(coin)]

\* enqueue_task: coins worth splitting become tasks, the others are done.
Enqueue(state, coins) ==
  LET small == {coin \in coins : TooSmall(coin)}
  IN  [state EXCEPT !.tasks = @ \cup {NewTask(coin) : coin \in coins \ small},
                    !.result = @ \cup small]

\* The balances split_one_gas_coin derives from the coin, its effects and the
\* gas used, for the created coins and for the one that was split.
DerivedBalance_KeepsGas(task, isGasCoin) ==
  LET part == (task.coin.balance - GasBudget(task.count)) \div task.count
  IN  IF isGasCoin THEN task.coin.balance - part * (task.count - 1) ELSE part
DerivedBalance(task, isGasCoin) ==
  LET part == (task.coin.balance - GasBudget(task.count)) \div task.count
  IN  IF isGasCoin
        THEN (task.coin.balance - part * (task.count - 1)) - GasPerObject * task.count
      ELSE part

-----------------------------------------------------------------------------
(* Splits on chain.  The budget is set aside, the rest is divided by count,  *)
(* and the unused budget comes back to the coin.                             *)

SplitLands(task, created) ==
  LET coin == chain[task.coin.id]
      part == (coin.balance - GasBudget(task.count)) \div task.count
  IN  /\ coin # Nil /\ coin.version = task.coin.version
      /\ coin.balance >= GasBudget(task.count)
      /\ chain' = [c \in ObjectID |->
           IF c = coin.id
             THEN [coin EXCEPT !.version = @ + 1,
                               !.balance = @ - part * (task.count - 1) - GasPerObject * task.count]
           ELSE IF c \in created
             THEN [id |-> c, version |-> coin.version + 1, balance |-> part]
           ELSE chain[c]]
      /\ fullnode' = chain'
      /\ minted' = minted \cup created
      /\ UNCHANGED <<storageVars, taskVars, network>>

\* The ids a split creates: any ids, as long as they are new.
Unused == ObjectID \ (minted \cup DOMAIN Deposit)

FreshIds(count) == CHOOSE created \in SUBSET Unused : Cardinality(created) = count - 1

HasFreshIds(count) == Cardinality(Unused) >= count - 1

-----------------------------------------------------------------------------
(* A round *)

\* GasPoolInitializer::start asks whether the pool was ever initialised.
CheckInitialized(s) ==
  /\ s \in connected
  /\ round[s].stage = "start"
  /\ SetRound(s, IF initialized THEN Asleep("refresh", "sleep") ELSE Asleep("init", "acquire"))
  /\ poolUnchanged /\ UNCHANGED <<initLock, minted>>

WakeUp(s) ==
  /\ round[s].stage = "sleep"
  /\ SetRound(s, Asleep("refresh", "acquire"))
  /\ poolUnchanged /\ UNCHANGED <<initLock, minted>>

\* acquire_init_lock.lua; a refused server skips the round.
AcquireInitLock_NotExclusive(s) ==
  /\ round[s].stage = "acquire"
  /\ initLock' = InitDuration
  /\ SetRound(s, [round[s] EXCEPT !.stage = "list"])
  /\ poolUnchanged /\ UNCHANGED minted

AcquireInitLock(s) ==
  /\ round[s].stage = "acquire"
  /\ IF initLock < 0
       THEN /\ initLock' = InitDuration
            /\ SetRound(s, [round[s] EXCEPT !.stage = "list"])
       ELSE /\ SetRound(s, Asleep("refresh", "sleep"))
            /\ UNCHANGED initLock
  /\ poolUnchanged /\ UNCHANGED minted

BalanceThreshold_AllCoins(mode) == 0
BalanceThreshold_Above(mode) ==
  IF mode = "init" THEN 0 ELSE TargetBalance * NewCoinFactor + 1
BalanceThreshold(mode) == IF mode = "init" THEN 0 ELSE TargetBalance * NewCoinFactor

\* get_all_owned_sui_coins_above_balance_threshold, and a task for every coin that
\* is worth it.  With no coin the round is over.
ListCoins(s) ==
  /\ round[s].stage = "list"
  /\ LET coins == {fullnode[c] : c \in {d \in ObjectID :
                     fullnode[d] # Nil /\ fullnode[d].balance >= BalanceThreshold(round[s].mode)}}
     IN  SetRound(s, Enqueue([round[s] EXCEPT !.stage = "split"], coins))
  /\ poolUnchanged /\ UNCHANGED <<initLock, minted>>

\* split_one_gas_coin when its transaction succeeds.
SplitCoin(s, task) ==
  LET created == FreshIds(task.count)
      coin    == task.coin
      Derived(c) == [id |-> c, version |-> coin.version + 1,
                     balance |-> DerivedBalance(task, c = coin.id)]
  IN  /\ HasFreshIds(task.count)
      /\ SplitLands(task, created)
      /\ SetRound(s, Enqueue([round[s] EXCEPT !.tasks = @ \ {task}],
                             {Derived(c) : c \in created \cup {coin.id}}))
      /\ UNCHANGED initLock

\* The transaction lands, but the task sees an error.
SplitUnseen(s, task) ==
  /\ "unseen_split" \in RoundFaults
  /\ HasFreshIds(task.count)
  /\ SplitLands(task, FreshIds(task.count))
  /\ UNCHANGED <<initLock, round>>

\* After an error the task looks its coin up and tries again, with the count and
\* the budget it began with; when the coin is gone it panics, and the round with it.
LookUpAgain(s, task) ==
  LET latest == fullnode[task.coin.id]
  IN  /\ latest # task.coin
      /\ SetRound(s,
           IF latest = Nil THEN Asleep(round[s].mode, "dead")
           ELSE [round[s] EXCEPT !.tasks = (@ \ {task}) \cup {[task EXCEPT !.coin = latest]}])
      /\ poolUnchanged /\ UNCHANGED <<initLock, minted>>

\* All splits are done and the result is added in chunks.
Chunks(s) ==
  {chunk \in SUBSET round[s].result :
     chunk # {} /\ Cardinality(chunk) = Min({ChunkSize, Cardinality(round[s].result)})}

AddChunk_FullOnesOnly(s) ==
  /\ round[s].stage = "split" /\ round[s].tasks = {}
  /\ \E chunk \in SUBSET round[s].result :
       /\ Cardinality(chunk) = ChunkSize
       /\ \E coins \in SetToSeqs(chunk) : AddNewCoins(coins)
       /\ SetRound(s, [round[s] EXCEPT !.result = @ \ chunk])
  /\ UNCHANGED <<envVars, taskVars, initLock, minted>>

AddChunk_FirstOnly(s) ==
  /\ round[s].stage = "split" /\ round[s].tasks = {}
  /\ \E chunk \in Chunks(s) :
       /\ \E coins \in SetToSeqs(chunk) : AddNewCoins(coins)
       /\ SetRound(s, [round[s] EXCEPT !.result = {}])
  /\ UNCHANGED <<envVars, taskVars, initLock, minted>>

AddChunk(s) ==
  /\ round[s].stage = "split" /\ round[s].tasks = {}
  /\ \E chunk \in Chunks(s) :
       /\ \E coins \in SetToSeqs(chunk) : AddNewCoins(coins)
       /\ SetRound(s, [round[s] EXCEPT !.result = @ \ chunk])
  /\ UNCHANGED <<envVars, taskVars, initLock, minted>>

\* release_init_lock.lua asks nobody whose lock it is.
ReleaseInitLock(s) ==
  /\ round[s].stage = "split" /\ round[s].tasks = {} /\ round[s].result = {}
  /\ "stale_check" \in RoundFaults \/ ~CheckPending
  /\ initLock' = -1
  /\ SetRound(s, Asleep("refresh", "sleep"))
  /\ poolUnchanged /\ UNCHANGED minted

\* acquire_init_lock, add_new_coins or release_init_lock returns an error, before or
\* after its script ran.  The error is unwrapped: the initializer of this server ends
\* for good, while the server, past its Init round, goes on serving.
RedisError(s) ==
  /\ "redis_error" \in RoundFaults
  /\ round[s].stage = "acquire" \/ (round[s].stage = "split" /\ round[s].tasks = {})
  /\ SetRound(s, Asleep(round[s].mode, "dead"))
  /\ \/ poolUnchanged /\ UNCHANGED initLock
     \/ /\ round[s].stage = "acquire" /\ initLock < 0
        /\ initLock' = InitDuration
        /\ poolUnchanged
     \/ /\ round[s].stage = "split"
        /\ \E chunk \in Chunks(s) : \E coins \in SetToSeqs(chunk) : AddNewCoins(coins)
        /\ UNCHANGED <<envVars, taskVars, initLock>>
     \/ /\ round[s].stage = "split" /\ round[s].result = {}
        /\ "stale_check" \in RoundFaults \/ ~CheckPending
        /\ initLock' = -1
        /\ poolUnchanged
  /\ UNCHANGED minted

RoundStep(s) ==
  \/ CheckInitialized(s) \/ WakeUp(s) \/ AcquireInitLock(s) \/ ListCoins(s)
  \/ \E task \in round[s].tasks :
       SplitCoin(s, task) \/ SplitUnseen(s, task) \/ LookUpAgain(s, task)
  \/ AddChunk(s) \/ ReleaseInitLock(s) \/ RedisError(s)

-----------------------------------------------------------------------------
(* Servers, clients and the chain around the rounds *)

StartServer(s) ==
  /\ Restart(s)
  /\ SetRound(s, Asleep("init", "start"))
  /\ UNCHANGED <<initLock, minted>>

CrashServer(s) ==
  /\ Crash(s)
  /\ SetRound(s, Asleep("init", "start"))
  /\ UNCHANGED <<initLock, minted>>

\* The sponsor receives a coin, one that Refresh is there to find.
ReceiveDeposit(c) ==
  /\ c \notin minted
  /\ chain' = [chain EXCEPT ![c] = [id |-> c, version |-> 1, balance |-> Deposit[c]]]
  /\ fullnode' = chain'
  /\ minted' = minted \cup {c}
  /\ UNCHANGED <<storageVars, taskVars, network, initLock, round>>

InitTick ==
  /\ initLock >= 0 \/ \E r \in DOMAIN expirationQueue : expirationQueue[r] > 0
  /\ initLock = 0 => /\ "slow_round" \in RoundFaults \/ InRound = {}
                     /\ "stale_check" \in RoundFaults \/ ~CheckPending
  /\ initLock' = IF initLock >= 0 THEN initLock - 1 ELSE initLock
  /\ IF \E r \in DOMAIN expirationQueue : expirationQueue[r] > 0 THEN Tick ELSE UNCHANGED storageVars
  /\ UNCHANGED <<envVars, taskVars, round, minted>>

\* The pool as it runs on servers that serve, and what becomes of transactions that
\* nobody waits for.
PoolStep ==
  /\ \/ /\ Serving # {}
        /\ \E budget \in Budget, duration \in Duration : ReserveGas(budget, duration)
     \/ \E s \in Serving :
          \/ \E r \in DOMAIN reservation : \E payment \in Payments(r) : StartExecution(s, r, payment)
          \/ UnlockerStep(s)
     \/ \E r \in DOMAIN exec : ExecStep(r)
     \/ \E tx \in network : (\E usage \in Usage : LandLate(tx, usage)) \/ DropLate(tx)
  /\ UNCHANGED <<initLock, round, minted>>

InitializerInit ==
  /\ StorageInit
  /\ chain = [c \in ObjectID |->
                IF c \in DOMAIN Genesis THEN [id |-> c, version |-> 1, balance |-> Genesis[c]]
                ELSE Nil]
  /\ fullnode = chain
  /\ granted = <<>> /\ exec = <<>> /\ network = {}
  /\ unlocker = [s \in Server |-> Idle]
  /\ initLock = -1
  /\ round = [s \in Server |-> Asleep("init", "start")]
  /\ minted = DOMAIN Genesis

InitializerNext ==
  \/ \E s \in Server : RoundStep(s) \/ StartServer(s) \/ CrashServer(s)
  \/ \E c \in DOMAIN Deposit : ReceiveDeposit(c)
  \/ InitTick
  \/ PoolStep

InitializerSpec == InitializerInit /\ [][InitializerNext]_initializerVars

-----------------------------------------------------------------------------
(* Fairness: the steps of a round follow one another, the refresh loop wakes  *)
(* up, time passes and some server is running.  A split that is not rejected  *)
(* for ever lands.                                                            *)

RoundProgress(s) ==
  \/ CheckInitialized(s) \/ WakeUp(s) \/ AcquireInitLock(s) \/ ListCoins(s)
  \/ \E task \in round[s].tasks : SplitCoin(s, task) \/ LookUpAgain(s, task)
  \/ AddChunk(s) \/ ReleaseInitLock(s)

FairInitializerSpec ==
  /\ InitializerSpec
  /\ \A s \in Server : WF_initializerVars(RoundProgress(s))
  /\ WF_initializerVars(\E s \in Server : StartServer(s))
  /\ WF_initializerVars(InitTick)

-----------------------------------------------------------------------------
(* Properties *)

\* "It acquires a lock from the store to ensure that no other initialization task
\* is running at the same time": of all servers, one at most lists, splits or adds.
OneRoundAtATime == \A s, t \in InRound : s = t

\* "Once the lock is acquired, until it expires, no other caller can acquire the
\* lock": while a round goes on, only time makes it free.
LockKeptUntilExpiry ==
  [][initLock > 0 /\ initLock' < 0 => InRound' = {}]_initializerVars

\* A coin is in one place, the rounds included: what a round lists, splits and
\* adds is not in the pool, nor in the hands of a client, task or other round.
OneHolderWithRounds ==
  /\ OneHolder
  /\ \A s, t \in Server : HeldByRound(s) \cap HeldByRound(t) # {} => s = t
  /\ \A s \in Server : HeldByRound(s) \cap (InRedis \cup HeldByTasks) = {}

\* "It looks at all the SUI coins currently owned by the sponsor address": once the
\* pool counts as initialised, every coin too small for a Refresh to find it is in
\* the pool or in somebody's hands.
NothingForgotten ==
  initialized =>
    \A c \in Live :
      \/ chain[c].balance >= BalanceThreshold("refresh")
      \/ c \in InRedis \cup HeldByTasks \cup UNION {HeldByRound(s) : s \in Server}

\* No coin that a round has in hands, and may be splitting, pays for a transaction that may
\* still land, nor do two such transactions share one: not even those that dead servers
\* left behind meet a round that lists, splits or adds.
RoundsPayApart ==
  /\ GasNeverEquivocates
  /\ \A tx \in InFlight : \A s \in Server : Ids(tx.payment) \cap HeldByRound(s) = {}

\* A Refresh takes every coin from BalanceThreshold on for new funding: this is right as
\* long as no coin of the pool is as large.
PoolCoinsStaySmall ==
  \A c \in InRedis \cup HeldByTasks :
    fullnode[c] # Nil => fullnode[c].balance < BalanceThreshold("refresh")

\* A server that starts gets to serve, or dies before it does, whether it initialises the
\* pool, finds it initialised or is refused the lock of a round, be that one dead or not.
ServersStart == \A s \in Server : s \in connected ~> s \in Serving \/ s \notin connected

\* "This allows us add funding to the gas pool": a large coin the sponsor receives
\* is split and in the end belongs to the pool, or has already been smashed in it.
FundsArePooled ==
  \A c \in DOMAIN Deposit :
    c \in minted ~> c \in InRedis \cup HeldByTasks \/ chain[c] = Nil

\* "Initializing the gas pool will take at most 12 hours": a round comes to an end.
RoundsEnd == \A s \in Server : s \in InRound ~> s \notin InRound
=============================================================================
