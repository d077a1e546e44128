# A TLA+ model of the Sui gas pool

The gas station sponsors Sui transactions. Its servers keep the sponsor's gas
coins in one Redis instance, lend them to clients for a limited time, sign and
submit the sponsored transactions, and put the coins back. This directory holds
TLA+ modules of that program, the configurations that model-check them with TLC,
and theorems with proofs for the TLA+ proof system. `PROJECT.json` relates every
definition to the lines it models.

Run from this directory: `tlc -config GasPoolServer.cfg MCGasPoolServer`,
`tlapm GasStorageProofs.tla`.

## 1. The system

| Component | State | Operations | Talks to |
|---|---|---|---|
| **Redis storage** (`storage/redis`, nine Lua scripts) | per sponsor: the list of available coins, a count and a total balance beside it, a key per reservation, a sorted set of expiration times, a reservation counter, `initialized`, the init lock | `reserve_gas_coins`, `ready_for_execution`, `add_new_coins`, `expire_coins`, `init_coin_stats_at_startup`, `acquire_init_lock`, `release_init_lock`, `get_is_initialized` | every server and initializer; a script is atomic |
| **Gas pool core** (`gas_pool/gas_pool_core.rs`) | none shared: a task per request, one unlocker loop per server | `reserve_gas`, `execute_transaction`, `release_gas_coins`, the coin unlocker | storage, Sui client, signer, object locks, usage cap |
| **Pool initializer** (`gas_pool_initializer.rs`) | splitting queue and result shared by worker tasks | one Init or Refresh round: lock, list coins, split, add in chunks, unlock | storage, Sui client, signer |
| **Object locks** (`object_locks.rs`) | in memory: the set of locked objects, an ownership cache | `try_acquire_locks`, `release_locks`, `update_cache_post_execution` | Sui client for unknown owners |
| **Usage cap** (`gas_pool/gas_usage_cap.rs`) | in memory: the usage of the day and the date | `check_usage`, `update_usage` | the clock |
| **RPC server and client** (`rpc`) | the requests that are open | `reserve_gas`, `execute_tx`, health checks; every request that passes the first checks runs in a spawned task | gas pool core |
| **Sui client** (`sui_client.rs`) | none | latest object versions, balances, submission with a first attempt and three more | fullnode |
| **Signer** (`tx_signer.rs`, `aws_kms_sidecar`) | a key | sign | KMS |
| **Configuration, metrics, benchmarks, tool** | parameters and counters | | |

How a coin travels. `reserve_gas` checks the request and the daily cap and calls
the script `reserve_gas_coins`, which pops coins from the front of the list until
they cover the budget, at most 256 of them, records them under a new reservation
id and schedules the id's expiration. The client builds its transaction with the
coins and sends it with the id. `execute_transaction` calls `ready_for_execution`,
which deletes the reservation's key: from here only this task can bring the coins
back. It reads the total balance of the payment, takes the object locks, signs,
submits, and derives from the effects the coin into which the payment was smashed;
if anything failed it asks the fullnode which of the coins still exist. Either way
`release_gas_coins` calls `add_new_coins` until a reply arrives. In every server
an unlocker wakes every second, calls `expire_coins`, which deletes the keys of
due reservations and returns their coins, asks the fullnode for their latest
versions, and adds them to the list.

What is hard here:

* Tasks and unlockers of all servers interleave at each `await`; only Redis
  scripts are atomic. A reservation can be executed and expire at once, and two
  unlockers can look at the same queue.
* A server may die between taking coins and returning them; nothing but the
  reservation keys survives.
* Replies get lost. Calls that take coins turn a lost reply into an error or an
  empty list; the call that adds coins is repeated until a reply arrives.
* A submission whose attempts all failed may still land.
* A client may drop its connection while a request runs, and ask again at another
  server; the request it dropped goes on.
* The fullnode may answer from an older state than the one the last effects
  showed; the code derives balances to avoid reading them.
* Redundant state: count and total balance are kept beside the list by reads and
  writes of their own.
* An initializer of another process can run at the same time, guarded by a lock
  that expires; day changes race with usage counting; the object locks release
  the table while they query owners.

What makes each part correct:

* storage: a coin is at most once in the queue, in at most one reservation, never
  in both; count and total agree with the list; what can be reserved can expire;
  first in, first out; no script loses or invents coins.
* core: no coin has two holders among queue, reservations, tasks and unlockers of
  all servers; no path of a task forgets its coins; the queue agrees with the
  chain; no two live transactions spend the same version of a gas coin; every
  reservation ends.
* transaction: outside faucet mode a sponsored transaction does nothing with the
  sponsor's coin but pay gas; a refused one costs the client no reservation; once
  the reply of `ready_for_execution` is there, locks and coins are given back
  whichever calls fail later (if that reply itself is lost, the coins are with
  nobody); the request is answered if the services it calls answer again.
* RPC: what a client is told is true, nobody waits for a task that is gone, and
  asking again executes nothing twice.
* initializer: at most one round at a time; a coin is added once and none is
  forgotten; every server gets to serve and new funding reaches the pool.
* object locks: no object is in two executing transactions; a guard frees its own
  objects and no others; the cache is right about the versions it names.
* usage cap: a counter passes the cap by no more than what is in flight; today is
  not charged for another day; and as a day may get more than one counter, by late
  resets and restarts, how many it can get and what it can use with them is bounded.

The hazards, each at its line, are listed in `PROJECT.json`.

## 2. The modules

`GasStorage` is the storage component: one variable per kind of key, one operator
per script. The scripts are plain operators over the keys so that `GasPool` uses
them inside its own actions. `StorageSpec` closes the component: servers connect
(`ConnectStorage`, which runs `init_coin_stats_at_startup`), stop, and call the
scripts in any order, adding only coins Redis does not hold.

| Code | `GasStorage` |
|---|---|
| `reserve_gas_coins.lua`, success / not enough balance | `ReserveGasCoins` / `RejectReservation`; `PopsFor` is its loop, `PushedBack` its restore |
| `ready_for_execution.lua` | `ReadyForExecution`; without the key it is disabled (the script raises an error) |
| `expire_coins.lua` | `ExpireCoins`, `ExpiredIds` |
| `add_new_coins.lua` | `AddNewCoins`, `AddToStats` |
| `connect_storage`, `init_coin_stats_at_startup.lua` | `ConnectStorage` |
| the clock against which scores are compared | `Tick` |

`GasPool` extends it with the servers and their environment. An execution task is
a record in `exec` whose `stage` says at which `await` it is: `ready` (key
deleted), `funded` (total balance known), `failed` (coins to be looked up),
`release` (coins known). An unlocker is `idle`, in `query` or in `release`.

| Code | `GasPool` |
|---|---|
| `reserve_gas` handler, `check_validity` | `ReserveGas`, `CheckValidity` |
| `execute_transaction` up to `ready_for_execution` | `StartExecution`, `StartReplyLost` |
| `get_total_gas_coin_balance` before execution | `ReadTotalBalance` |
| locks, signing, submission: landed / refused / unknown | `ExecuteTransaction` / `FailExecution` / `SubmitTimeout` |
| `get_coins_after_tx`, look-up after a failure | `CoinsAfterTx`, `QueryLatest` |
| `release_gas_coins` under `retry_forever!` | `ReleaseCoins`, `ReleaseReplyLost` |
| `start_coin_unlocker` | `UnlockerExpire`, `UnlockerQuery`, `UnlockerRelease`, `ExpireReplyLost`, `UnlockerReplyLost` |
| chain, fullnode, network (external) | `Land`, `LandLate`, `DropLate`, `FullnodeCatchUp` |
| process life | `Crash`, `Restart`, `PassTime` |

`Faults` names what may go wrong besides failed transactions: `crash`, `timeout`,
`fullnode_lag`, `lost_take_reply`, `lost_add_reply`, `incomplete_payment`,
`mixed_payment`. Each run chooses a set, so that a property that needs the absence
of a fault says so.

`CoinCustody` is the abstract specification: each coin is at one place, in the
pool, lent to a borrower served once, taken by a task, or gone. `GasPool` maps
its state to it in `Place`: a coin with two holders has no abstract place, so a
duplicated coin cannot hide behind the mapping.

`GasPoolInitializer` extends `GasPool` with the rounds of every server's
initializer and starts from an empty Redis: servers initialise, refresh and serve
at the same time, over one chain. A round is a record whose `stage` says at which
`await` it is (`start`, `acquire`, `list`, `split`, `sleep`), with the coins being
split in `tasks` and those that are done in `result`.

| Code | `GasPoolInitializer` |
|---|---|
| `GasPoolInitializer::start`, `get_is_initialized.lua` | `CheckInitialized`; a server is in `Serving` when `start` has returned |
| `run`, the sleep of the refresh loop | `WakeUp` |
| `acquire_init_lock.lua`, `release_init_lock.lua` | `AcquireInitLock`, `ReleaseInitLock` |
| `get_all_owned_sui_coins_above_balance_threshold`, threshold | `ListCoins`, `BalanceThreshold` |
| `enqueue_task`, `split_one_gas_coin` and its arithmetic | `Enqueue`, `SplitCoin`; `TooSmall`, `SplitCount`, `GasBudget`, `DerivedBalance` |
| the retry after an error | `SplitUnseen` (the transaction landed), `LookUpAgain` |
| `result.chunks(5000)` and `add_new_coins` | `AddChunk` |
| the pool on servers that serve, and late transactions of dead ones | `PoolStep` |
| chain, clock, process life (external) | `SplitLands`, `ReceiveDeposit`, `InitTick`, `StartServer`, `CrashServer` |

`RoundFaults` names what may go wrong in rounds: `stale_check` (the lock becomes
free between a server's look at `is_initialized` and its request for the lock),
`slow_round` (a round outlives its lock), `unseen_split` (a split lands although
all attempts to submit it failed), `redis_error` (a call to Redis returns an error,
before or after its script ran: the code unwraps it, so the refresh task of the
server is dead while the server serves on, `RedisError`).

`GasPoolServer` extends `GasPool` with the HTTP interface: `session` holds the open
request of each client, `known` the reservations clients were told of. A handler
and the first storage call of its task are one step, since no one sees the states
between them; from then on the task and the request go their own ways.

| Code | `GasPoolServer` |
|---|---|
| `reserve_gas` before its task / granted / refused by the pool | `RefuseReservation` / `GrantReservation` / `DenyReservation` |
| `execute_tx` before its task / task started / refused by it | `RefuseExecution` / `AcceptExecution` / `DenyExecution` |
| `execute_tx_impl`: the task of `GasPool`, and its answer | `TaskStep`, `Answers` |
| `debug_health_check`, `debug_check_health` | `DebugHealthCheck`, `CheckHealth` |
| `GasPoolRpcClient` takes the answer | `ReceiveAnswer` |
| the future of a handler is dropped with its connection | `DropConnection` |
| process death with its connections, unseen transactions (external) | `ServerCrash`, `LandUnwatched` |

`SponsoredTransaction` is one call of `execute_transaction` with what the pool's
model leaves to chance: the commands of the transaction, its sender and owner, the
signatures, and every error path. What other tasks do is left to `GasPool` and
`ObjectLocks`; here a task holds its reservation, its coins and its locks or not.

| Code | `SponsoredTransaction` |
|---|---|
| `is_valid_address`, `check_transaction_validity` | `Check`; `Accepted`, `CheckTransactionValidity`, `AllArgs` |
| `ready_for_execution`: taken / refused / the script ran, its reply is lost | `Take` / `TakeFails` / `TakeReplyLost` |
| `get_total_gas_coin_balance` | `ReadTotalBalance` |
| `try_acquire_locks` | `AcquireLocks`, `LocksRefused` |
| `sign_transaction` under `retry_with_max_attempts!` | `Sign`, `SignFails`, `Retry` |
| `SuiClient::execute_transaction`, `net_usage`, `update_usage` | `Submit`, `SubmitWithUnusableResponse`, `SubmitFails` |
| the guard of the locks is dropped on an error | `Fail` |
| `get_latest_gas_objects` after an error | `LookUp` |
| `release_gas_coins` under `retry_forever!`, result | `Release`, `ReleaseReplyLost` |
| a call without an answer: a loop of `retry_forever!` that meets errors only, a silent sidecar (external) | `FallSilent`, `ComeBack` |
| the sidecar's key is replaced; validators (external) | `ReplaceKey`; `LandUnseen`, `CanLand`, `WellTyped`, `FullySigned` |

`WellTyped` is what the check relies on: the arguments it skips (a recipient, the
amounts of a split, an upgrade ticket) are places where no coin has the right type.

`ObjectLocks` models the lock manager of one server on its own: which objects a
task asks for, what the fullnode answers and what happens to the objects on chain
are inputs of its actions, so that it covers every use `GasPool` makes of it
(there a refusal is one of the outcomes of `FailExecution`).

| Code | `ObjectLocks` |
|---|---|
| `try_acquire_locks`: first look at the table, second look and locks | `PreliminaryCheck`, `Lock` |
| `filter_owned_objects`: cache, query, answer | `Filter`, `OwnersAnswer` / `QueryFails`, `CacheAnswer` |
| `Drop for ObjectLocks` | `Drop`, part of `Abort` and `Finish` |
| `update_cache_post_execution` | `Finish` |
| chain, others' transactions, cache eviction (external) | `Execute`, `ChangeElsewhere`, `Evict` |

`ExclusiveLocks` is its abstract specification: a task gets all it asks for or
nothing, and no object is in two tasks' hands. The mapping takes for a task's
locks the objects of its guard, not the table: that the table agrees with the
guards is what makes it hold.

`GasUsageCap` models the counter of one server, lock by lock: `LookAtClock`,
`CompareDate` and `ResetDate` are `reset_date_maybe`, `CheckUsage` and
`UpdateUsage` the rest of the two calls, `Midnight` the clock, `Restart` a new
process, whose counter starts at zero. History variables, all of the present day:
`spent` is what executions really used, `spentBefore` how much of it an earlier
process counted, `resets` how often `reset_date` ran, `restarts` how many restarts
forgot usage.

The modules `MC...` instantiate these for TLC. The theorems are in modules of
their own, one per component (section 5):

| Module | Extends | Proves about |
|---|---|---|
| `SumProofs` | | sums over functions and maxima, for all of the below |
| `GasStorageProofs` | `GasStorage` | the scripts, each as a lemma for any caller |
| `GasPoolProofs` | `GasPool`, `GasStorageProofs` | the pool, and that it implements `CoinCustody` |
| `GasPoolServerProofs` | `GasPoolServer`, `GasPoolProofs` | the HTTP interface |
| `SponsoredTransactionProofs` | `SponsoredTransaction` | one execution, and what its check covers |
| `InitializerProofs` | `GasPoolInitializer`, `GasPoolProofs` | rounds and their lock, and the pool's invariant with rounds beside it |
| `ObjectLocksProofs` | `ObjectLocks` | the lock manager, and that it implements `ExclusiveLocks` |
| `GasUsageCapProofs` | `GasUsageCap` | the daily counter |

An operator named `Operator_Fault` is a faulty variant of the definition behind
it, used nowhere; replacing the definition by it shows that a property notices.

## 3. What is abstracted

* A score of the expiration queue is stored relative to now and stays at 0 once it
  is due. One clock serves all servers; skew between them is not modelled.
* The digest of an object reference is determined by id and version and left out.
* A coin's balance in Redis is a double inside Lua: sums beyond 2^53 are not
  modelled. The `u64` of the derived balance wraps at `WordModulus`.
* The fullnode catches up in one step with all that happened. It never shows a
  state older than one it has shown.
* A reservation refused by the daily cap, by `check_validity` or for lack of
  balance changes nothing that lasts and is a stuttering step of `GasPool`; the
  storage's own run checks the last case (`RejectReservation`).
* In `GasPool` the health check is a `ReserveGas` like any; `GasPoolServer` has it
  with its own budget and duration.
* An error raised after the transaction landed (an unusable `net_usage`) is covered
  by `SubmitTimeout` followed by `LandLate`.
* A payment is a sequence of references of the client's reservation unless a fault
  says otherwise; what a transaction does besides is the subject of
  `SponsoredTransaction`.
* RPC: a client has one request open at a time. Tokens, bodies and bytes are good
  or bad; the status codes of errors are one, as the client does not look at them.
  In these runs the fullnode does not lag and no reply of Redis is lost, which the
  pool's own runs cover; what they add are clients and crashes.
* `SponsoredTransaction`: arguments are the gas coin or something else; a command
  has one argument that stands alone and a set of others. While the
  call the task awaits has no answer it could go on with, `unanswered` holds: the
  fullnode or Redis fails every attempt of a `retry_forever!`, or the sidecar, whose
  HTTP client has no timeout, keeps silent. Backoff delays are left out.
* In faucet mode (`AdvancedFaucetMode`) a transaction may move SUI; its net effect
  on the sponsor is a member of `Usage` as in the other mode, and `NetUsage` is
  what the code makes of it.
* Initializer: a split that is rejected changes nothing and is a stuttering step
  (the loop tries again). A split submitted by a server that dies meanwhile has
  landed before or never does. The fullnode does not lag in these runs. The order
  of listed coins and of chunks is arbitrary. Ids of created coins are chosen by
  `CHOOSE`, since any new id is like any other. The lock is stored as ticks until
  it is free, -1 when it is.
* Object locks: an object's history is the sequence of its owners, one per
  version. Gas coins are left out, as the code leaves them out. A poisoned lock,
  which needs a panic in a critical section that has none, does not occur.
* Usage cap: the clock shows days and does not go backwards. A restart ends
  the calls in progress, not the reservations granted before it. That each server has a counter of its own is left out.

## 4. What the runs check

Pool runs use two servers, coins of balance 2, budgets 0, 1, 3 and 5 of which
`CheckValidity` admits 1 and 3, net usages -1 (a rebate) and 1, and two coins per
query at most. `pool_live` and `pool_recovery`, which check liveness without
symmetry, have two coins and two reservations; `rpc` has three coins, two
reservations and two clients. A budget of 1
takes one coin, 3 takes two. Two coins suffice for a coin to be smashed and for two tasks to hold different ones; three coins allow a
two-coin and a one-coin reservation at once. Two reservations suffice for two
tasks to meet at a coin; `GasPoolCrash.cfg`, to be run by hand, has three, for a
coin to be granted again after that. Two clients suffice for one to wait for an
execution while the other asks for the same one, and a client that drops its
request and asks again is a third. The bounds are `MaxReservations` (ids handed out), `MaxBatch` (batch length in
`StorageSpec`), `MaxQueue` (queue length up to which a repeated add is explored).

Initializer runs use two servers and five object ids. With a cost per object of 2
and a target of 1, coins above 6 are split, in two at most: a coin of 14 is split
and one of its parts again, so that tasks create tasks; 8 and 2 give a coin that is
split and one that is not; a deposit of 8 reaches the Refresh threshold. Chunks
have two coins, so that three coins need two. The lock expires after one tick.

Lock runs use two tasks: an illegal meeting is one of two tasks at an object. Two
objects are needed for a partial acquisition and for an answer whose first half is
cached; three versions for an entry, an input and what happened since to differ;
`FewVersions` keeps both objects together at `MaxTotal` = 5 versions.
`ObjectLocksLag.cfg`, to be run by hand, is the same with a fullnode that lags and
two versions, without `NoEquivocation`. Transactions have at most two commands,
so that an innocent one may stand beside one the check must find; `MaxRetries` is
the code's own 3. The usage cap run has three requests, so that two
may race while a third is counted, and three days. Three requests allow nine resets
on a day, a number that is reached; a cap of 3 and usages of 1 and 2 let one counter
take up to 8, and `MaxSpent` = 17 is just beyond two full counters.

| Run | Configuration | What it asks |
|---|---|---|
| `storage` | `GasStorage.cfg` | any calls, reconnects and passing time: the Storage trait's guarantees, `CountMatchesList`, `BalanceMatchesList`, `QueueOrder`, `CoinsConserved` |
| `rpc` | `GasPoolServer.cfg` | clients that drop connections and ask again, servers that die anywhere (240 thousand states): `OkMeansLanded`, `WaitersHaveTasks`, `NeverExecutedTwice`, `ServerTypeOK`, and under all of it `OneHolder`, `PoolMatchesChain`, `GasNeverEquivocates`, `ReservationEndsOnce`, `LostOnlyByCrash` |
| `sponsored` | `SponsoredTransaction.cfg` | any transaction, any step failing, replies lost and services silent at any call (610 thousand states): `SponsorFundsOnlyPayGas`, `SettledAtEnd`, `ExecutionEnds` |
| `pool_live` | `GasPoolLive.cfg` | late transactions, stale reads, repeated adds: `NoCoinStranded`, `CoinsReturn` |
| `pool_recovery` | `GasPoolRecovery.cfg` | crashes, restarts, lost replies of the scripts that take coins, late transactions, stale reads and payments with part of a reservation together: `TypeOK`, `GasPool` implements `CoinCustody`, `ReservationsEnd` |
| `init` | `Initializer.cfg` | two servers that initialise, refresh and serve while funding arrives: `NothingForgotten`, `ServersStart`, `FundsArePooled` |
| `init_faults` | `InitializerFaults.cfg` | crashes, splits that land unseen and errors of Redis in rounds: `OneRoundAtATime`, `OneHolderWithRounds`, `PoolMatchesChain` |
| `locks` | `ObjectLocks.cfg` | eviction, others' transactions (2 million states): `TypeOK`, `TableMatchesGuards`, `CacheSound`, `NoEquivocation`, and `ObjectLocks` implements `ExclusiveLocks`. With a fullnode that lags `NoEquivocation` does not hold, which a comment in `filter_owned_objects` accepts; the others do (`ObjectLocksLag.cfg`, and the theorems) |
| `usage_cap` | `GasUsageCap.cfg` | usages above zero, three days, restarts (2.4 million states): `OvershootBounded`, `ChargedForTodayOnly`, `CapForEachCounter`, `ResetsBounded` |

Each of these configurations names the faults it allows; what they leave out is
where the code breaks its own statements. Three such counterexamples are runs of
the project:

| Run | Configuration | Statement | What happens |
|---|---|---|---|
| `pool_add_retried` | `GasPoolAddRetried.cfg` | `CoinToOneCaller`: "It never returns the same coin to multiple callers" (`storage/mod.rs`) | the reply of `add_new_coins` is lost, the retry adds the coins again, two clients get the same coin |
| `pool_faucet_mode` | `GasPoolFaucetMode.cfg` | `PoolMatchesChain`: the derived balance is the one on chain (test assertion in `gas_pool_core.rs`) | the usage of faucet mode is an absolute value, so a gain is booked as a loss |
| `init_stale_check` | `InitializerStaleCheck.cfg` | `CoinToOneCaller` | `is_initialized` was read before another server's Init and the lock taken after it: a second Init adds the pool's coins again |

`InitializerSmallCoins.cfg`, to be run by hand and with no error, is `init_faults`
with `RoundsPayApart`, and with `PoolCoinsStaySmall`, the hypothesis of the theorems
on rounds. `InitializerCrashStart.cfg`, by hand and with no error as well, is
`ServersStart` when servers crash, with the lock held or not: every server that
stays up serves in the end. The others are configurations to be run by hand; TLC ends each of them
with the counterexample described:

| Configuration (module) | Statement | What happens |
|---|---|---|
| `GasPoolMixedPayment.cfg` (`MCGasPool`) | `CoinToOneCaller`, and the ignored test `test_mixed_up_gas_coins` | a transaction of reservation 1 pays with a coin of reservation 2; it is executed and the coin returns to the queue while reservation 2 holds it |
| `GasPoolIncompletePayment.cfg` (`MCGasPool`) | `NoCoinStranded`; ignored test: "It should fail because it's inconsistent with the reservation" | a transaction that pays with part of its reservation is executed; the rest is in no list |
| `GasPoolLostTakeReply.cfg` (`MCGasPool`) | `NoCoinStranded`: after an error "we need to release the coins" (`gas_pool_core.rs`) | `ready_for_execution` deletes the key and its reply is lost; the task returns the error before it has coins to release |
| `GasPoolSubmitTimeout.cfg` (`MCGasPool`) | `GasNeverEquivocates`: gas objects "will never equivocate" (`object_locks.rs`) | after the last failed attempt the coin is released at the old version while the transaction can still land |
| `GasPoolStaleRead.cfg` (`MCGasPool`) | `PoolMatchesChain`: "To avoid read-after-write inconsistency, we apply a trick here" (`gas_pool_core.rs`) | the total read before execution is itself stale when the fullnode lags behind the coin's previous use |
| `ObjectLocksLastSeen.cfg` (`MCObjectLocks`) | `CacheKeepsLastSeen`: "version is the last seen version of the object" (`object_locks.rs`) | a slow owner answer overwrites the newer entry written after an execution |
| `InitializerSlow.cfg` (`MCGasPoolInitializer`) | `LockKeptUntilExpiry`: "until it expires, no other caller can acquire the lock" (`storage/mod.rs`) | a round that outlived its lock frees the lock of the next round |
| `InitializerCrash.cfg` (`MCGasPoolInitializer`) | `NothingForgotten`: "looks at all the SUI coins currently owned by the sponsor address" (`README.md`) | after a crash between chunks the pool counts as initialised, and the rest is below the Refresh threshold |
| `InitializerUnseenEnd.cfg` (`MCGasPoolInitializer`) | `RoundsEnd`: initializing takes "at most 12 hours" (`gas_pool_initializer.rs`) | a split landed unseen; its retry keeps the old count and budget, which the coin can no longer pay, for ever |
| `InitializerGrownCoin.cfg` (`MCGasPoolInitializer`) | `CoinToOneCaller` | a coin of the pool grew beyond the Refresh threshold by smashing and is added a second time. A coin reaches 200 targets when one reservation smashes that much into it, or step by step when it is reserved again together with others; which of it a deployment sees depends on its budgets and its target |
| `GasUsageCapMidnight.cfg` (`MCGasUsageCap`) | `DayStaysCapped`: "The total amount of gas usage allowed per day" (`README.md`) | two calls both saw yesterday's date and the second reset wipes what was counted in between; or a restart forgets it |
| `GasUsageCapRebate.cfg` (`MCGasUsageCap`) | `ChargedForTodayOnly`, here without `NoRebates` | a late reset forgets a rebate of today, and the counter stands above what the day used |
| `SponsoredTransactionSilent.cfg` (`MCSponsoredTransaction`) | `ExecutionFinishes`: the task is spawned "so that it will finish even when client drops the connection" (`rpc/server.rs`) | a sidecar that keeps silent, or a fullnode that fails each attempt of a loop without end, holds the task, its coins and its locks for ever |

Fairness. `FairSpec` assumes weak fairness of each task's next step (tokio runs a
task whose await is over; `get_latest_gas_objects` and `release_gas_coins` retry
for ever), of each unlocker (a loop with a one second sleep), and of time. It
assumes nothing of clients and no fault. A task's fairness is over the disjunction
of its outcomes: a transaction need not succeed. `RecoverySpec` runs with crashes:
weak fairness of restarting some server, and strong fairness of `expire_coins` by
some server, because the loop calls it as soon as it is spawned; a deployment that
dies for ever before that first call ends no reservation.

`FairInitializerSpec` assumes weak fairness of each round's next step, of starting
some server and of time; under it a rejected split may be tried for ever, and one
that is not rejected lands. It assumes nothing of clients, deposits or faults.

`SponsoredTransaction` assumes weak fairness of its task's next step, which is enabled
only while the call it awaits can be answered: tokio polls a task whose future is
ready. Nothing is assumed of services: `retry_forever!` has no bound and the sidecar's
client no timeout, so `ExecutionEnds` promises an answer on the condition
`<>[]~unanswered` that they answer for good at some time. What it then shows is that
signing and submission end, whatever fails: `Retry` gives up after three attempts more
than the first. Nothing is assumed of validators or keys.

Deadlock is checked in the runs of the storage, the pool, the RPC servers, the
initializer and the usage cap: none of them can stop, since an unlocker, a refresh loop or a request
can always go round. `SponsoredTransaction` ends with its
answer. The runs of `ObjectLocks` switch deadlock checking off as well: with `MaxVersion`
versions used up there may be nothing left for a transaction to spend, and no loop
runs in the manager.

## 5. What is proved

Everything below holds for every value of the constants that satisfies the named
assumptions of the modules (`StorageAssumption`, `PoolAssumption`, ...), which only
give types, finiteness and names that differ; TLC evaluates them in each run. A
theorem that needs the absence of a fault has it as a hypothesis on `Faults` or
`RoundFaults`. Each such hypothesis is met by the runs that check the property; the
configurations of section 4 show what happens without it.

| Theorem | Property | Hypotheses |
|---|---|---|
| `StorageTypeCorrect`, `CountIsExact`, `BalanceIsExact`, `CoinGivenOnce`, `ReservationsCanExpire`, `ReservationsWithinLimits`, `QueueIsFifo`, `StorageConservesCoins` | all eight of the run `storage` | none |
| `PoolTypeCorrect`, `CoinsHaveOneHolder` | `TypeOK`, `OneHolder` | `CoinsTracked`: no lost reply of `add_new_coins`, no payment with another reservation's coin |
| `ReservationsEndOnce` | `ReservationEndsOnce` | and no lost reply of the scripts that take coins |
| `CoinsLostOnlyByCrash` | `LostOnlyByCrash` | `RepliesArrive`: crashes, unknown outcomes and a lagging fullnode are allowed |
| `NoCoinForgotten` | `NoCoinStranded` | `RepliesArrive`, and no crash |
| `GasCoinsNeverEquivocate` | `GasNeverEquivocates` | `OutcomesKnown`: `CoinsTracked`, and no unknown outcome but by a crash |
| `QueueIsTrue` | `PoolMatchesChain` | `BalancesKnown`: `OutcomesKnown`, no lag, not faucet mode; and `[]ChainBalancesFit`, that a balance on chain fits in a `u64`, which is what Sui promises |
| `PoolImplementsCustody` | `ImplementsCustody` | `CoinsTracked`, and `NamesApart` (a server's name is no reservation id) |
| `ServerTypeCorrect`, `AnswersAreTrue`, `NobodyWaitsForNothing`, `ExecutedOnce` | `ServerTypeOK`, `OkMeansLanded`, `WaitersHaveTasks`, `NeverExecutedTwice` | `CoinsTracked` |
| `ServedCoinsHaveOneHolder`, `ServedReservationsEndOnce`, `ServedCoinsLostOnlyByCrash`, `ServedGasNeverEquivocates`, `ServedQueueIsTrue` | the pool's properties under `ServerSpec` | as for the pool |
| `SponsorsCoinIsSafe`, `AnswersAreSettled` | `SponsorFundsOnlyPayGas`, `SettledAtEnd` | none (the first speaks of a pool outside faucet mode) |
| `RoundsExclude`, `LockIsKept` | `OneRoundAtATime`, `LockKeptUntilExpiry` | `RoundsInTime`: no round outlives its lock |
| `InitializerInvariant`, `OneHolderEvenInRounds` | `InitializerInv`, `OneHolderWithRounds` | `CoinsTracked`, `RoundsInTime`, `ChecksAreFresh` (no lock becomes free between a look at `is_initialized` and the request for the lock), and `[]PoolCoinsStaySmall` |
| `NoSmallCoinForgotten` | `NothingForgotten` | `RoundsComplete` (no fault but an unknown outcome, and deposits that reach the Refresh threshold: a smaller one is never looked for), and `[]PoolCoinsStaySmall` |
| `RoundsNeverEquivocate` | `GasNeverEquivocates` with rounds (`RoundsPayApart`) | `AnswersCurrent` (`OutcomesKnown` and no lag), `RoundsInTime`, `ChecksAreFresh`, `[]PoolCoinsStaySmall` |
| `QueueIsTrueEvenInRounds` | `PoolMatchesChain` under `InitializerSpec` | `BalancesKnown`, `RoundsInTime`, `ChecksAreFresh`, `[]PoolCoinsStaySmall`, `[]ChainBalancesFit` |
| `TypeCorrect`, `TableIsTheGuards`, `CacheIsSound`, `ManagerImplementsLocks` | the lock manager's, with a fullnode that may lag | none |
| `NoEquivocationWithoutLag` | `NoEquivocation` | `~Lag` |
| `OvershootIsBounded`, `EachCounterIsCapped`, `ResetsAreBounded` | `OvershootBounded`, `CapForEachCounter`, `ResetsBounded` | none (rebates included) |
| `TodayIsNotOvercharged` | `ChargedForTodayOnly` | `NoRebates`: no net usage is negative |

**Sums.** The balances of a list are summed by a fold. `SumProofs` shows that the
community modules' fold over a set has one value (`FoldExists`, `FoldUnique`), by
taking the smallest set for which it would not: induction theorems cannot be
instantiated here, the well-ordering of the naturals can. `GasStorageProofs` has
the same for lists (`BalanceRuns`, `RunningTotalUnique`, `BalanceOfConcat`).

**Storage.** None of the invariants is inductive alone. That a new reservation
holds no coin of another one (`CoinToOneCaller`) needs that the queue and the
reservations are disjoint; that returning to the queue keeps ids different needs
that callers add only coins Redis does not hold; that a new id overwrites no
reservation needs that ids are at most the counter. `StorageInv` is their
conjunction with the statistics and the schedule, and is inductive. One lemma per
script shows that the script preserves it, from whatever caller (`ReserveKeepsInv`,
`ReadyKeepsInv`, `ExpireKeepsInv`, `AddKeepsInv`, `TickKeepsInv`,
`ConnectionKeepsInv`), with the obligation of the caller of `add_new_coins` as an
assumption, and one what the script does to the coins (`ReserveMoves`, `ReadyTakes`,
`ExpireTakes`, `AddBringsIn`). The pool's proofs use nothing else of the storage.

**Pool.** `OneHolder` says that holders are disjoint now; that they stay disjoint
depends on what tasks are going to do. `PoolInv` adds: a granted payment is the
reservation it stands for as long as that is open (`TasksMatch`), so that a task
that takes it over takes coins nobody else has; a task's reservation is gone from
Redis; what a task is about to return has each coin once (`ReturnsDistinct`), so
that `add_new_coins` may be called; the chain files a coin under its own id and a
coin that is gone on the fullnode is gone on the chain (`ChainFiled`), so that a
look-up after a failure returns what is left of the payment and no other coin. A
task that ends, fails or is killed only loses coins (`HoldersShrink`,
`ExecGoesOn`, `UnlockerGoesOn`), which covers most steps.

On `PoolInv` stand the others. A coin that has no holder never gets one again
(`NextShrinksOwned`), so a transaction left behind by a dead server, whose coins
were the task's own, can meet no later one (`NetworkApart`). The derived balance is
right because the total read before execution stays the sum of what the coins have
on chain as long as the task alone holds them (`MatchInv`); smashing then moves
exactly this total (`ExecutedCoinIsTrue`).

**Refinement.** `Place` maps a coin to its holder, and is defined only if it has
one: `PlacesKnown`, from `PoolInv`, makes it so. Each step of the pool is one of
`CoinCustody`'s or leaves all places alone: `Lends` for a granted reservation,
`TaskTakes` for an execution or an expiration, `TaskReturns` for `add_new_coins`,
`TasksLose` for a smashed coin, a crash or a lost reply. One lemma per action
(`...ImplementsCustody`) names the abstract step.

**Servers.** A step of `GasPoolServer` is a step of the pool, or the health check,
which reserves coins that no client was granted (`ServerStepIsPoolStep`,
`HealthCheckKeepsInv`): so the pool's invariants carry over. Two more are inductive
on top of it. `OneAttempt`: a reservation that is still open, or taken and not yet
submitted (`Untried`), has no transaction landed or pending, and one that was
submitted has one transaction at most. `NeverExecutedTwice` follows, with late
landings included. `SessionInv`: a waiting request has a task on its server, a
result names a transaction that landed, a task that has seen effects has landed.

**Transaction.** `CheckCoversCommands` is the point of the check: an argument of
any command is looked at by the code or is of a type no coin has. `SponsoredInv`
says what the task holds at each stage, and what each answer means for it
(`Holdings`), and that nothing is taken, submitted or landed before the check
accepted (`AcceptedFirst`).

**Rounds.** `RoundInv`: while a round goes on its lock has not expired, so no other
server gets it. It needs nothing of the coins. Everything else about rounds needs
the pool's invariant as well, over a chain on which coins are created: `InitializerInv`
is `RoundInv`, `PoolInv` and

* `MintedInv`: whatever anyone holds was minted, and no view of a coin is ahead of the
  chain. So the ids a split creates are in nobody's hands.
* `RoundKnown`: a round has coins only while it splits, each in one task or in the
  result, none of them the pool's; a server that is down has none.
* `EmptyFirst`: as long as the pool is not initialised nobody has a coin of it; and it
  is not initialised while an Init round lists, nor while the lock is free and some
  server has looked at `is_initialized` and not yet asked for the lock. This is why an
  Init round may add all it lists.

A step of the pool leaves rounds alone because coins only pass between the pool's own
holders (`NextShrinksOwned`), and `PoolOnlyGrows` and `NextTouches` say what it does
on chain. What a Refresh lists is free only by its size. That is the
hypothesis `[]PoolCoinsStaySmall`, on the behaviour and not on a constant: no constant
limits how much a coin gathers when it is smashed with others, reservation after
reservation, or gains by rebates. It holds throughout the runs `init` and
`init_faults`; `InitializerGrownCoin.cfg` is what happens without it,
`InitializerStaleCheck.cfg` without `ChecksAreFresh`, and `InitializerSlow.cfg`
shows a round that is not in time.

`NothingForgotten` is a disjunction, `EveryCoinKept \/ NotListedYet`, of the time
after the first listing and the time before it; `KeepInv` adds that rounds hold live
coins, that without faults a held lock is somebody's (`LockIsRound`), so that a server
whose request for the lock was refused may go on to serve, and that a late transaction
pays with coins of the pool (`NetworkOwned`), so that what it smashes or creates has
a holder.

`ApartInv` is for crashes: a transaction of a dead server pays with coins nobody
holds, which a round could list. It never does: an Init round was over when the
transaction was sent, and a Refresh looks for larger coins (`NetworkFree`). So the
coins of a round change by its own splits only, and what it is done with is as the
chain has it (`ResultsTrue`). With this the queue stays true when a chunk is added:
`DerivedBalance`, the remainder of the division and the parts included, is what the
split left.

**Object locks.** That a task has locked every owned input it may spend cannot be
seen at the moment of the lock, but only from how the task came there: the invariant
`LocksInv` therefore says of each stage what the task has decided so far, for an
input as long as the input is the latest version. An input found in the cache was
entered there for that version, so `CacheSound` makes the decision right; an answer
that does not lag names the latest version, so an input that is still live is the
version the answer speaks of. Both survive what happens elsewhere, because a
version keeps its owner for ever and a superseded input is no longer live. From
this, two tasks that spend the same live version both hold its lock, which
`TableMatchesGuards` excludes. Lemmas for steps that touch one task
(`TaskStep`, `QuietStep`, `EndKeepsInv`) keep the proof to one lemma per action.

**Usage cap.** Admitting a request needs a counter below the cap, and each request
counted takes one out of `Admitted`; a reset to zero at any moment only lowers the
counter or leaves it below the cap.
`ChargeInv`: no date in the server is ahead of the clock, so a counter that carries
today's date was reset today, or the process started today.

`CounterInv` is in two phases. As long as the day is `Fresh` (its first reset or
restart is still to come) only requests that are inside a call since an earlier day
(`Old`) can be counted, since whoever is checked looks at the clock first; so nobody
is admitted on a counter of yesterday, rebates or not. After that, whatever the
present counter does not show was on a counter that a reset or a restart wiped, and
each of those held at most `Full`. For `ResetsBounded` the invariant is a potential:
twice the resets so far plus those that can still come (`ToCome`) only falls. A late
request sets the date back once and is then no longer late; each time it does, every
other request may find the date stale and reset it again.

Left to TLC:

* liveness: `CoinsReturn`, `ReservationsEnd`, `ServersStart`, `FundsArePooled`,
  `ExecutionEnds`. The provers have no fairness and no `ENABLED`;
* deadlock freedom, for the same reason;
* that `PoolCoinsStaySmall` and `ChainBalancesFit`, hypotheses of theorems, hold in the
  instances: the first by `InitializerSmallCoins.cfg`.

Every safety property that a passing run checks is a theorem.

## 6. Not modelled

* Configuration, metrics, benchmarks and the command line tool hold no protocol
  state. The metrics of the storage are read from Redis at intervals and may be
  old; nothing decides by them.
* The bytes of signatures and the code of the KMS sidecar, which keeps no state;
  its limit of 10000 characters is a failure of the signer like any other.
* JSON, the endpoints `/` and `/version`, URLs.
* Of the splitting arithmetic, the widths of products and the counter that
  underflows in `increment_total_coin_count_by` (a log line; a debug build would
  panic).
* Progress of a particular budget: a request that the first 256 coins do not cover
  fails as long as they are at the front. The code promises nothing here; that the
  queue is restored is `QueueOrder`.
* One daily cap for several servers: each process counts for itself.

## 7. State of the plan

All modules of section 2 are written, and each safety property of the passing runs,
action properties and both refinements included, has a theorem. What could follow:

1. A fullnode that lags in rounds: `ListCoins` could then list a coin that the round
   before has split. The model of rounds has no such step.
2. Repeated adds (`lost_add_reply`) are outside `CoinsTracked`, because the code
   then breaks `CoinToOneCaller` (`pool_add_retried`). If `add_new_coins` becomes
   idempotent, `CoinsTracked` is the hypothesis to drop first.
