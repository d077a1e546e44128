----------------------------- MODULE GasStorage -----------------------------
(***************************************************************************)
(* The storage layer of the gas pool: the Redis keys of one sponsor and    *)
(* the Lua scripts that read and write them.  Redis runs a script as one   *)
(* atomic step, so a script is one operator over the keys; GasPool uses    *)
(* the same operators inside its own steps.  StorageSpec closes the        *)
(* component with callers that only add coins Redis does not hold.         *)
(***************************************************************************)
EXTENDS Integers, FiniteSets, Sequences, SequencesExt

CONSTANTS
  Server,           \* gas-station processes sharing the Redis instance
  ObjectID,         \* object ids of gas coins
  NewCoin,          \* coins that callers may add in StorageSpec
  Budget,           \* budgets that callers may ask for
  Duration,         \* reservation durations, in ticks
  MaxGasPerQuery,   \* MAX_GAS_PER_QUERY, 256 in the code
  MaxReservations,  \* bound: ids handed out by INCR
  MaxBatch,         \* bound: length of one add_new_coins call in StorageSpec
  Nil               \* a key that is absent

\* A coin as the queue stores it: "balance,object_id,version,digest".  The
\* digest is determined by the id and the version and is left out.
GasCoin == [id : ObjectID, version : Nat, balance : Nat]

ASSUME StorageAssumption ==
  /\ NewCoin \subseteq GasCoin
  /\ Budget \subseteq Nat
  /\ Duration \subseteq Nat
  /\ MaxGasPerQuery \in Nat \ {0}
  /\ MaxReservations \in Nat
  /\ MaxBatch \in Nat
  /\ Nil \notin Int

VARIABLES
  available,          \* <sponsor>:available_gas_coins, a list
  coinCount,          \* <sponsor>:available_coin_count
  totalBalance,       \* <sponsor>:available_coin_total_balance
  reservation,        \* <sponsor>:<reservation id> -> the object ids it holds
  expirationQueue,    \* <sponsor>:expiration_queue, reservation id -> ticks left
  nextReservationId,  \* <sponsor>:next_reservation_id (absent counts as 0)
  initialized,        \* <sponsor>:initialized exists
  connected           \* servers that went through connect_storage

storageVars == <<available, coinCount, totalBalance, reservation,
                 expirationQueue, nextReservationId, initialized, connected>>

-----------------------------------------------------------------------------
(* Views of the keys *)

Balance(coins) == FoldLeft(LAMBDA sum, coin : sum + coin.balance, 0, coins)

Ids(coins) == {coins[i].id : i \in 1..Len(coins)}

ReservedIds == UNION {reservation[r] : r \in DOMAIN reservation}

InRedis == Ids(available) \cup ReservedIds

\* Reservation ids that ZRANGEBYSCORE 0 now returns.
Due_TooEarly == {r \in DOMAIN expirationQueue : expirationQueue[r] <= 1}
Due == {r \in DOMAIN expirationQueue : expirationQueue[r] = 0}

-----------------------------------------------------------------------------
(* The scripts.  An operator named Script_Fault is a faulty variant of the     *)
(* definition after it; it is used by no action, only put in its place to see *)
(* that a property notices.                                                    *)

\* The pops of the first loop: coins are taken from the front of the list
\* until they cover the budget, the list is empty or the limit is reached.
PopsFor_NoLimit(budget, n) ==
  /\ \A m \in 0..(n - 1) : Balance(SubSeq(available, 1, m)) < budget
  /\ Balance(SubSeq(available, 1, n)) >= budget \/ n = Len(available)

PopsFor(budget, n) ==
  /\ n <= MaxGasPerQuery
  /\ \A m \in 0..(n - 1) : Balance(SubSeq(available, 1, m)) < budget
  /\ \/ Balance(SubSeq(available, 1, n)) >= budget
     \/ n = MaxGasPerQuery
     \/ n = Len(available)

\* INCR and the GET after it.
NewReservationId_ReadFirst == nextReservationId
NewReservationId == nextReservationId + 1

\* ZADD of a score that lies duration ahead.
Scheduled_Never(id, duration) == expirationQueue
Scheduled(id, duration) ==
  [r \in DOMAIN expirationQueue \cup {id} |->
     IF r = id THEN duration ELSE expirationQueue[r]]

\* reserve_gas_coins.lua when the popped coins cover the budget.
ReserveGasCoins(budget, duration) ==
  \E n \in 0..Len(available) :
    LET popped == SubSeq(available, 1, n)
        id     == NewReservationId
    IN  /\ PopsFor(budget, n)
        /\ Balance(popped) >= budget
        /\ id <= MaxReservations
        /\ available' = SubSeq(available, n + 1, Len(available))
        /\ totalBalance' = totalBalance - Balance(popped)
        /\ coinCount' = coinCount - n
        /\ nextReservationId' = id
        /\ reservation' = [r \in DOMAIN reservation \cup {id} |->
                             IF r = id THEN Ids(popped) ELSE reservation[r]]
        /\ expirationQueue' = Scheduled(id, duration)
        /\ UNCHANGED <<initialized, connected>>

\* The list after n popped coins were pushed back to the front, last one first:
\* it is in its original order again.
PushedBack_NotPopped(n) == SubSeq(available, 1, n) \o available
PushedBack_FirstFirst(n) ==
  Reverse(SubSeq(available, 1, n)) \o SubSeq(available, n + 1, Len(available))
PushedBack_Never(n) == SubSeq(available, n + 1, Len(available))
PushedBack(n) == SubSeq(available, 1, n) \o SubSeq(available, n + 1, Len(available))

\* reserve_gas_coins.lua when they do not cover it.
RejectReservation(budget) ==
  \E n \in 0..Len(available) :
    /\ PopsFor(budget, n)
    /\ Balance(SubSeq(available, 1, n)) < budget
    /\ available' = PushedBack(n)
    /\ UNCHANGED <<coinCount, totalBalance, reservation, expirationQueue,
                   nextReservationId, initialized, connected>>

\* ready_for_execution.lua: the key is deleted, the entry of the expiration
\* queue stays.  Without the key the script raises an error.
ReadyForExecution_KeepsKey(r) == r \in DOMAIN reservation /\ UNCHANGED storageVars

ReadyForExecution(r) ==
  /\ r \in DOMAIN reservation
  /\ reservation' = Restrict(reservation, DOMAIN reservation \ {r})
  /\ UNCHANGED <<available, coinCount, totalBalance, expirationQueue,
                 nextReservationId, initialized, connected>>

\* What expire_coins.lua returns, flattened into object ids.
ExpiredIds == UNION {reservation[r] : r \in Due \cap DOMAIN reservation}

\* expire_coins.lua: deletes the keys of due reservations that still exist and
\* every due entry of the expiration queue.
ExpireCoins_KeepsKeys ==
  /\ expirationQueue' = Restrict(expirationQueue, DOMAIN expirationQueue \ Due)
  /\ UNCHANGED <<available, coinCount, totalBalance, reservation,
                 nextReservationId, initialized, connected>>

ExpireCoins_ClearsQueue ==
  /\ reservation' = Restrict(reservation, DOMAIN reservation \ Due)
  /\ expirationQueue' = <<>>
  /\ UNCHANGED <<available, coinCount, totalBalance, nextReservationId,
                 initialized, connected>>

ExpireCoins ==
  /\ reservation' = Restrict(reservation, DOMAIN reservation \ Due)
  /\ expirationQueue' = Restrict(expirationQueue, DOMAIN expirationQueue \ Due)
  /\ UNCHANGED <<available, coinCount, totalBalance, nextReservationId,
                 initialized, connected>>

\* The statistics after an add, each with a GET and a SET of its own.
AddToStats_BalanceOnly(coins) ==
  totalBalance' = totalBalance + Balance(coins) /\ UNCHANGED coinCount
AddToStats_CountOnly(coins) ==
  coinCount' = coinCount + Len(coins) /\ UNCHANGED totalBalance
AddToStats(coins) ==
  /\ totalBalance' = totalBalance + Balance(coins)
  /\ coinCount' = coinCount + Len(coins)

\* add_new_coins.lua.  With a statistics key absent the script fails in its
\* arithmetic; here the sum has no value then and TLC reports it.
AddNewCoins(coins) ==
  /\ available' = available \o coins
  /\ initialized' = (initialized \/ Len(coins) > 0)
  /\ AddToStats(coins)
  /\ UNCHANGED <<reservation, expirationQueue, nextReservationId, connected>>

\* connect_storage, with init_coin_stats_at_startup.lua: an absent statistic is
\* computed from the list.  Redis' Lua has no math.tointeger, which the script
\* calls on each listed coin: it succeeds on an empty list only.
ConnectStorage(s) ==
  /\ s \notin connected
  /\ totalBalance = Nil => available = <<>>
  /\ coinCount' = IF coinCount = Nil THEN Len(available) ELSE coinCount
  /\ totalBalance' = IF totalBalance = Nil THEN 0 ELSE totalBalance
  /\ connected' = connected \cup {s}
  /\ UNCHANGED <<available, reservation, expirationQueue, nextReservationId,
                 initialized>>

\* Time passes: every score comes one tick closer, a due one stays due.
Tick ==
  /\ \E r \in DOMAIN expirationQueue : expirationQueue[r] > 0
  /\ expirationQueue' = [r \in DOMAIN expirationQueue |->
                           IF expirationQueue[r] = 0 THEN 0 ELSE expirationQueue[r] - 1]
  /\ UNCHANGED <<available, coinCount, totalBalance, reservation,
                 nextReservationId, initialized, connected>>

-----------------------------------------------------------------------------
(* The component on its own, from an empty Redis *)

StorageInit ==
  /\ available = <<>>
  /\ coinCount = Nil
  /\ totalBalance = Nil
  /\ reservation = <<>>
  /\ expirationQueue = <<>>
  /\ nextReservationId = 0
  /\ initialized = FALSE
  /\ connected = {}

\* A server stops; Redis keeps every key.
Disconnect(s) ==
  /\ s \in connected
  /\ connected' = connected \ {s}
  /\ UNCHANGED <<available, coinCount, totalBalance, reservation,
                 expirationQueue, nextReservationId, initialized>>

\* Batches of different coins none of which is in Redis.
NewBatch ==
  {coins \in SeqOf(NewCoin, MaxBatch) :
     /\ \A i, j \in 1..Len(coins) : coins[i].id = coins[j].id => i = j
     /\ Ids(coins) \cap InRedis = {}}

ServerCall ==
  /\ connected # {}
  /\ \/ \E budget \in Budget \ {0}, duration \in Duration :
          ReserveGasCoins(budget, duration)
     \/ \E budget \in Budget \ {0} : RejectReservation(budget)
     \/ \E r \in 1..MaxReservations : ReadyForExecution(r)
     \/ ExpireCoins
     \/ \E coins \in NewBatch : AddNewCoins(coins)

StorageNext ==
  \/ \E s \in Server : ConnectStorage(s) \/ Disconnect(s)
  \/ ServerCall
  \/ Tick

StorageSpec == StorageInit /\ [][StorageNext]_storageVars

-----------------------------------------------------------------------------
(* Properties *)

\* The shape of the keys; BalanceMatchesList pins the remaining one.
StorageTypeOK ==
  /\ available \in Seq(GasCoin)
  /\ coinCount \in Nat \cup {Nil}
  /\ nextReservationId \in 0..MaxReservations
  /\ DOMAIN reservation \subseteq 1..nextReservationId
  /\ reservation \in [DOMAIN reservation -> SUBSET ObjectID]
  /\ DOMAIN expirationQueue \subseteq 1..nextReservationId
  /\ expirationQueue \in [DOMAIN expirationQueue -> Nat]
  /\ initialized \in BOOLEAN
  /\ connected \subseteq Server

\* The coin count, kept by read-modify-write beside the list, is the length of
\* the list from the moment any server is connected.
CountMatchesList ==
  /\ connected # {} => coinCount # Nil
  /\ coinCount # Nil => coinCount = Len(available)
  /\ coinCount = Nil => available = <<>>

\* Likewise the total balance and the balances in the list.
BalanceMatchesList ==
  /\ connected # {} => totalBalance # Nil
  /\ totalBalance # Nil => totalBalance = Balance(available)

\* The Storage trait's first guarantee in its own words: a coin is never
\* returned to two callers.
CoinToOneCaller ==
  \A r, q \in DOMAIN reservation : reservation[r] \cap reservation[q] # {} => r = q

\* What it takes to keep it: a coin is at most once in the queue, in at most one
\* reservation, and never in both.
NoCoinInTwoPlaces ==
  /\ \A i, j \in 1..Len(available) : available[i].id = available[j].id => i = j
  /\ CoinToOneCaller
  /\ Ids(available) \cap ReservedIds = {}

\* The second guarantee: a record with a time is kept of every reservation, so
\* that the clean-up finds the ones nobody releases.
LiveReservationScheduled == DOMAIN reservation \subseteq DOMAIN expirationQueue

\* The third guarantee, and what expire_coins needs to parse the record: a
\* reservation holds at least one coin and at most MaxGasPerQuery.
ReservationWithinLimits ==
  \A r \in DOMAIN reservation :
    /\ reservation[r] # {}
    /\ Cardinality(reservation[r]) <= MaxGasPerQuery

\* Coins are handed out first in, first out: a step leaves the queue alone,
\* drops a prefix or appends a suffix, a rejected reservation included.
QueueOrder ==
  [][\/ \E n \in 0..Len(available) : available' = SubSeq(available, n + 1, Len(available))
     \/ \E n \in 0..Len(available') : available = SubSeq(available', 1, n)]_storageVars

\* A coin leaves Redis only when the reservation that holds it ends, and comes
\* in only through the queue: no script loses or invents a coin.
CoinsConserved ==
  [][/\ \A c \in InRedis \ InRedis' :
          \E r \in DOMAIN reservation \ DOMAIN reservation' : c \in reservation[r]
     /\ InRedis' \ InRedis \subseteq Ids(available')]_storageVars
=============================================================================
