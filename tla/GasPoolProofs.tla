--------------------------- MODULE GasPoolProofs ---------------------------
(***************************************************************************)
(* What GasPool keeps for every number of servers, coins, reservations and *)
(* balances.  The theorems name the faults they allow as a hypothesis on   *)
(* the constant Faults: the counterexamples of the other faults are what   *)
(* the runs that expect a violation show.                                  *)
(***************************************************************************)
EXTENDS GasPool, GasStorageProofs

\* No call of add_new_coins is repeated, and a client pays with coins of its own
\* reservation, all of them, some or none.
CoinsTracked == "lost_add_reply" \notin Faults /\ "mixed_payment" \notin Faults

-----------------------------------------------------------------------------
(* What the operators return *)

\* A payment of r is made of coins of r.
LEMMA PaymentIsPart ==
  ASSUME CoinsTracked, NEW r \in DOMAIN granted, granted[r] \in Seq(ObjectRef),
         NEW payment \in Payments(r)
  PROVE  payment \in Seq(ObjectRef) /\ Ids(payment) \subseteq Ids(granted[r])
<1>1. CASE payment = granted[r]
  BY <1>1
<1>2. ASSUME NEW n \in 0..(Len(granted[r]) - 1), payment = SubSeq(granted[r], 1, n)
      PROVE  payment \in Seq(ObjectRef) /\ Ids(payment) \subseteq Ids(granted[r])
  <2>1. Len(granted[r]) \in Nat /\ n \in 0..Len(granted[r])
    BY LenProperties
  <2>2. /\ payment \in Seq(ObjectRef) /\ Len(payment) = n
        /\ \A i \in 1..n : payment[i] = granted[r][i]
    BY <1>2, <2>1, PrefixOf
  <2> QED BY <2>1, <2>2 DEF Ids
<1> QED BY <1>1, <1>2 DEF Payments, CoinsTracked

LEMMA IdsOfRefs ==
  ASSUME NEW q \in Seq(ObjectRef)
  PROVE  Ids(q) \subseteq ObjectID /\ IsFiniteSet(Ids(q))
<1>1. \A i \in 1..Len(q) : q[i] \in ObjectRef
  BY ElementOfSeq
<1>2. Ids(q) \subseteq ObjectID
  BY <1>1 DEF Ids, ObjectRef
<1> QED BY <1>2, FS_Subset, PoolAssumption

\* The version after a transaction is a number above those of its inputs.
LEMMA NextVersionIsNext ==
  ASSUME NEW payment \in Seq(ObjectRef), payment # <<>>
  PROVE  /\ NextVersion(payment) \in Nat
         /\ \A i \in 1..Len(payment) : payment[i].version < NextVersion(payment)
<1>1. Len(payment) \in Nat \ {0}
  BY EmptySeq, LenProperties
<1> DEFINE f == [i \in 1..Len(payment) |-> payment[i].version]
<1>2. \A i \in 1..Len(payment) : payment[i] \in ObjectRef
  BY ElementOfSeq
<1>3. f \in [1..Len(payment) -> Nat]
  BY <1>2 DEF ObjectRef
<1> DEFINE m == Max({f[i] : i \in 1..Len(payment)})
<1>4. {f[i] : i \in 1..Len(payment)} = {payment[i].version : i \in 1..Len(payment)}
  OBVIOUS
<1>5. NextVersion(payment) = 1 + m
  BY <1>4 DEF NextVersion
<1> HIDE DEF f
<1>6. m \in Nat /\ \A i \in 1..Len(payment) : m >= f[i]
  BY <1>1, <1>3, MaxOfList
<1>7. \A i \in 1..Len(payment) : f[i] = payment[i].version /\ f[i] \in Nat
  BY <1>3 DEF f
<1> HIDE DEF m
<1> QED BY <1>5, <1>6, <1>7

ChainTypeOK ==
  /\ chain \in [ObjectID -> GasCoin \cup {Nil}]
  /\ fullnode \in [ObjectID -> GasCoin \cup {Nil}]

\* The chain and the fullnode file a coin under its own id, and a coin that is gone
\* on the fullnode is gone on the chain.
ChainFiled ==
  \A c \in ObjectID :
    /\ chain[c] # Nil => chain[c].id = c
    /\ fullnode[c] # Nil => fullnode[c].id = c
    /\ chain[c] # Nil => fullnode[c] # Nil

\* get_latest_gas_objects returns each coin that still exists once.
LEMMA LatestGasObjectsAre ==
  ASSUME ChainTypeOK, ChainFiled, NEW ids \in SUBSET ObjectID, NEW coins \in LatestGasObjects(ids)
  PROVE  /\ coins \in Seq(GasCoin)
         /\ DistinctIds(coins)
         /\ Ids(coins) = {c \in ids : fullnode[c] # Nil}
         /\ \A i \in 1..Len(coins) : coins[i] = fullnode[coins[i].id]
<1> DEFINE S == {c \in ids : fullnode[c] # Nil}
           n == Cardinality(S)
<1>1. PICK order \in SetToSeqs(S) : coins = [i \in DOMAIN order |-> fullnode[order[i]]]
  BY DEF LatestGasObjects
<1>2. IsFiniteSet(S) /\ n \in Nat
  BY PoolAssumption, FS_Subset, FS_CardinalityType
<1> HIDE DEF S, n
<1>3. /\ order \in [1..n -> S]
      /\ \A i, j \in 1..n : i # j => order[i] # order[j]
  BY <1>1 DEF SetToSeqs, n
<1>4. S \subseteq ids /\ \A c \in S : fullnode[c] \in GasCoin /\ fullnode[c].id = c
  BY DEF S, ChainTypeOK, ChainFiled
<1>5. coins \in [1..n -> GasCoin] /\ \A i \in 1..n : coins[i].id = order[i] /\ order[i] \in S
  BY <1>1, <1>3, <1>4
<1>6. coins \in Seq(GasCoin) /\ Len(coins) = n
  BY <1>2, <1>5, SeqDef, LenProperties
<1>7. DistinctIds(coins)
  BY <1>3, <1>5, <1>6 DEF DistinctIds
<1>8. Ids(coins) = S
  <2>1. order \in Injection(1..n, S)
    BY <1>3 DEF Injection, IsInjective
  <2>2. Cardinality(1..n) = n
    BY <1>2, FS_Interval
  <2>3. order \in Surjection(1..n, S)
    BY <1>2, <2>1, <2>2, FS_Injection DEF n
  <2>4. \A c \in S : \E i \in 1..n : order[i] = c
    BY <2>3 DEF Surjection
  <2> QED BY <1>5, <1>6, <2>4 DEF Ids
<1>9. \A i \in 1..Len(coins) : coins[i] = fullnode[coins[i].id]
  BY <1>1, <1>3, <1>5, <1>6
<1> QED BY <1>6, <1>7, <1>8, <1>9 DEF S

\* get_coins_after_tx returns the coin that paid.
LEMMA CoinsAfterTxAre ==
  ASSUME NEW payment \in Seq(ObjectRef), payment # <<>>, NEW total \in Int, NEW usage \in Usage
  PROVE  /\ CoinsAfterTx(payment, total, usage) \in Seq(GasCoin)
         /\ DistinctIds(CoinsAfterTx(payment, total, usage))
         /\ Ids(CoinsAfterTx(payment, total, usage)) = {payment[1].id}
         /\ payment[1].id \in Ids(payment)
         /\ Len(CoinsAfterTx(payment, total, usage)) = 1
<1>1. Len(payment) \in Nat \ {0} /\ 1 \in 1..Len(payment)
  BY EmptySeq, LenProperties
<1>2. payment[1] \in ObjectRef
  BY <1>1, ElementOfSeq
<1>3. (total - NetUsage(usage)) % WordModulus \in Nat
  BY PoolAssumption DEF NetUsage
<1>4. [id |-> payment[1].id, version |-> NextVersion(payment),
       balance |-> (total - NetUsage(usage)) % WordModulus] \in GasCoin
  BY <1>2, <1>3, NextVersionIsNext DEF ObjectRef, GasCoin
<1>5. payment[1].id \in Ids(payment)
  BY <1>1 DEF Ids
<1> QED BY <1>4, <1>5 DEF CoinsAfterTx, DistinctIds, Ids

\* A transaction that lands replaces the first coin of its payment, removes the
\* others and leaves every other coin alone.
LEMMA LandChanges ==
  ASSUME ChainTypeOK, ChainFiled, NEW payment \in Seq(ObjectRef), NEW usage \in Usage,
         Land(payment, usage)
  PROVE  /\ ChainTypeOK' /\ ChainFiled'
         /\ payment # <<>> /\ payment[1].id \in Ids(payment)
         /\ \A c \in Ids(payment) : chain[c] # Nil /\ (chain'[c] # Nil => c = payment[1].id)
         /\ \A c \in ObjectID \ Ids(payment) : chain'[c] = chain[c]
<1>0. payment # <<>> /\ Len(payment) \in Nat \ {0}
  BY EmptySeq, LenProperties DEF Land
<1>1. \A i \in 1..Len(payment) : payment[i] \in ObjectRef
  BY ElementOfSeq
<1>2. \A c \in Ids(payment) : c \in ObjectID /\ chain[c] # Nil
  BY <1>1 DEF Land, RefsCurrent, Ids, ObjectRef
<1>3. payment[1].id \in Ids(payment)
  BY <1>0 DEF Ids
<1>4. OnChainTotal(payment) \in Int
  <2>1. [c \in Ids(payment) |-> chain[c].balance] \in [Ids(payment) -> Int]
    <3>1. \A c \in Ids(payment) : chain[c] \in GasCoin
      BY <1>2 DEF ChainTypeOK
    <3>2. \A c \in Ids(payment) : chain[c].balance \in Int
      BY <3>1 DEF GasCoin
    <3> QED BY <3>2
  <2> QED BY <2>1, IdsOfRefs, SumFunctionType DEF OnChainTotal
<1>5. OnChainTotal(payment) - usage \in Nat
  BY <1>4, PoolAssumption DEF Land
<1>6. NextVersion(payment) \in Nat
  BY <1>0, NextVersionIsNext
<1> DEFINE paid == [id |-> payment[1].id, version |-> NextVersion(payment),
                    balance |-> OnChainTotal(payment) - usage]
<1>7. paid \in GasCoin /\ paid.id = payment[1].id
  BY <1>2, <1>3, <1>5, <1>6 DEF GasCoin
<1>8. paid # Nil
  BY <1>7, PoolAssumption
<1>9. chain' = [c \in ObjectID |-> IF c = payment[1].id THEN paid
                                  ELSE IF c \in Ids(payment) THEN Nil ELSE chain[c]]
  BY Zenon DEF Land
<1> HIDE DEF paid
<1>10. chain' \in [ObjectID -> GasCoin \cup {Nil}]
  BY <1>7, <1>9 DEF ChainTypeOK
<1>11. fullnode' = fullnode \/ fullnode' = chain'
  BY DEF Land
<1>12. \A c \in ObjectID : chain'[c] # Nil => chain'[c].id = c /\ chain[c] # Nil
  BY <1>2, <1>3, <1>7, <1>9 DEF ChainFiled
<1>13. ChainTypeOK'
  BY <1>10, <1>11 DEF ChainTypeOK
<1>14. ChainFiled'
  BY <1>11, <1>12 DEF ChainFiled
<1> QED BY <1>0, <1>2, <1>3, <1>9, <1>13, <1>14
-----------------------------------------------------------------------------
(* The invariant *)

\* No two of the queue, the reservations, the execution tasks and the unlockers
\* share a coin.
HoldersApart ==
  /\ \A r \in DOMAIN exec : HeldByExec(r) \cap InRedis = {}
  /\ \A s \in Server : HeldByUnlocker(s) \cap InRedis = {}
  /\ \A r, q \in DOMAIN exec : r # q => HeldByExec(r) \cap HeldByExec(q) = {}
  /\ \A s, t \in Server : s # t => HeldByUnlocker(s) \cap HeldByUnlocker(t) = {}
  /\ \A r \in DOMAIN exec, s \in Server : HeldByExec(r) \cap HeldByUnlocker(s) = {}

\* A task runs on a server that is up; a task that took a reservation is the only
\* one that has it; what a client was granted is what is reserved for it.
TasksMatch ==
  /\ \A r \in DOMAIN exec : exec[r].server \in connected
  /\ \A s \in Server : unlocker[s].stage # "idle" => s \in connected
  /\ DOMAIN exec \cap DOMAIN reservation = {}
  /\ \A r \in DOMAIN granted \cap DOMAIN reservation : Ids(granted[r]) = reservation[r]

\* What a task is about to return has each coin once; an idle unlocker has none.
ReturnsDistinct ==
  /\ \A r \in DOMAIN exec : exec[r].stage = "release" => DistinctIds(exec[r].coins)
  /\ \A s \in Server : unlocker[s].stage = "release" => DistinctIds(unlocker[s].coins)
  /\ \A s \in Server : unlocker[s].stage = "idle" => unlocker[s].ids = {}

TasksTypeOK ==
  /\ DOMAIN granted \subseteq 1..nextReservationId
  /\ granted \in [DOMAIN granted -> Seq(ObjectRef)]
  /\ DOMAIN exec \subseteq 1..nextReservationId
  /\ exec \in [DOMAIN exec -> ExecTask]
  /\ unlocker \in [Server -> UnlockTask]
  /\ network \subseteq [reservation : 1..nextReservationId, payment : Seq(ObjectRef)]

PoolInv ==
  /\ StorageInv
  /\ ChainTypeOK /\ ChainFiled
  /\ TasksTypeOK
  /\ HoldersApart
  /\ TasksMatch
  /\ ReturnsDistinct

-----------------------------------------------------------------------------
(* Steps of the tasks that leave Redis alone *)

LEMMA StorageStutter ==
  ASSUME StorageInv, UNCHANGED storageVars
  PROVE  /\ StorageInv' /\ InRedis' = InRedis
         /\ UNCHANGED <<reservation, connected, nextReservationId, available>>
<1>1. UNCHANGED <<reservation, connected, nextReservationId, available>>
  BY DEF storageVars
<1> QED BY <1>1, StorageStutterKeepsInv DEF InRedis, ReservedIds, Ids

\* Holders that only lose coins stay apart.
LEMMA HoldersShrink ==
  ASSUME HoldersApart,
         InRedis' \subseteq InRedis,
         DOMAIN exec' \subseteq DOMAIN exec,
         \A r \in DOMAIN exec' : HeldByExec(r)' \subseteq HeldByExec(r),
         \A s \in Server : HeldByUnlocker(s)' \subseteq HeldByUnlocker(s)
  PROVE  HoldersApart'
<1>1. \A r \in DOMAIN exec' : HeldByExec(r)' \cap InRedis' = {}
  BY DEF HoldersApart
<1>2. \A s \in Server : HeldByUnlocker(s)' \cap InRedis' = {}
  BY DEF HoldersApart
<1>3. \A r, q \in DOMAIN exec' : r # q => HeldByExec(r)' \cap HeldByExec(q)' = {}
  BY DEF HoldersApart
<1>4. \A s, t \in Server : s # t => HeldByUnlocker(s)' \cap HeldByUnlocker(t)' = {}
  BY DEF HoldersApart
<1>5. \A r \in DOMAIN exec', s \in Server : HeldByExec(r)' \cap HeldByUnlocker(s)' = {}
  BY DEF HoldersApart
<1> QED BY <1>1, <1>2, <1>3, <1>4, <1>5 DEF HoldersApart

\* An execution task goes on, with the coins it had or fewer.
LEMMA ExecGoesOn ==
  ASSUME PoolInv, NEW r \in DOMAIN exec,
         UNCHANGED <<storageVars, granted, unlocker>>,
         ChainTypeOK', ChainFiled', network' \subseteq network \cup {Sent(r)},
         exec' \in [DOMAIN exec -> ExecTask],
         \A q \in DOMAIN exec : q # r => exec'[q] = exec[q],
         exec'[r].server = exec[r].server,
         HeldByExec(r)' \subseteq HeldByExec(r),
         exec'[r].stage = "release" => DistinctIds(exec'[r].coins)
  PROVE  PoolInv'
<1>0. DOMAIN exec' = DOMAIN exec
  OBVIOUS
<1>1. /\ StorageInv' /\ InRedis' = InRedis
      /\ UNCHANGED <<reservation, connected, nextReservationId, available>>
  BY StorageStutter DEF PoolInv
<1>2. TasksTypeOK'
  <2>1. exec[r] \in ExecTask /\ r \in 1..nextReservationId
    BY DEF PoolInv, TasksTypeOK
  <2>2. Sent(r) \in [reservation : 1..nextReservationId, payment : Seq(ObjectRef)]
    BY <2>1 DEF Sent, ExecTask
  <2>3. network' \subseteq [reservation : 1..nextReservationId, payment : Seq(ObjectRef)]
    BY <2>2 DEF PoolInv, TasksTypeOK
  <2> QED BY <1>0, <1>1, <2>3 DEF PoolInv, TasksTypeOK
<1>3. HoldersApart'
  <2>1. \A q \in DOMAIN exec' : HeldByExec(q)' \subseteq HeldByExec(q)
    BY <1>0 DEF HeldByExec
  <2>2. \A s \in Server : HeldByUnlocker(s)' \subseteq HeldByUnlocker(s)
    BY DEF HeldByUnlocker
  <2> QED BY <1>0, <1>1, <2>1, <2>2, HoldersShrink DEF PoolInv
<1>4. TasksMatch'
  <2>1. \A q \in DOMAIN exec' : exec'[q].server = exec[q].server
    BY <1>0
  <2>2. \A q \in DOMAIN granted : Ids(granted[q])' = Ids(granted[q])
    BY DEF Ids
  <2> QED BY <1>0, <1>1, <2>1, <2>2 DEF PoolInv, TasksMatch
<1>5. ReturnsDistinct'
  <2>1. \A q \in DOMAIN exec' : exec'[q].stage = "release" => DistinctIds(exec'[q].coins)
    BY <1>0 DEF PoolInv, ReturnsDistinct
  <2> QED BY <2>1 DEF PoolInv, ReturnsDistinct, DistinctIds
<1> QED BY <1>1, <1>2, <1>3, <1>4, <1>5 DEF PoolInv

\* An unlocker goes on, with the coins it had or fewer.
LEMMA UnlockerGoesOn ==
  ASSUME PoolInv, NEW s \in Server,
         UNCHANGED <<storageVars, envVars, granted, exec>>,
         unlocker' \in [Server -> UnlockTask],
         \A q \in Server : q # s => unlocker'[q] = unlocker[q],
         HeldByUnlocker(s)' \subseteq HeldByUnlocker(s),
         unlocker[s].stage # "idle",
         unlocker'[s].stage = "release" => DistinctIds(unlocker'[s].coins),
         unlocker'[s].stage = "idle" => unlocker'[s].ids = {}
  PROVE  PoolInv'
<1>1. /\ StorageInv' /\ InRedis' = InRedis
      /\ UNCHANGED <<reservation, connected, nextReservationId, available>>
  BY StorageStutter DEF PoolInv
<1>2. TasksTypeOK' /\ ChainTypeOK' /\ ChainFiled'
  BY <1>1 DEF PoolInv, TasksTypeOK, envVars, ChainTypeOK, ChainFiled
<1>3. HoldersApart'
  <2>1. \A q \in DOMAIN exec' : HeldByExec(q)' \subseteq HeldByExec(q)
    BY DEF HeldByExec, Ids
  <2>2. \A q \in Server : HeldByUnlocker(q)' \subseteq HeldByUnlocker(q)
    BY DEF HeldByUnlocker
  <2> QED BY <1>1, <2>1, <2>2, HoldersShrink DEF PoolInv
<1>4. TasksMatch'
  <2>1. \A q \in DOMAIN granted : Ids(granted[q])' = Ids(granted[q])
    BY DEF Ids
  <2>2. \A q \in Server : unlocker'[q].stage # "idle" => q \in connected
    BY DEF PoolInv, TasksMatch
  <2> QED BY <1>1, <2>1, <2>2 DEF PoolInv, TasksMatch
<1>5. ReturnsDistinct'
  <2>1. \A q \in Server : unlocker'[q].stage = "release" => DistinctIds(unlocker'[q].coins)
    BY DEF PoolInv, ReturnsDistinct
  <2>2. \A q \in Server : unlocker'[q].stage = "idle" => unlocker'[q].ids = {}
    BY DEF PoolInv, ReturnsDistinct
  <2> QED BY <2>1, <2>2 DEF PoolInv, ReturnsDistinct, DistinctIds
<1> QED BY <1>1, <1>2, <1>3, <1>4, <1>5 DEF PoolInv

\* The chain, the fullnode and the network move, and nobody's coins with them.
LEMMA EnvironmentKeepsInv ==
  ASSUME PoolInv, UNCHANGED <<storageVars, taskVars>>,
         ChainTypeOK', ChainFiled', network' \subseteq network
  PROVE  PoolInv'
<1>1. /\ StorageInv' /\ InRedis' = InRedis
      /\ UNCHANGED <<reservation, connected, nextReservationId, available>>
  BY StorageStutter DEF PoolInv
<1>2. UNCHANGED <<granted, exec, unlocker>>
  BY DEF taskVars
<1>3. TasksTypeOK'
  BY <1>1, <1>2 DEF PoolInv, TasksTypeOK
<1>4. HoldersApart'
  <2>1. \A q \in DOMAIN exec' : HeldByExec(q)' \subseteq HeldByExec(q)
    BY <1>2 DEF HeldByExec, Ids
  <2>2. \A q \in Server : HeldByUnlocker(q)' \subseteq HeldByUnlocker(q)
    BY <1>2 DEF HeldByUnlocker, Ids
  <2> QED BY <1>1, <1>2, <2>1, <2>2, HoldersShrink DEF PoolInv
<1>5. TasksMatch'
  BY <1>1, <1>2 DEF PoolInv, TasksMatch, Ids
<1>6. ReturnsDistinct'
  BY <1>2 DEF PoolInv, ReturnsDistinct, DistinctIds
<1> QED BY <1>1, <1>3, <1>4, <1>5, <1>6 DEF PoolInv

-----------------------------------------------------------------------------
(* Every action keeps the invariant *)

\* The total a task reads is a number.
LEMMA TotalIsInt ==
  ASSUME ChainTypeOK, NEW payment \in Seq(ObjectRef)
  PROVE  SumFunction([c \in Ids(payment) |->
                        IF fullnode[c] = Nil THEN 0 ELSE fullnode[c].balance]) \in Int
<1>1. \A c \in Ids(payment) : fullnode[c] \in GasCoin \cup {Nil}
  BY IdsOfRefs DEF ChainTypeOK
<1>2. \A c \in Ids(payment) : (IF fullnode[c] = Nil THEN 0 ELSE fullnode[c].balance) \in Int
  BY <1>1 DEF GasCoin
<1> DEFINE f == [c \in Ids(payment) |-> IF fullnode[c] = Nil THEN 0 ELSE fullnode[c].balance]
<1>3. f \in [Ids(payment) -> Int]
  BY <1>2
<1> HIDE DEF f
<1>4. SumFunction(f) \in Int
  BY <1>3, IdsOfRefs, SumFunctionType
<1> QED BY <1>4 DEF f

LEMMA ReadTotalBalanceKeepsInv ==
  ASSUME PoolInv, NEW r \in DOMAIN exec, ReadTotalBalance(r)
  PROVE  PoolInv'
<1> DEFINE total == SumFunction([c \in Ids(exec[r].payment) |->
                                   IF fullnode[c] = Nil THEN 0 ELSE fullnode[c].balance])
<1>1. exec \in [DOMAIN exec -> ExecTask] /\ exec[r] \in ExecTask
  BY DEF PoolInv, TasksTypeOK
<1>2. total \in Int
  BY <1>1, TotalIsInt DEF PoolInv, ExecTask
<1>3. /\ exec' = [exec EXCEPT ![r].stage = "funded", ![r].total = total]
      /\ exec[r].stage = "ready"
      /\ UNCHANGED <<storageVars, envVars, granted, unlocker>>
  BY Zenon DEF ReadTotalBalance
<1> HIDE DEF total
<1>4. /\ exec' \in [DOMAIN exec -> ExecTask]
      /\ \A q \in DOMAIN exec : q # r => exec'[q] = exec[q]
      /\ exec'[r].server = exec[r].server /\ exec'[r].payment = exec[r].payment
      /\ exec'[r].stage = "funded"
  BY <1>1, <1>2, <1>3 DEF ExecTask
<1>5. HeldByExec(r)' = HeldByExec(r)
  BY <1>3, <1>4 DEF HeldByExec
<1>6. ChainTypeOK' /\ ChainFiled' /\ network' = network
  BY <1>3 DEF PoolInv, ChainTypeOK, ChainFiled, envVars
<1> QED BY <1>3, <1>4, <1>5, <1>6, ExecGoesOn

LEMMA FailExecutionKeepsInv ==
  ASSUME PoolInv, NEW r \in DOMAIN exec, FailExecution(r) \/ SubmitTimeout(r)
  PROVE  PoolInv'
<1>1. exec \in [DOMAIN exec -> ExecTask] /\ exec[r] \in ExecTask
  BY DEF PoolInv, TasksTypeOK
<1>3. /\ exec' = [exec EXCEPT ![r].stage = "failed"]
      /\ exec[r].stage = "funded"
      /\ UNCHANGED <<storageVars, chain, fullnode, granted, unlocker>>
      /\ network' \subseteq network \cup {Sent(r)}
  BY DEF FailExecution, SubmitTimeout, envVars
<1>4. /\ exec' \in [DOMAIN exec -> ExecTask]
      /\ \A q \in DOMAIN exec : q # r => exec'[q] = exec[q]
      /\ exec'[r].server = exec[r].server /\ exec'[r].payment = exec[r].payment
      /\ exec'[r].stage = "failed"
  BY <1>1, <1>3 DEF ExecTask
<1>5. HeldByExec(r)' = HeldByExec(r)
  BY <1>3, <1>4 DEF HeldByExec
<1>6. ChainTypeOK' /\ ChainFiled'
  BY <1>3 DEF PoolInv, ChainTypeOK, ChainFiled
<1> QED BY <1>3, <1>4, <1>5, <1>6, ExecGoesOn

LEMMA ExecuteTransactionKeepsInv ==
  ASSUME PoolInv, NEW r \in DOMAIN exec, NEW usage \in Usage, ExecuteTransaction(r, usage)
  PROVE  PoolInv' /\ HeldByExec(r)' = {exec[r].payment[1].id}
<1> DEFINE payment == exec[r].payment
           coins == CoinsAfterTx(payment, exec[r].total, usage)
<1>1. exec \in [DOMAIN exec -> ExecTask] /\ exec[r] \in ExecTask
  BY DEF PoolInv, TasksTypeOK
<1>2. payment \in Seq(ObjectRef) /\ exec[r].total \in Int
  BY <1>1 DEF ExecTask
<1>3. /\ exec' = [exec EXCEPT ![r].stage = "release", ![r].coins = coins]
      /\ exec[r].stage = "funded" /\ Land(payment, usage)
      /\ UNCHANGED <<storageVars, network, granted, unlocker>>
  BY Zenon DEF ExecuteTransaction
<1>4. ChainTypeOK' /\ ChainFiled' /\ payment # <<>> /\ payment[1].id \in Ids(payment)
  BY <1>2, <1>3, LandChanges DEF PoolInv
<1>5. /\ coins \in Seq(GasCoin) /\ DistinctIds(coins)
      /\ Ids(coins) = {payment[1].id}
  BY <1>2, <1>4, CoinsAfterTxAre
<1> HIDE DEF coins
<1>6. /\ exec' \in [DOMAIN exec -> ExecTask]
      /\ \A q \in DOMAIN exec : q # r => exec'[q] = exec[q]
      /\ exec'[r].server = exec[r].server
      /\ exec'[r].stage = "release" /\ exec'[r].coins = coins
  BY <1>1, <1>3, <1>5 DEF ExecTask
<1>7. HeldByExec(r)' = {payment[1].id} /\ HeldByExec(r) = Ids(payment)
  BY <1>3, <1>5, <1>6 DEF HeldByExec
<1> QED BY <1>3, <1>4, <1>5, <1>6, <1>7, ExecGoesOn

LEMMA QueryLatestKeepsInv ==
  ASSUME PoolInv, NEW r \in DOMAIN exec, QueryLatest(r)
  PROVE  PoolInv' /\ HeldByExec(r)' = {c \in HeldByExec(r) : fullnode[c] # Nil}
<1> DEFINE ids == Ids(exec[r].payment)
<1>1. exec \in [DOMAIN exec -> ExecTask] /\ exec[r] \in ExecTask
  BY DEF PoolInv, TasksTypeOK
<1>2. ids \in SUBSET ObjectID
  BY <1>1, IdsOfRefs DEF ExecTask
<1>3. PICK coins \in LatestGasObjects(ids) :
        exec' = [exec EXCEPT ![r].stage = "release", ![r].coins = coins]
  BY DEF QueryLatest
<1>4. /\ exec[r].stage = "failed"
      /\ UNCHANGED <<storageVars, envVars, granted, unlocker>>
  BY DEF QueryLatest
<1>5. /\ coins \in Seq(GasCoin) /\ DistinctIds(coins)
      /\ Ids(coins) = {c \in ids : fullnode[c] # Nil}
  BY <1>2, <1>3, LatestGasObjectsAre DEF PoolInv
<1>6. /\ exec' \in [DOMAIN exec -> ExecTask]
      /\ \A q \in DOMAIN exec : q # r => exec'[q] = exec[q]
      /\ exec'[r].server = exec[r].server
      /\ exec'[r].stage = "release" /\ exec'[r].coins = coins
  BY <1>1, <1>3, <1>5 DEF ExecTask
<1>7. HeldByExec(r)' = Ids(coins) /\ HeldByExec(r) = ids
  BY <1>4, <1>6 DEF HeldByExec
<1>8. ChainTypeOK' /\ ChainFiled' /\ network' = network
  BY <1>4 DEF PoolInv, ChainTypeOK, ChainFiled, envVars
<1> QED BY <1>4, <1>5, <1>6, <1>7, <1>8, ExecGoesOn

LEMMA UnlockerQueryKeepsInv ==
  ASSUME PoolInv, NEW s \in Server, UnlockerQuery(s)
  PROVE  PoolInv' /\ HeldByUnlocker(s)' = {c \in HeldByUnlocker(s) : fullnode[c] # Nil}
<1>1. unlocker \in [Server -> UnlockTask] /\ unlocker[s] \in UnlockTask
  BY DEF PoolInv, TasksTypeOK
<1>2. unlocker[s].ids \in SUBSET ObjectID
  BY <1>1 DEF UnlockTask
<1>3. PICK coins \in LatestGasObjects(unlocker[s].ids) :
        unlocker' = [unlocker EXCEPT ![s].stage = "release", ![s].coins = coins]
  BY DEF UnlockerQuery
<1>4. /\ unlocker[s].stage = "query"
      /\ UNCHANGED <<storageVars, envVars, granted, exec>>
  BY DEF UnlockerQuery
<1>5. /\ coins \in Seq(GasCoin) /\ DistinctIds(coins)
      /\ Ids(coins) = {c \in unlocker[s].ids : fullnode[c] # Nil}
  BY <1>2, <1>3, LatestGasObjectsAre DEF PoolInv
<1>6. /\ unlocker' \in [Server -> UnlockTask]
      /\ \A q \in Server : q # s => unlocker'[q] = unlocker[q]
      /\ unlocker'[s].stage = "release" /\ unlocker'[s].coins = coins
  BY <1>1, <1>3, <1>5 DEF UnlockTask
<1>7. HeldByUnlocker(s)' = Ids(coins) /\ HeldByUnlocker(s) = unlocker[s].ids
  BY <1>4, <1>6 DEF HeldByUnlocker
<1> QED BY <1>4, <1>5, <1>6, <1>7, UnlockerGoesOn

\* Restrict, as the tasks use it: the others go on as they were.
LEMMA TasksKept ==
  ASSUME PoolInv, NEW S \in SUBSET DOMAIN exec, exec' = Restrict(exec, S)
  PROVE  /\ DOMAIN exec' = S
         /\ exec' \in [DOMAIN exec' -> ExecTask]
         /\ \A q \in S : exec'[q] = exec[q] /\ HeldByExec(q)' = HeldByExec(q)
<1>1. exec \in [DOMAIN exec -> ExecTask]
  BY DEF PoolInv, TasksTypeOK
<1>2. exec' = [q \in S |-> exec[q]]
  BY DEF Restrict
<1>3. \A q \in S : exec'[q] = exec[q]
  BY <1>2
<1>4. DOMAIN exec' = S /\ exec' \in [S -> ExecTask]
  BY <1>1, <1>2
<1>5. \A q \in S : HeldByExec(q)' = HeldByExec(q)
  BY <1>3 DEF HeldByExec, Ids
<1> QED BY <1>3, <1>4, <1>5

\* A task takes the reservation's coins over from Redis.
LEMMA StartExecutionKeepsInv ==
  ASSUME PoolInv, CoinsTracked, NEW s \in Server, NEW r,
         NEW payment \in Payments(r), StartExecution(s, r, payment)
  PROVE  PoolInv' /\ r \notin DOMAIN exec /\ HeldByExec(r)' = Ids(payment)
<1>1. /\ s \in connected /\ r \in DOMAIN granted
      /\ ReadyForExecution(r)
      /\ UNCHANGED <<envVars, granted, unlocker>>
      /\ exec' = [q \in DOMAIN exec \cup {r} |->
                    IF q = r THEN [server |-> s, stage |-> "ready", payment |-> payment,
                                   total |-> 0, coins |-> <<>>]
                    ELSE exec[q]]
  BY Zenon DEF StartExecution
<1>2. StorageInv'
  BY <1>1, ReadyKeepsInv DEF PoolInv
<1>3. /\ r \in DOMAIN reservation
      /\ reservation[r] \subseteq InRedis /\ reservation[r] \cap InRedis' = {}
      /\ InRedis' \subseteq InRedis
      /\ DOMAIN reservation' = DOMAIN reservation \ {r}
      /\ \A q \in DOMAIN reservation' : reservation'[q] = reservation[q]
      /\ UNCHANGED <<available, nextReservationId, connected>>
  BY <1>1, ReadyTakes DEF PoolInv
<1>4. payment \in Seq(ObjectRef) /\ Ids(payment) \subseteq Ids(granted[r])
  BY <1>1, PaymentIsPart DEF PoolInv, TasksTypeOK
<1>5. Ids(payment) \subseteq reservation[r] /\ r \notin DOMAIN exec
  BY <1>1, <1>3, <1>4 DEF PoolInv, TasksMatch
<1>6. <<>> \in Seq(GasCoin)
  BY EmptySeq
<1>7. exec'[r] \in ExecTask /\ exec'[r].stage = "ready" /\ exec'[r].payment = payment
      /\ exec'[r].server = s
  BY <1>1, <1>4, <1>6 DEF ExecTask
<1>8. /\ DOMAIN exec' = DOMAIN exec \cup {r}
      /\ \A q \in DOMAIN exec : exec'[q] = exec[q]
  BY <1>1, <1>5
<1>9. HeldByExec(r)' = Ids(payment)
  BY <1>7 DEF HeldByExec, Ids
<1>10. \A q \in DOMAIN exec : HeldByExec(q)' = HeldByExec(q)
  BY <1>8 DEF HeldByExec, Ids
<1>11. \A q \in Server : HeldByUnlocker(q)' = HeldByUnlocker(q)
  BY <1>1 DEF HeldByUnlocker, Ids
<1>12. TasksTypeOK'
  <2>1. exec \in [DOMAIN exec -> ExecTask] /\ r \in 1..nextReservationId
    BY <1>3 DEF PoolInv, TasksTypeOK, StorageInv, StorageTypeOK
  <2>2. \A q \in DOMAIN exec' : exec'[q] \in ExecTask
    BY <1>7, <1>8, <2>1
  <2>3. exec' \in [DOMAIN exec' -> ExecTask]
    BY <1>1, <2>2
  <2>4. DOMAIN exec' \subseteq 1..nextReservationId
    BY <1>8, <2>1 DEF PoolInv, TasksTypeOK
  <2> QED BY <1>1, <1>3, <2>3, <2>4 DEF PoolInv, TasksTypeOK, envVars
<1>13. HoldersApart'
  BY <1>3, <1>5, <1>8, <1>9, <1>10, <1>11 DEF PoolInv, HoldersApart
<1>14. TasksMatch'
  <2>1. \A q \in DOMAIN exec' : exec'[q].server \in connected'
    BY <1>1, <1>3, <1>7, <1>8 DEF PoolInv, TasksMatch
  <2>2. \A q \in DOMAIN granted : Ids(granted[q])' = Ids(granted[q])
    BY <1>1 DEF Ids
  <2> QED BY <1>1, <1>3, <1>8, <2>1, <2>2 DEF PoolInv, TasksMatch
<1>15. ReturnsDistinct'
  BY <1>1, <1>7, <1>8 DEF PoolInv, ReturnsDistinct, DistinctIds
<1>16. ChainTypeOK' /\ ChainFiled'
  BY <1>1 DEF PoolInv, ChainTypeOK, ChainFiled, envVars
<1> QED BY <1>2, <1>5, <1>9, <1>12, <1>13, <1>14, <1>15, <1>16 DEF PoolInv

\* A script takes coins out of Redis, time passes or a server starts, and no task
\* notices.
LEMMA TasksUnaware ==
  ASSUME PoolInv, UNCHANGED <<envVars, taskVars>>, StorageInv',
         InRedis' \subseteq InRedis,
         DOMAIN reservation' \subseteq DOMAIN reservation,
         \A q \in DOMAIN reservation' : reservation'[q] = reservation[q],
         nextReservationId' = nextReservationId,
         connected \subseteq connected'
  PROVE  PoolInv'
<1>1. UNCHANGED <<granted, exec, unlocker, chain, fullnode, network>>
  BY DEF taskVars, envVars
<1>2. TasksTypeOK' /\ ChainTypeOK' /\ ChainFiled'
  BY <1>1 DEF PoolInv, TasksTypeOK, ChainTypeOK, ChainFiled
<1>3. HoldersApart'
  <2>1. \A q \in DOMAIN exec' : HeldByExec(q)' \subseteq HeldByExec(q)
    BY <1>1 DEF HeldByExec, Ids
  <2>2. \A q \in Server : HeldByUnlocker(q)' \subseteq HeldByUnlocker(q)
    BY <1>1 DEF HeldByUnlocker, Ids
  <2> QED BY <1>1, <2>1, <2>2, HoldersShrink DEF PoolInv
<1>4. TasksMatch'
  BY <1>1 DEF PoolInv, TasksMatch, Ids
<1>5. ReturnsDistinct'
  BY <1>1 DEF PoolInv, ReturnsDistinct, DistinctIds
<1> QED BY <1>2, <1>3, <1>4, <1>5 DEF PoolInv

\* The reply of ready_for_execution or expire_coins is lost: nobody holds the coins.
LEMMA ReplyLostKeepsInv ==
  ASSUME PoolInv, NEW s, NEW r, StartReplyLost(s, r) \/ ExpireReplyLost(s)
  PROVE  PoolInv'
<1>1. CASE StartReplyLost(s, r)
  <2>1. ReadyForExecution(r) /\ UNCHANGED <<envVars, taskVars>>
    BY <1>1 DEF StartReplyLost
  <2> QED BY <2>1, ReadyKeepsInv, ReadyTakes, TasksUnaware DEF PoolInv
<1>2. CASE ExpireReplyLost(s)
  <2>1. ExpireCoins /\ UNCHANGED <<envVars, taskVars>>
    BY <1>2 DEF ExpireReplyLost
  <2>2. /\ InRedis' \subseteq InRedis
        /\ DOMAIN reservation' \subseteq DOMAIN reservation
        /\ \A q \in DOMAIN reservation' : reservation'[q] = reservation[q]
        /\ UNCHANGED <<available, nextReservationId, connected>>
    BY <2>1, ExpireTakes DEF PoolInv
  <2> QED BY <2>1, <2>2, ExpireKeepsInv, TasksUnaware DEF PoolInv
<1> QED BY <1>1, <1>2

LEMMA RestartKeepsInv ==
  ASSUME PoolInv, NEW s \in Server, Restart(s)
  PROVE  PoolInv'
<1>1. ConnectStorage(s) /\ UNCHANGED <<envVars, taskVars>>
  BY DEF Restart
<1>2. /\ UNCHANGED <<available, reservation, nextReservationId>>
      /\ connected \subseteq connected'
  BY <1>1 DEF ConnectStorage
<1>3. InRedis' = InRedis
  BY <1>2 DEF InRedis, ReservedIds, Ids
<1> QED BY <1>1, <1>2, <1>3, ConnectionKeepsInv, TasksUnaware DEF PoolInv

LEMMA PassTimeKeepsInv ==
  ASSUME PoolInv, PassTime
  PROVE  PoolInv'
<1>1. Tick /\ UNCHANGED <<envVars, taskVars>>
  BY DEF PassTime
<1>2. UNCHANGED <<available, reservation, nextReservationId, connected>>
  BY <1>1 DEF Tick
<1>3. InRedis' = InRedis
  BY <1>2 DEF InRedis, ReservedIds, Ids
<1> QED BY <1>1, <1>2, <1>3, TickKeepsInv, TasksUnaware DEF PoolInv

\* A new reservation takes coins of the queue, and its client learns which.
LEMMA ReserveGasKeepsInv ==
  ASSUME PoolInv, NEW budget, NEW duration \in Nat, ReserveGas(budget, duration)
  PROVE  PoolInv'
<1> DEFINE id == nextReservationId'
           refs == [i \in DOMAIN Popped |->
                      [id |-> Popped[i].id, version |-> Popped[i].version]]
<1>1. /\ connected # {} /\ ReserveGasCoins(budget, duration)
      /\ granted' = [r \in DOMAIN granted \cup {id} |-> IF r = id THEN refs ELSE granted[r]]
      /\ UNCHANGED <<envVars, exec, unlocker>>
  BY Zenon DEF ReserveGas, Popped
<1>2. StorageInv'
  BY <1>1, ReserveKeepsInv DEF PoolInv
<1>3. /\ InRedis' = InRedis
      /\ id = nextReservationId + 1 /\ id \notin DOMAIN reservation
      /\ Popped \in Seq(GasCoin)
      /\ DOMAIN reservation' = DOMAIN reservation \cup {id}
      /\ reservation'[id] = Ids(Popped)
      /\ \A r \in DOMAIN reservation : reservation'[r] = reservation[r]
      /\ connected' = connected
  BY <1>1, ReserveMoves DEF PoolInv
<1>4. /\ refs \in Seq(ObjectRef) /\ Len(refs) = Len(Popped)
      /\ \A i \in 1..Len(Popped) : refs[i].id = Popped[i].id
  <2>1. DOMAIN Popped = 1..Len(Popped) /\ Len(Popped) \in Nat
    BY <1>3, LenProperties
  <2>2. \A i \in 1..Len(Popped) : Popped[i] \in GasCoin
    BY <1>3, ElementOfSeq
  <2>3. refs \in [1..Len(Popped) -> ObjectRef]
    BY <2>1, <2>2 DEF GasCoin, ObjectRef
  <2>4. refs \in Seq(ObjectRef) /\ Len(refs) = Len(Popped)
    BY <2>1, <2>3, SeqDef, LenProperties
  <2> QED BY <2>1, <2>4
<1>5. nextReservationId \in Nat /\ id \in Nat /\ id \notin DOMAIN exec /\ id \notin DOMAIN granted
  BY <1>3, StorageAssumption DEF PoolInv, TasksTypeOK, StorageInv, StorageTypeOK
<1> HIDE DEF refs
<1>6. Ids(refs) = Ids(Popped)
  BY <1>4 DEF Ids
<1>7. UNCHANGED <<exec, unlocker, chain, fullnode, network>>
  BY <1>1 DEF envVars
<1>8. DOMAIN granted' = DOMAIN granted \cup {id} /\ granted'[id] = refs
      /\ \A r \in DOMAIN granted : granted'[r] = granted[r]
  BY <1>1, <1>5
<1>9. TasksTypeOK'
  <2>1. \A r \in DOMAIN granted' : granted'[r] \in Seq(ObjectRef)
    BY <1>4, <1>8 DEF PoolInv, TasksTypeOK
  <2>2. granted' \in [DOMAIN granted' -> Seq(ObjectRef)]
    BY <1>1, <2>1
  <2>3. 1..nextReservationId \subseteq 1..nextReservationId' /\ id \in 1..nextReservationId'
    BY <1>3, <1>5
  <2>4. DOMAIN granted' \subseteq 1..nextReservationId' /\ DOMAIN exec' \subseteq 1..nextReservationId'
    BY <1>7, <1>8, <2>3 DEF PoolInv, TasksTypeOK
  <2>5. network' \subseteq [reservation : 1..nextReservationId', payment : Seq(ObjectRef)]
    BY <1>7, <2>3 DEF PoolInv, TasksTypeOK
  <2> QED BY <1>7, <2>2, <2>4, <2>5 DEF PoolInv, TasksTypeOK
<1>10. HoldersApart'
  <2>1. \A q \in DOMAIN exec' : HeldByExec(q)' \subseteq HeldByExec(q)
    BY <1>7 DEF HeldByExec, Ids
  <2>2. \A q \in Server : HeldByUnlocker(q)' \subseteq HeldByUnlocker(q)
    BY <1>7 DEF HeldByUnlocker, Ids
  <2> QED BY <1>3, <1>7, <2>1, <2>2, HoldersShrink DEF PoolInv
<1>11. TasksMatch'
  <2>1. \A r \in DOMAIN granted' \cap DOMAIN reservation' : Ids(granted'[r]) = reservation'[r]
    BY <1>3, <1>5, <1>6, <1>8 DEF PoolInv, TasksMatch
  <2>2. \A r \in DOMAIN granted' \cap DOMAIN reservation' : Ids(granted[r])' = reservation'[r]
    BY <2>1 DEF Ids
  <2>3. DOMAIN exec' \cap DOMAIN reservation' = {}
    BY <1>3, <1>5, <1>7 DEF PoolInv, TasksMatch
  <2> QED BY <1>3, <1>7, <2>2, <2>3 DEF PoolInv, TasksMatch
<1>12. ReturnsDistinct' /\ ChainTypeOK' /\ ChainFiled'
  BY <1>7 DEF PoolInv, ReturnsDistinct, DistinctIds, ChainTypeOK, ChainFiled
<1> QED BY <1>2, <1>9, <1>10, <1>11, <1>12 DEF PoolInv

\* A task gives the coins it returns to the queue, and ends.
LEMMA ReleaseCoinsKeepsInv ==
  ASSUME PoolInv, NEW r \in DOMAIN exec, ReleaseCoins(r)
  PROVE  PoolInv' /\ InRedis' = InRedis \cup HeldByExec(r)
<1> DEFINE coins == exec[r].coins
           S == DOMAIN exec \ {r}
<1>1. /\ exec[r].stage = "release" /\ AddNewCoins(coins)
      /\ exec' = Restrict(exec, S)
      /\ UNCHANGED <<envVars, granted, unlocker>>
  BY DEF ReleaseCoins
<1>2. exec[r] \in ExecTask /\ coins \in Seq(GasCoin)
  BY DEF PoolInv, TasksTypeOK, ExecTask
<1>3. HeldByExec(r) = Ids(coins) /\ DistinctIds(coins)
  BY <1>1 DEF HeldByExec, PoolInv, ReturnsDistinct
<1>4. Ids(coins) \cap InRedis = {} /\ connected # {}
  BY <1>3 DEF PoolInv, HoldersApart, TasksMatch
<1>5. StorageInv'
  BY <1>1, <1>2, <1>3, <1>4, AddKeepsInv DEF PoolInv
<1>6. /\ InRedis' = InRedis \cup HeldByExec(r)
      /\ UNCHANGED <<reservation, nextReservationId, connected>>
  BY <1>1, <1>2, <1>3, AddBringsIn DEF PoolInv
<1>7. /\ DOMAIN exec' = S
      /\ exec' \in [DOMAIN exec' -> ExecTask]
      /\ \A q \in S : exec'[q] = exec[q] /\ HeldByExec(q)' = HeldByExec(q)
  BY <1>1, TasksKept
<1>8. UNCHANGED <<granted, unlocker, chain, fullnode, network>>
  BY <1>1 DEF envVars
<1>9. TasksTypeOK' /\ ChainTypeOK' /\ ChainFiled'
  BY <1>6, <1>7, <1>8 DEF PoolInv, TasksTypeOK, ChainTypeOK, ChainFiled
<1>10. HoldersApart'
  <2>1. \A s \in Server : HeldByUnlocker(s)' = HeldByUnlocker(s)
    BY <1>8 DEF HeldByUnlocker, Ids
  <2> QED BY <1>6, <1>7, <2>1 DEF PoolInv, HoldersApart
<1>11. TasksMatch'
  <2>1. \A q \in DOMAIN granted : Ids(granted[q])' = Ids(granted[q])
    BY <1>8 DEF Ids
  <2> QED BY <1>6, <1>7, <1>8, <2>1 DEF PoolInv, TasksMatch
<1>12. ReturnsDistinct'
  BY <1>7, <1>8 DEF PoolInv, ReturnsDistinct, DistinctIds
<1> QED BY <1>5, <1>6, <1>9, <1>10, <1>11, <1>12 DEF PoolInv

\* An unlocker takes over the coins of the reservations that are due.
LEMMA UnlockerExpireKeepsInv ==
  ASSUME PoolInv, NEW s \in Server, UnlockerExpire(s)
  PROVE  PoolInv' /\ HeldByUnlocker(s)' = ExpiredIds /\ unlocker'[s].ids = ExpiredIds
<1>1. /\ s \in connected /\ unlocker[s].stage = "idle" /\ ExpireCoins
      /\ unlocker' = [unlocker EXCEPT
           ![s] = IF ExpiredIds = {} THEN Idle
                  ELSE [stage |-> "query", ids |-> ExpiredIds, coins |-> <<>>]]
      /\ UNCHANGED <<envVars, granted, exec>>
  BY DEF UnlockerExpire
<1>2. StorageInv'
  BY <1>1, ExpireKeepsInv DEF PoolInv
<1>3. /\ ExpiredIds \subseteq InRedis /\ ExpiredIds \cap InRedis' = {}
      /\ InRedis' \subseteq InRedis
      /\ DOMAIN reservation' \subseteq DOMAIN reservation
      /\ \A q \in DOMAIN reservation' : reservation'[q] = reservation[q]
      /\ UNCHANGED <<available, nextReservationId, connected>>
  BY <1>1, ExpireTakes DEF PoolInv
<1>4. ExpiredIds \in SUBSET ObjectID
  <2>1. \A q \in DOMAIN reservation : reservation[q] \subseteq ObjectID
    BY DEF PoolInv, StorageInv, StorageTypeOK
  <2> QED BY <2>1 DEF ExpiredIds
<1>5. unlocker \in [Server -> UnlockTask] /\ <<>> \in Seq(GasCoin)
  BY EmptySeq DEF PoolInv, TasksTypeOK
<1>6. /\ unlocker'[s] \in UnlockTask /\ unlocker'[s].ids = ExpiredIds
      /\ unlocker'[s].stage # "release"
      /\ unlocker'[s].stage = "idle" => ExpiredIds = {}
      /\ \A t \in Server : t # s => unlocker'[t] = unlocker[t]
      /\ unlocker' \in [Server -> UnlockTask]
  BY <1>1, <1>4, <1>5 DEF Idle, UnlockTask
<1>7. HeldByUnlocker(s)' = ExpiredIds
  BY <1>6 DEF HeldByUnlocker
<1>8. \A t \in Server : t # s => HeldByUnlocker(t)' = HeldByUnlocker(t)
  BY <1>6 DEF HeldByUnlocker, Ids
<1>9. UNCHANGED <<granted, exec, chain, fullnode, network>>
  BY <1>1 DEF envVars
<1>10. \A r \in DOMAIN exec : HeldByExec(r)' = HeldByExec(r)
  BY <1>9 DEF HeldByExec, Ids
<1>11. TasksTypeOK' /\ ChainTypeOK' /\ ChainFiled'
  BY <1>3, <1>6, <1>9 DEF PoolInv, TasksTypeOK, ChainTypeOK, ChainFiled
<1>12. HoldersApart'
  BY <1>3, <1>7, <1>8, <1>9, <1>10 DEF PoolInv, HoldersApart
<1>13. TasksMatch'
  <2>1. \A q \in DOMAIN granted : Ids(granted[q])' = Ids(granted[q])
    BY <1>9 DEF Ids
  <2>2. \A t \in Server : unlocker'[t].stage # "idle" => t \in connected'
    BY <1>1, <1>3, <1>6 DEF PoolInv, TasksMatch
  <2> QED BY <1>3, <1>9, <2>1, <2>2 DEF PoolInv, TasksMatch
<1>14. ReturnsDistinct'
  <2>1. \A t \in Server : unlocker'[t].stage = "release" => DistinctIds(unlocker'[t].coins)
    BY <1>6 DEF PoolInv, ReturnsDistinct
  <2>2. \A t \in Server : unlocker'[t].stage = "idle" => unlocker'[t].ids = {}
    BY <1>6 DEF PoolInv, ReturnsDistinct
  <2> QED BY <1>9, <2>1, <2>2 DEF PoolInv, ReturnsDistinct, DistinctIds
<1> QED BY <1>2, <1>6, <1>7, <1>11, <1>12, <1>13, <1>14 DEF PoolInv

\* An unlocker gives the coins it returns to the queue, and goes back to sleep.
LEMMA UnlockerReleaseKeepsInv ==
  ASSUME PoolInv, NEW s \in Server, UnlockerRelease(s)
  PROVE  PoolInv' /\ InRedis' = InRedis \cup HeldByUnlocker(s)
<1> DEFINE coins == unlocker[s].coins
<1>1. /\ unlocker[s].stage = "release" /\ AddNewCoins(coins)
      /\ unlocker' = [unlocker EXCEPT ![s] = Idle]
      /\ UNCHANGED <<envVars, granted, exec>>
  BY DEF UnlockerRelease
<1>2. unlocker \in [Server -> UnlockTask] /\ coins \in Seq(GasCoin) /\ <<>> \in Seq(GasCoin)
  BY EmptySeq DEF PoolInv, TasksTypeOK, UnlockTask
<1>3. HeldByUnlocker(s) = Ids(coins) /\ DistinctIds(coins)
  BY <1>1 DEF HeldByUnlocker, PoolInv, ReturnsDistinct
<1>4. Ids(coins) \cap InRedis = {} /\ connected # {}
  BY <1>1, <1>3 DEF PoolInv, HoldersApart, TasksMatch
<1>5. StorageInv'
  BY <1>1, <1>2, <1>3, <1>4, AddKeepsInv DEF PoolInv
<1>6. /\ InRedis' = InRedis \cup HeldByUnlocker(s)
      /\ UNCHANGED <<reservation, nextReservationId, connected>>
  BY <1>1, <1>2, <1>3, AddBringsIn DEF PoolInv
<1>7. /\ unlocker'[s] = Idle
      /\ \A t \in Server : t # s => unlocker'[t] = unlocker[t]
      /\ unlocker' \in [Server -> UnlockTask]
  BY <1>1, <1>2 DEF UnlockTask, Idle
<1>8. HeldByUnlocker(s)' = {}
  BY <1>7 DEF HeldByUnlocker, Idle
<1>9. \A t \in Server : t # s => HeldByUnlocker(t)' = HeldByUnlocker(t)
  BY <1>7 DEF HeldByUnlocker, Ids
<1>10. UNCHANGED <<granted, exec, chain, fullnode, network>>
  BY <1>1 DEF envVars
<1>11. \A r \in DOMAIN exec : HeldByExec(r)' = HeldByExec(r)
  BY <1>10 DEF HeldByExec, Ids
<1>12. TasksTypeOK' /\ ChainTypeOK' /\ ChainFiled'
  BY <1>6, <1>7, <1>10 DEF PoolInv, TasksTypeOK, ChainTypeOK, ChainFiled
<1>13. HoldersApart'
  BY <1>6, <1>8, <1>9, <1>10, <1>11 DEF PoolInv, HoldersApart
<1>14. TasksMatch'
  <2>1. \A q \in DOMAIN granted : Ids(granted[q])' = Ids(granted[q])
    BY <1>10 DEF Ids
  <2>2. \A t \in Server : unlocker'[t].stage # "idle" => t \in connected'
    BY <1>6, <1>7 DEF PoolInv, TasksMatch, Idle
  <2> QED BY <1>6, <1>10, <2>1, <2>2 DEF PoolInv, TasksMatch
<1>15. ReturnsDistinct'
  <2>1. \A t \in Server : unlocker'[t].stage = "release" => DistinctIds(unlocker'[t].coins)
    BY <1>7 DEF PoolInv, ReturnsDistinct, Idle
  <2>2. \A t \in Server : unlocker'[t].stage = "idle" => unlocker'[t].ids = {}
    BY <1>7 DEF PoolInv, ReturnsDistinct, Idle
  <2> QED BY <1>10, <2>1, <2>2 DEF PoolInv, ReturnsDistinct, DistinctIds
<1> QED BY <1>5, <1>6, <1>12, <1>13, <1>14, <1>15 DEF PoolInv

\* A server dies, and its tasks with it.
LEMMA CrashKeepsInv ==
  ASSUME PoolInv, NEW s \in Server, Crash(s)
  PROVE  /\ PoolInv' /\ InRedis' = InRedis
         /\ connected' = connected \ {s} /\ s \in connected
         /\ DOMAIN exec' = DOMAIN exec \ ExecsOf(s)
         /\ \A r \in DOMAIN exec' : HeldByExec(r)' = HeldByExec(r)
         /\ \A t \in Server \ {s} : HeldByUnlocker(t)' = HeldByUnlocker(t)
<1> DEFINE S == DOMAIN exec \ ExecsOf(s)
<1>1. /\ Disconnect(s) /\ exec' = Restrict(exec, S)
      /\ unlocker' = [unlocker EXCEPT ![s] = Idle]
      /\ network' = network \cup {Sent(r) : r \in {q \in ExecsOf(s) : exec[q].stage = "funded"}}
      /\ UNCHANGED <<chain, fullnode, granted>>
  BY DEF Crash
<1>2. StorageInv'
  BY <1>1, ConnectionKeepsInv DEF PoolInv
<1>3. /\ UNCHANGED <<available, reservation, nextReservationId>>
      /\ connected' = connected \ {s} /\ s \in connected
  BY <1>1 DEF Disconnect
<1>4. InRedis' = InRedis
  BY <1>3 DEF InRedis, ReservedIds, Ids
<1>5. /\ DOMAIN exec' = S
      /\ exec' \in [DOMAIN exec' -> ExecTask]
      /\ \A q \in S : exec'[q] = exec[q] /\ HeldByExec(q)' = HeldByExec(q)
  BY <1>1, TasksKept
<1>6. unlocker \in [Server -> UnlockTask] /\ <<>> \in Seq(GasCoin)
  BY EmptySeq DEF PoolInv, TasksTypeOK
<1>7. /\ unlocker'[s] = Idle
      /\ \A t \in Server : t # s => unlocker'[t] = unlocker[t]
      /\ unlocker' \in [Server -> UnlockTask]
  BY <1>1, <1>6 DEF UnlockTask, Idle
<1>8. HeldByUnlocker(s)' = {}
  BY <1>7 DEF HeldByUnlocker, Idle
<1>9. \A t \in Server : t # s => HeldByUnlocker(t)' = HeldByUnlocker(t)
  BY <1>7 DEF HeldByUnlocker, Ids
<1>10. TasksTypeOK'
  <2>1. \A r \in DOMAIN exec : exec[r] \in ExecTask /\ r \in 1..nextReservationId
    BY DEF PoolInv, TasksTypeOK
  <2>2. \A r \in DOMAIN exec :
          Sent(r) \in [reservation : 1..nextReservationId, payment : Seq(ObjectRef)]
    BY <2>1 DEF Sent, ExecTask
  <2>3. network' \subseteq [reservation : 1..nextReservationId, payment : Seq(ObjectRef)]
    BY <1>1, <2>2 DEF PoolInv, TasksTypeOK, ExecsOf
  <2> QED BY <1>1, <1>3, <1>5, <1>7, <2>3 DEF PoolInv, TasksTypeOK
<1>11. HoldersApart'
  <2>1. \A t \in Server : HeldByUnlocker(t)' \subseteq HeldByUnlocker(t)
    BY <1>8, <1>9
  <2> QED BY <1>4, <1>5, <2>1, HoldersShrink DEF PoolInv
<1>12. TasksMatch'
  <2>1. \A q \in DOMAIN granted : Ids(granted[q])' = Ids(granted[q])
    BY <1>1 DEF Ids
  <2>2. \A t \in Server : unlocker'[t].stage # "idle" => t \in connected'
    BY <1>3, <1>7 DEF PoolInv, TasksMatch, Idle
  <2>3. \A r \in DOMAIN exec' : exec'[r].server \in connected'
    BY <1>3, <1>5 DEF PoolInv, TasksMatch, ExecsOf
  <2> QED BY <1>1, <1>3, <1>5, <2>1, <2>2, <2>3 DEF PoolInv, TasksMatch
<1>13. ReturnsDistinct'
  <2>1. \A t \in Server : unlocker'[t].stage = "release" => DistinctIds(unlocker'[t].coins)
    BY <1>7 DEF PoolInv, ReturnsDistinct, Idle
  <2>2. \A t \in Server : unlocker'[t].stage = "idle" => unlocker'[t].ids = {}
    BY <1>7 DEF PoolInv, ReturnsDistinct, Idle
  <2> QED BY <1>5, <2>1, <2>2 DEF PoolInv, ReturnsDistinct, DistinctIds
<1>14. ChainTypeOK' /\ ChainFiled'
  BY <1>1 DEF PoolInv, ChainTypeOK, ChainFiled
<1> QED BY <1>2, <1>3, <1>4, <1>5, <1>9, <1>10, <1>11, <1>12, <1>13, <1>14 DEF PoolInv

\* A transaction nobody waits for lands or is dropped, or the fullnode catches up.
LEMMA ChainStepKeepsInv ==
  ASSUME PoolInv,
         \/ \E tx \in network : (\E usage \in Usage : LandLate(tx, usage)) \/ DropLate(tx)
         \/ FullnodeCatchUp
  PROVE  PoolInv'
<1>1. ASSUME NEW tx \in network, NEW usage \in Usage, LandLate(tx, usage) PROVE PoolInv'
  <2>1. tx.payment \in Seq(ObjectRef)
    BY DEF PoolInv, TasksTypeOK
  <2>2. /\ Land(tx.payment, usage) /\ network' \subseteq network
        /\ UNCHANGED <<storageVars, taskVars>>
    BY <1>1 DEF LandLate
  <2>3. ChainTypeOK' /\ ChainFiled'
    BY <2>1, <2>2, LandChanges DEF PoolInv
  <2> QED BY <2>2, <2>3, EnvironmentKeepsInv
<1>2. ASSUME NEW tx \in network, DropLate(tx) PROVE PoolInv'
  <2>1. /\ network' \subseteq network
        /\ UNCHANGED <<storageVars, taskVars>> /\ UNCHANGED <<chain, fullnode>>
    BY <1>2 DEF DropLate
  <2>2. ChainTypeOK' /\ ChainFiled'
    BY <2>1 DEF PoolInv, ChainTypeOK, ChainFiled
  <2> QED BY <2>1, <2>2, EnvironmentKeepsInv
<1>3. CASE FullnodeCatchUp
  <2>1. /\ fullnode' = chain /\ UNCHANGED <<chain, network>>
        /\ UNCHANGED <<storageVars, taskVars>>
    BY <1>3 DEF FullnodeCatchUp
  <2>2. ChainTypeOK' /\ ChainFiled'
    BY <2>1 DEF PoolInv, ChainTypeOK, ChainFiled
  <2> QED BY <2>1, <2>2, EnvironmentKeepsInv
<1> QED BY <1>1, <1>2, <1>3

\* Every step of the pool keeps the invariant.
LEMMA NextKeepsInv ==
  ASSUME CoinsTracked, PoolInv, [Next]_vars
  PROVE  PoolInv'
<1>1. ASSUME NEW budget \in Budget, NEW duration \in Duration, ReserveGas(budget, duration)
      PROVE  PoolInv'
  <2>1. duration \in Nat
    BY StorageAssumption
  <2> QED BY <1>1, <2>1, ReserveGasKeepsInv
<1>2. ASSUME NEW s \in Server, NEW r \in DOMAIN reservation,
             NEW payment \in Payments(r), StartExecution(s, r, payment)
      PROVE  PoolInv'
  BY <1>2, StartExecutionKeepsInv
<1>3. ASSUME NEW s \in Server, NEW r, StartReplyLost(s, r) \/ ExpireReplyLost(s)
      PROVE  PoolInv'
  BY <1>3, ReplyLostKeepsInv
<1>4. ASSUME NEW r \in DOMAIN exec, ExecStep(r) PROVE PoolInv'
  <2>1. ~ReleaseReplyLost(r)
    BY DEF CoinsTracked, ReleaseReplyLost
  <2> QED BY <1>4, <2>1, ReadTotalBalanceKeepsInv, FailExecutionKeepsInv,
            ExecuteTransactionKeepsInv, QueryLatestKeepsInv, ReleaseCoinsKeepsInv
      DEF ExecStep
<1>5. ASSUME NEW s \in Server, UnlockerStep(s) PROVE PoolInv'
  <2>1. ~UnlockerReplyLost(s)
    BY DEF CoinsTracked, UnlockerReplyLost
  <2> QED BY <1>3, <1>5, <2>1, UnlockerExpireKeepsInv, UnlockerQueryKeepsInv,
            UnlockerReleaseKeepsInv
      DEF UnlockerStep
<1>6. CASE Environment
  BY <1>6, ChainStepKeepsInv, CrashKeepsInv, RestartKeepsInv, PassTimeKeepsInv DEF Environment
<1>7. CASE UNCHANGED vars
  <2>1. UNCHANGED <<storageVars, taskVars>> /\ UNCHANGED <<chain, fullnode, network>>
    BY <1>7 DEF vars, envVars
  <2>2. ChainTypeOK' /\ ChainFiled'
    BY <2>1 DEF PoolInv, ChainTypeOK, ChainFiled
  <2> QED BY <2>1, <2>2, EnvironmentKeepsInv
<1>8. CASE ClientRequest
  BY <1>1, <1>2, <1>3, <1>8 DEF ClientRequest
<1> QED BY <1>4, <1>5, <1>6, <1>7, <1>8 DEF Next

\* The initialised pool.
LEMMA InitGivesInv ==
  ASSUME Init
  PROVE  PoolInv
<1>1. PICK order \in SetToSeqs(ObjectID) :
        available = [i \in DOMAIN order |->
                       [id |-> order[i], version |-> 1, balance |-> InitialBalance]]
  BY Zenon DEF Init
<1> DEFINE n == Cardinality(ObjectID)
<1>2. n \in Nat
  BY PoolAssumption, FS_CardinalityType
<1>3. order \in [1..n -> ObjectID] /\ \A i, j \in 1..n : i # j => order[i] # order[j]
  BY <1>1 DEF SetToSeqs
<1> HIDE DEF n
<1>4. /\ available \in [1..n -> GasCoin]
      /\ \A i \in 1..n : available[i].id = order[i]
  BY <1>1, <1>3, PoolAssumption DEF GasCoin
<1>5. available \in Seq(GasCoin) /\ Len(available) = n
  BY <1>2, <1>4, SeqDef, LenProperties
<1>6. /\ coinCount = Len(available) /\ totalBalance = Balance(available)
      /\ nextReservationId = 0 /\ initialized = TRUE /\ connected = Server
      /\ unlocker = [s \in Server |-> Idle] /\ network = {} /\ fullnode = chain
      /\ chain = [c \in ObjectID |-> [id |-> c, version |-> 1, balance |-> InitialBalance]]
  BY DEF Init
<1>7. /\ reservation = [r \in {} |-> {}] /\ expirationQueue = [r \in {} |-> 0]
      /\ granted = [r \in {} |-> <<>>]
      /\ exec = [r \in {} |-> <<>>]
  <2>1. 1..0 = {} /\ <<>> = [r \in {} |-> {}] /\ <<>> = [r \in {} |-> 0] /\ <<>> = [r \in {} |-> <<>>]
    OBVIOUS
  <2> QED BY <2>1 DEF Init
<1>8. StorageTypeOK
  <2>1. /\ reservation \in [DOMAIN reservation -> SUBSET ObjectID] /\ DOMAIN reservation = {}
        /\ expirationQueue \in [DOMAIN expirationQueue -> Nat] /\ DOMAIN expirationQueue = {}
    BY <1>7
  <2>2. coinCount \in Nat \cup {Nil} /\ connected \subseteq Server /\ initialized \in BOOLEAN
    BY <1>2, <1>5, <1>6
  <2>3. nextReservationId \in 0..MaxReservations
    BY <1>6, StorageAssumption
  <2> QED BY <1>5, <2>1, <2>2, <2>3, Zenon DEF StorageTypeOK
<1>9. CountMatchesList /\ BalanceMatchesList
  <2>1. coinCount # Nil
    BY <1>2, <1>5, <1>6, StorageAssumption
  <2>2. Balance(available) \in Int
    BY <1>5, BalanceIsInt
  <2>3. totalBalance # Nil
    BY <1>6, <2>2, StorageAssumption
  <2> QED BY <1>6, <2>1, <2>3 DEF CountMatchesList, BalanceMatchesList
<1>10. NoCoinInTwoPlaces
  <2>1. \A i, j \in 1..Len(available) : available[i].id = available[j].id => i = j
    BY <1>3, <1>4, <1>5
  <2>2. ReservedIds = {} /\ CoinToOneCaller
    BY <1>7 DEF ReservedIds, CoinToOneCaller
  <2> QED BY <2>1, <2>2 DEF NoCoinInTwoPlaces
<1>11. StorageInv
  BY <1>7, <1>8, <1>9, <1>10 DEF StorageInv, LiveReservationScheduled
<1>12. \A c \in ObjectID : chain[c] \in GasCoin /\ chain[c].id = c /\ chain[c] # Nil
  BY <1>6, PoolAssumption DEF GasCoin
<1>13. ChainTypeOK /\ ChainFiled
  <2>1. chain \in [ObjectID -> GasCoin \cup {Nil}]
    BY <1>6, <1>12
  <2> QED BY <1>6, <1>12, <2>1 DEF ChainTypeOK, ChainFiled
<1>14. /\ DOMAIN granted = {} /\ granted \in [DOMAIN granted -> Seq(ObjectRef)]
       /\ DOMAIN exec = {} /\ exec \in [DOMAIN exec -> ExecTask]
  BY <1>7
<1>15. /\ Idle \in UnlockTask /\ Idle.stage = "idle" /\ Idle.ids = {}
       /\ unlocker \in [Server -> UnlockTask]
  <2>1. Idle \in UnlockTask
    BY EmptySeq DEF Idle, UnlockTask
  <2> QED BY <1>6, <2>1 DEF Idle
<1>16. TasksTypeOK
  BY <1>6, <1>14, <1>15 DEF TasksTypeOK
<1>17. \A s \in Server : unlocker[s] = Idle /\ HeldByUnlocker(s) = {}
  BY <1>6, <1>15 DEF HeldByUnlocker
<1>18. HoldersApart
  BY <1>14, <1>17 DEF HoldersApart
<1>19. TasksMatch /\ ReturnsDistinct
  BY <1>14, <1>15, <1>17 DEF TasksMatch, ReturnsDistinct
<1> QED BY <1>11, <1>13, <1>16, <1>18, <1>19 DEF PoolInv

-----------------------------------------------------------------------------
(* Theorems *)

\* PoolInv is inductive, for any set of servers, any coins and any of the faults
\* crash, timeout, fullnode_lag, lost_take_reply and incomplete_payment.
THEOREM PoolInvariant == CoinsTracked => (Spec => []PoolInv)
<1> SUFFICES ASSUME CoinsTracked PROVE Spec => []PoolInv
  OBVIOUS
<1>1. Init => PoolInv
  BY InitGivesInv
<1>2. PoolInv /\ [Next]_vars => PoolInv'
  BY NextKeepsInv
<1> QED BY <1>1, <1>2, PTL DEF Spec

LEMMA InvGivesTypes == PoolInv => TypeOK
BY DEF PoolInv, TypeOK, StorageInv, ChainTypeOK, TasksTypeOK

LEMMA InvGivesOneHolder == PoolInv => OneHolder
<1> SUFFICES ASSUME PoolInv PROVE OneHolder
  OBVIOUS
<1>1. NoCoinInTwoPlaces
  BY DEF PoolInv, StorageInv
<1>2. HeldByTasks \cap InRedis = {}
  <2>1. /\ \A r \in DOMAIN exec : HeldByExec(r) \cap InRedis = {}
        /\ \A s \in Server : HeldByUnlocker(s) \cap InRedis = {}
    BY DEF PoolInv, HoldersApart
  <2> QED BY <2>1 DEF HeldByTasks
<1>3. /\ \A r, q \in DOMAIN exec : HeldByExec(r) \cap HeldByExec(q) # {} => r = q
      /\ \A s, t \in Server : HeldByUnlocker(s) \cap HeldByUnlocker(t) # {} => s = t
      /\ \A r \in DOMAIN exec, s \in Server : HeldByExec(r) \cap HeldByUnlocker(s) = {}
  BY DEF PoolInv, HoldersApart
<1> QED BY <1>1, <1>2, <1>3 DEF OneHolder

\* Redis, the tasks of every server, the chain and the network keep their types.
THEOREM PoolTypeCorrect == CoinsTracked => (Spec => []TypeOK)
BY PoolInvariant, InvGivesTypes, PTL

\* No step of any server, in any order, gives a coin a second holder.
THEOREM CoinsHaveOneHolder == CoinsTracked => (Spec => []OneHolder)
BY PoolInvariant, InvGivesOneHolder, PTL

\* What a step may do to a reservation.
EndsOnce ==
  \A r \in DOMAIN reservation \ DOMAIN reservation' :
    \/ r \in DOMAIN exec' \ DOMAIN exec
    \/ /\ expirationQueue[r] = 0
       /\ \E s \in Server : /\ unlocker[s].stage = "idle"
                          /\ reservation[r] \subseteq unlocker'[s].ids

LEMMA StepEndsOnce ==
  ASSUME CoinsTracked, "lost_take_reply" \notin Faults, PoolInv, [Next]_vars
  PROVE  EndsOnce
<1> USE DEF EndsOnce
<1>1. CASE UNCHANGED reservation
  BY <1>1
<1>2. ASSUME NEW budget \in Budget, NEW duration \in Duration, ReserveGas(budget, duration)
      PROVE  EndsOnce
  BY <1>2, ReserveMoves DEF ReserveGas, PoolInv
<1>3. ASSUME NEW s \in Server, NEW r \in DOMAIN reservation,
             NEW payment \in Payments(r), StartExecution(s, r, payment)
      PROVE  EndsOnce
  <2>1. ReadyForExecution(r) /\ DOMAIN exec' = DOMAIN exec \cup {r}
    BY <1>3 DEF StartExecution
  <2>2. DOMAIN reservation \ DOMAIN reservation' \subseteq {r}
    BY <2>1, ReadyTakes DEF PoolInv
  <2>3. r \notin DOMAIN exec
    BY <1>3, StartExecutionKeepsInv
  <2> QED BY <2>1, <2>2, <2>3
<1>4. ASSUME NEW s \in Server, UnlockerExpire(s) PROVE EndsOnce
  <2>1. ExpireCoins /\ unlocker[s].stage = "idle"
    BY <1>4 DEF UnlockerExpire
  <2>2. unlocker'[s].ids = ExpiredIds
    BY <1>4, UnlockerExpireKeepsInv
  <2>3. \A q \in DOMAIN reservation \ DOMAIN reservation' :
          expirationQueue[q] = 0 /\ reservation[q] \subseteq ExpiredIds
    BY <2>1, ExpireTakes DEF PoolInv
  <2> QED BY <2>1, <2>2, <2>3
<1>5. ASSUME NEW r \in DOMAIN exec, ExecStep(r) PROVE UNCHANGED reservation
  BY <1>5 DEF ExecStep, ReadTotalBalance, FailExecution, ExecuteTransaction, SubmitTimeout,
       QueryLatest, ReleaseCoins, ReleaseReplyLost, AddNewCoins, storageVars
<1>6. ASSUME NEW s \in Server, UnlockerStep(s), ~UnlockerExpire(s) PROVE UNCHANGED reservation
  BY <1>6 DEF UnlockerStep, ExpireReplyLost, UnlockerQuery, UnlockerRelease,
       UnlockerReplyLost, AddNewCoins, storageVars
<1>7. CASE Environment
  BY <1>1, <1>7 DEF Environment, LandLate, DropLate, FullnodeCatchUp, Crash, Disconnect,
       Restart, ConnectStorage, PassTime, Tick, storageVars
<1>8. CASE UNCHANGED vars
  BY <1>1, <1>8 DEF vars, storageVars
<1>9. CASE ClientRequest
  BY <1>2, <1>3, <1>9 DEF ClientRequest, StartReplyLost
<1> QED BY <1>1, <1>4, <1>5, <1>6, <1>7, <1>8, <1>9 DEF Next

\* A reservation ends once and for one reason, as long as no reply of the scripts
\* that end it is lost.
THEOREM ReservationsEndOnce ==
  CoinsTracked /\ "lost_take_reply" \notin Faults => (Spec => ReservationEndsOnce)
<1> SUFFICES ASSUME CoinsTracked, "lost_take_reply" \notin Faults
             PROVE  Spec => [][EndsOnce]_vars
  BY DEF ReservationEndsOnce, EndsOnce
<1>1. PoolInv /\ [Next]_vars => [EndsOnce]_vars
  BY StepEndsOnce
<1>2. Spec => []PoolInv
  BY PoolInvariant
<1> QED BY <1>1, <1>2, PTL DEF Spec

-----------------------------------------------------------------------------
(* No coin is lost but by a crash *)

\* A submission may fail or hang, a server may die and the fullnode may lag, but
\* every script's reply arrives and every client pays with its whole reservation.
RepliesArrive == Faults \subseteq {"crash", "timeout", "fullnode_lag"}

Owned == InRedis \cup HeldByTasks

\* Nothing is stranded when every live coin of every holder has a holder again.
LEMMA CoinsStay ==
  ASSUME \A c \in ObjectID : chain'[c] # Nil => chain[c] # Nil,
         \A c \in InRedis : c \in Owned',
         \A r \in DOMAIN exec : \A c \in HeldByExec(r) : chain'[c] # Nil => c \in Owned',
         \A s \in Server : \A c \in HeldByUnlocker(s) : chain'[c] # Nil => c \in Owned'
  PROVE  Stranded' \subseteq Stranded
<1>1. \A c \in Owned : chain'[c] # Nil => c \in Owned'
  BY DEF Owned, HeldByTasks
<1> QED BY <1>1 DEF Stranded, Live, Owned

LEMMA HeldIsOwned ==
  /\ \A c \in InRedis' : c \in Owned'
  /\ \A r \in DOMAIN exec' : \A c \in HeldByExec(r)' : c \in Owned'
  /\ \A s \in Server : \A c \in HeldByUnlocker(s)' : c \in Owned'
<1>1. /\ \A r \in DOMAIN exec' : \A c \in HeldByExec(r)' : c \in HeldByTasks'
      /\ \A s \in Server : \A c \in HeldByUnlocker(s)' : c \in HeldByTasks'
  BY DEF HeldByTasks
<1> QED BY <1>1 DEF Owned

\* A task keeps its coins until it knows that they are gone or returns them.
LEMMA ExecStepKeepsCoins ==
  ASSUME PoolInv, RepliesArrive, NEW r \in DOMAIN exec, ExecStep(r)
  PROVE  Stranded' \subseteq Stranded
<1>1. \A s \in Server : UNCHANGED unlocker => HeldByUnlocker(s)' = HeldByUnlocker(s)
  BY DEF HeldByUnlocker, Ids
<1>2. \A q \in DOMAIN exec : exec'[q] = exec[q] => HeldByExec(q)' = HeldByExec(q)
  BY DEF HeldByExec, Ids
<1>3. \A q \in DOMAIN exec : exec[q] \in ExecTask
  BY DEF PoolInv, TasksTypeOK
<1>4. ASSUME UNCHANGED <<storageVars, chain, unlocker>>, DOMAIN exec' = DOMAIN exec,
             \A q \in DOMAIN exec : q # r => exec'[q] = exec[q],
             \A c \in HeldByExec(r) : chain[c] # Nil => c \in HeldByExec(r)'
      PROVE  Stranded' \subseteq Stranded
  <2>1. InRedis' = InRedis
    BY <1>4, StorageStutter DEF PoolInv
  <2> QED BY <1>1, <1>2, <1>4, <2>1, CoinsStay, HeldIsOwned
<1>5. ASSUME ReadTotalBalance(r) \/ FailExecution(r) \/ SubmitTimeout(r)
      PROVE  Stranded' \subseteq Stranded
  <2>1. /\ UNCHANGED <<storageVars, chain, unlocker>> /\ DOMAIN exec' = DOMAIN exec
        /\ \A q \in DOMAIN exec : q # r => exec'[q] = exec[q]
        /\ exec[r].stage # "release" /\ exec'[r].stage # "release"
        /\ exec'[r].payment = exec[r].payment
    BY <1>3, <1>5 DEF ReadTotalBalance, FailExecution, SubmitTimeout, envVars, ExecTask
  <2>2. HeldByExec(r)' = HeldByExec(r)
    BY <2>1 DEF HeldByExec, Ids
  <2> QED BY <1>4, <2>1, <2>2
<1>6. ASSUME NEW usage \in Usage, ExecuteTransaction(r, usage)
      PROVE  Stranded' \subseteq Stranded
  <2>1. /\ Land(exec[r].payment, usage) /\ UNCHANGED <<storageVars, unlocker>>
        /\ DOMAIN exec' = DOMAIN exec /\ exec[r].stage = "funded"
        /\ \A q \in DOMAIN exec : q # r => exec'[q] = exec[q]
    BY <1>3, <1>6 DEF ExecuteTransaction, ExecTask
  <2>2. HeldByExec(r)' = {exec[r].payment[1].id}
    BY <1>6, ExecuteTransactionKeepsInv
  <2>3. HeldByExec(r) = Ids(exec[r].payment)
    BY <2>1 DEF HeldByExec
  <2>4. exec[r].payment \in Seq(ObjectRef)
    BY <1>3 DEF ExecTask
  <2>5. /\ \A c \in Ids(exec[r].payment) :
             chain[c] # Nil /\ (chain'[c] # Nil => c = exec[r].payment[1].id)
        /\ \A c \in ObjectID \ Ids(exec[r].payment) : chain'[c] = chain[c]
    BY <2>1, <2>4, LandChanges DEF PoolInv
  <2>6. InRedis' = InRedis
    BY <2>1, StorageStutter DEF PoolInv
  <2> QED BY <1>1, <1>2, <2>1, <2>2, <2>3, <2>5, <2>6, CoinsStay, HeldIsOwned
<1>7. ASSUME QueryLatest(r) PROVE Stranded' \subseteq Stranded
  <2>1. HeldByExec(r)' = {c \in HeldByExec(r) : fullnode[c] # Nil}
    BY <1>7, QueryLatestKeepsInv
  <2>2. /\ UNCHANGED <<storageVars, chain, unlocker>> /\ DOMAIN exec' = DOMAIN exec
        /\ \A q \in DOMAIN exec : q # r => exec'[q] = exec[q]
        /\ exec[r].stage = "failed"
    BY <1>3, <1>7 DEF QueryLatest, envVars, ExecTask
  <2>3. HeldByExec(r) \subseteq ObjectID
    BY <1>3, <2>2, IdsOfRefs DEF HeldByExec, ExecTask
  <2>4. \A c \in HeldByExec(r) : chain[c] # Nil => c \in HeldByExec(r)'
    BY <2>1, <2>3 DEF PoolInv, ChainFiled
  <2> QED BY <1>4, <2>2, <2>4
<1>8. ASSUME ReleaseCoins(r) PROVE Stranded' \subseteq Stranded
  <2>1. InRedis' = InRedis \cup HeldByExec(r)
    BY <1>8, ReleaseCoinsKeepsInv
  <2>2. exec' = Restrict(exec, DOMAIN exec \ {r}) /\ UNCHANGED <<chain, unlocker>>
    BY <1>8 DEF ReleaseCoins, envVars
  <2>3. \A q \in DOMAIN exec : q # r => q \in DOMAIN exec' /\ HeldByExec(q)' = HeldByExec(q)
    <3> DEFINE S == DOMAIN exec \ {r}
    <3>1. DOMAIN exec' = S /\ \A q \in S : HeldByExec(q)' = HeldByExec(q)
      BY <2>2, TasksKept
    <3> QED BY <3>1
  <2> QED BY <1>1, <2>1, <2>2, <2>3, CoinsStay, HeldIsOwned
<1>9. ~ReleaseReplyLost(r)
  BY DEF RepliesArrive, ReleaseReplyLost
<1> QED BY <1>5, <1>6, <1>7, <1>8, <1>9 DEF ExecStep

LEMMA UnlockerStepKeepsCoins ==
  ASSUME PoolInv, RepliesArrive, NEW s \in Server, UnlockerStep(s)
  PROVE  Stranded' \subseteq Stranded
<1>1. UNCHANGED <<exec, chain>>
  BY DEF UnlockerStep, UnlockerExpire, ExpireReplyLost, UnlockerQuery, UnlockerRelease,
         UnlockerReplyLost, envVars, taskVars
<1>2. \A q \in DOMAIN exec : HeldByExec(q)' = HeldByExec(q)
  BY <1>1 DEF HeldByExec, Ids
<1>3. \A t \in Server : unlocker'[t] = unlocker[t] => HeldByUnlocker(t)' = HeldByUnlocker(t)
  BY DEF HeldByUnlocker, Ids
<1>4. \A t \in Server : t # s => unlocker'[t] = unlocker[t]
  BY DEF UnlockerStep, UnlockerExpire, ExpireReplyLost, UnlockerQuery, UnlockerRelease,
         UnlockerReplyLost, taskVars, PoolInv, TasksTypeOK
<1>5. ASSUME InRedis \subseteq InRedis' \cup HeldByUnlocker(s)',
             \A c \in HeldByUnlocker(s) : chain[c] # Nil => c \in InRedis' \cup HeldByUnlocker(s)'
      PROVE  Stranded' \subseteq Stranded
  BY <1>1, <1>2, <1>3, <1>4, <1>5, CoinsStay, HeldIsOwned
<1>6. CASE UnlockerExpire(s)
  <2>1. HeldByUnlocker(s)' = ExpiredIds
    BY <1>6, UnlockerExpireKeepsInv
  <2>2. ExpireCoins /\ unlocker[s].stage = "idle"
    BY <1>6 DEF UnlockerExpire
  <2>3. InRedis = InRedis' \cup ExpiredIds
    BY <2>2, ExpireTakes DEF PoolInv
  <2>4. HeldByUnlocker(s) = {}
    BY <2>2 DEF PoolInv, ReturnsDistinct, HeldByUnlocker
  <2> QED BY <1>5, <2>1, <2>3, <2>4
<1>7. CASE UnlockerQuery(s)
  <2>1. HeldByUnlocker(s)' = {c \in HeldByUnlocker(s) : fullnode[c] # Nil}
    BY <1>7, UnlockerQueryKeepsInv
  <2>2. unlocker[s].stage = "query" /\ UNCHANGED storageVars
    BY <1>7 DEF UnlockerQuery
  <2>3. HeldByUnlocker(s) \subseteq ObjectID
    BY <2>2 DEF HeldByUnlocker, PoolInv, TasksTypeOK, UnlockTask
  <2>4. \A c \in HeldByUnlocker(s) : chain[c] # Nil => c \in HeldByUnlocker(s)'
    BY <2>1, <2>3 DEF PoolInv, ChainFiled
  <2>5. InRedis' = InRedis
    BY <2>2, StorageStutter DEF PoolInv
  <2> QED BY <1>5, <2>4, <2>5
<1>8. CASE UnlockerRelease(s)
  BY <1>5, <1>8, UnlockerReleaseKeepsInv
<1>9. ~UnlockerReplyLost(s) /\ ~ExpireReplyLost(s)
  BY DEF RepliesArrive, UnlockerReplyLost, ExpireReplyLost
<1> QED BY <1>6, <1>7, <1>8, <1>9 DEF UnlockerStep

LEMMA ClientKeepsCoins ==
  ASSUME PoolInv, RepliesArrive, ClientRequest
  PROVE  Stranded' \subseteq Stranded
<1>1. CoinsTracked
  BY DEF RepliesArrive, CoinsTracked
<1>2. UNCHANGED unlocker /\ UNCHANGED chain
  BY DEF ClientRequest, ReserveGas, StartExecution, StartReplyLost, envVars, taskVars
<1>3. \A s \in Server : HeldByUnlocker(s)' = HeldByUnlocker(s)
  BY <1>2 DEF HeldByUnlocker, Ids
<1>4. \A q \in DOMAIN exec : exec'[q] = exec[q] => HeldByExec(q)' = HeldByExec(q)
  BY DEF HeldByExec, Ids
<1>5. ASSUME NEW budget, NEW duration, ReserveGas(budget, duration)
      PROVE  Stranded' \subseteq Stranded
  <2>1. ReserveGasCoins(budget, duration) /\ UNCHANGED exec
    BY <1>5 DEF ReserveGas
  <2>2. InRedis' = InRedis
    BY <2>1, ReserveMoves DEF PoolInv
  <2> QED BY <1>2, <1>3, <1>4, <2>1, <2>2, CoinsStay, HeldIsOwned
<1>6. ASSUME NEW s \in Server, NEW r, NEW payment \in Payments(r), StartExecution(s, r, payment)
      PROVE  Stranded' \subseteq Stranded
  <2>1. /\ r \in DOMAIN granted /\ ReadyForExecution(r)
        /\ DOMAIN exec' = DOMAIN exec \cup {r}
        /\ \A q \in DOMAIN exec : q # r => exec'[q] = exec[q]
    BY <1>6 DEF StartExecution
  <2>2. payment = granted[r]
    BY DEF Payments, RepliesArrive
  <2>3. r \notin DOMAIN exec /\ HeldByExec(r)' = Ids(payment)
    BY <1>1, <1>6, StartExecutionKeepsInv
  <2>4. r \in DOMAIN reservation /\ InRedis = InRedis' \cup reservation[r]
    BY <2>1, ReadyTakes DEF PoolInv
  <2>5. reservation[r] = Ids(payment)
    BY <2>1, <2>2, <2>4 DEF PoolInv, TasksMatch
  <2>6. \A q \in DOMAIN exec : HeldByExec(q)' = HeldByExec(q)
    BY <1>4, <2>1, <2>3
  <2> QED BY <1>2, <1>3, <2>1, <2>3, <2>4, <2>5, <2>6, CoinsStay, HeldIsOwned
<1>7. ASSUME NEW s, NEW r PROVE ~StartReplyLost(s, r)
  BY DEF RepliesArrive, StartReplyLost
<1> QED BY <1>5, <1>6, <1>7 DEF ClientRequest

\* Of the environment only a crash strands a coin, and then one of a task of the
\* server that died.
LEMMA EnvironmentStrands ==
  ASSUME PoolInv, Environment, NEW c \in Stranded' \ Stranded
  PROVE  /\ "crash" \in Faults
         /\ \E s \in connected \ connected' :
              \/ c \in HeldByUnlocker(s)
              \/ \E r \in ExecsOf(s) : c \in HeldByExec(r)
<1>1. \A s \in Server : unlocker'[s] = unlocker[s] => HeldByUnlocker(s)' = HeldByUnlocker(s)
  BY DEF HeldByUnlocker, Ids
<1>2. \A q \in DOMAIN exec : exec'[q] = exec[q] => HeldByExec(q)' = HeldByExec(q)
  BY DEF HeldByExec, Ids
<1>3. ASSUME UNCHANGED <<exec, unlocker, available, reservation>>,
             \A b \in ObjectID : chain'[b] # Nil => chain[b] # Nil
      PROVE  FALSE
  <2>1. InRedis' = InRedis
    BY <1>3 DEF InRedis, ReservedIds, Ids
  <2>2. \A b \in InRedis : b \in Owned'
    BY <2>1, HeldIsOwned
  <2>3. \A r \in DOMAIN exec : \A b \in HeldByExec(r) : b \in Owned'
    BY <1>2, <1>3, HeldIsOwned
  <2>4. \A s \in Server : \A b \in HeldByUnlocker(s) : b \in Owned'
    BY <1>1, <1>3, HeldIsOwned
  <2> QED BY <1>3, <2>2, <2>3, <2>4, CoinsStay
<1>4. ASSUME NEW tx \in network, NEW usage \in Usage, LandLate(tx, usage) PROVE FALSE
  <2>1. tx.payment \in Seq(ObjectRef)
    BY DEF PoolInv, TasksTypeOK
  <2>2. Land(tx.payment, usage) /\ UNCHANGED <<exec, unlocker, available, reservation>>
    BY <1>4 DEF LandLate, storageVars, taskVars
  <2>3. \A b \in ObjectID : chain'[b] # Nil => chain[b] # Nil
    BY <2>1, <2>2, LandChanges DEF PoolInv
  <2> QED BY <1>3, <2>2, <2>3
<1>5. ASSUME NEW s \in Server, Crash(s)
      PROVE  /\ "crash" \in Faults
             /\ \E t \in connected \ connected' :
                  \/ c \in HeldByUnlocker(t)
                  \/ \E r \in ExecsOf(t) : c \in HeldByExec(r)
  <2>1. /\ InRedis' = InRedis
        /\ connected' = connected \ {s} /\ s \in connected
        /\ DOMAIN exec' = DOMAIN exec \ ExecsOf(s)
        /\ \A r \in DOMAIN exec' : HeldByExec(r)' = HeldByExec(r)
        /\ \A t \in Server \ {s} : HeldByUnlocker(t)' = HeldByUnlocker(t)
    BY <1>5, CrashKeepsInv
  <2>2. UNCHANGED chain /\ "crash" \in Faults
    BY <1>5 DEF Crash
  <2>3. c \in ObjectID /\ c \in Owned /\ c \notin Owned'
    BY <2>2 DEF Stranded, Live, Owned
  <2>4. c \notin InRedis'
    BY <2>3, HeldIsOwned
  <2>5. c \in HeldByTasks
    BY <2>1, <2>3, <2>4 DEF Owned
  <2>6. \/ \E r \in DOMAIN exec : c \in HeldByExec(r)
        \/ \E t \in Server : c \in HeldByUnlocker(t)
    BY <2>5 DEF HeldByTasks
  <2>7. ASSUME NEW r \in DOMAIN exec, c \in HeldByExec(r) PROVE r \in ExecsOf(s)
    BY <2>1, <2>3, <2>7, HeldIsOwned
  <2>8. ASSUME NEW t \in Server, c \in HeldByUnlocker(t) PROVE t = s
    BY <2>1, <2>3, <2>8, HeldIsOwned
  <2> QED BY <2>1, <2>2, <2>6, <2>7, <2>8
<1>6. ASSUME NEW s \in Server, Restart(s) PROVE FALSE
  BY <1>3, <1>6 DEF Restart, ConnectStorage, envVars, taskVars
<1>7. CASE PassTime
  BY <1>3, <1>7 DEF PassTime, Tick, envVars, taskVars
<1>8. CASE FullnodeCatchUp
  BY <1>3, <1>8 DEF FullnodeCatchUp, storageVars, taskVars
<1>9. ASSUME NEW tx \in network, DropLate(tx) PROVE FALSE
  BY <1>3, <1>9 DEF DropLate, storageVars, taskVars
<1> QED BY <1>4, <1>5, <1>6, <1>7, <1>8, <1>9 DEF Environment

\* What a step may lose.
LosesByCrash ==
  \A c \in Stranded' \ Stranded :
    \E s \in connected \ connected' :
      \/ c \in HeldByUnlocker(s)
      \/ \E r \in ExecsOf(s) : c \in HeldByExec(r)

LEMMA StepLosesByCrash ==
  ASSUME RepliesArrive, PoolInv, Next
  PROVE  LosesByCrash
<1>1. ASSUME Stranded' \subseteq Stranded PROVE LosesByCrash
  BY <1>1 DEF LosesByCrash
<1>2. CASE Environment
  BY <1>2, EnvironmentStrands DEF LosesByCrash
<1> QED BY <1>1, <1>2, ClientKeepsCoins, ExecStepKeepsCoins, UnlockerStepKeepsCoins DEF Next

\* The pool loses a live coin only when a server dies, and then only one that
\* server had taken.
THEOREM CoinsLostOnlyByCrash == RepliesArrive => (Spec => LostOnlyByCrash)
<1> SUFFICES ASSUME RepliesArrive PROVE Spec => [][LosesByCrash]_vars
  BY DEF LostOnlyByCrash, LosesByCrash
<1>1. PoolInv /\ [Next]_vars => [LosesByCrash]_vars
  BY StepLosesByCrash
<1>2. Spec => []PoolInv
  BY PoolInvariant DEF RepliesArrive, CoinsTracked
<1> QED BY <1>1, <1>2, PTL DEF Spec

\* At first every coin is in the queue.
LEMMA InitFillsQueue ==
  ASSUME Init
  PROVE  ObjectID \subseteq Ids(available)
<1>1. PICK order \in SetToSeqs(ObjectID) :
        available = [i \in DOMAIN order |->
                       [id |-> order[i], version |-> 1, balance |-> InitialBalance]]
  BY Zenon DEF Init
<1> DEFINE n == Cardinality(ObjectID)
<1>2. n \in Nat /\ order \in Injection(1..n, ObjectID) /\ Cardinality(1..n) = n
  <2>1. n \in Nat
    BY PoolAssumption, FS_CardinalityType
  <2>2. order \in [1..n -> ObjectID] /\ \A i, j \in 1..n : i # j => order[i] # order[j]
    BY <1>1 DEF SetToSeqs
  <2> HIDE DEF n
  <2>3. Cardinality(1..n) = n
    BY <2>1, FS_Interval
  <2> QED BY <2>1, <2>2, <2>3 DEF Injection, IsInjective
<1>3. order \in Surjection(1..n, ObjectID)
  BY <1>2, FS_Injection, PoolAssumption
<1>4. available \in Seq(GasCoin) /\ DOMAIN available = DOMAIN order /\ DOMAIN order = 1..n
  BY <1>1, <1>2, InitGivesInv DEF PoolInv, StorageInv, StorageTypeOK, Injection
<1>5. Len(available) = n
  BY <1>2, <1>4, LenProperties
<1>6. \A c \in ObjectID : \E i \in 1..n : order[i] = c
  BY <1>3 DEF Surjection
<1>7. \A i \in 1..n : available[i].id = order[i]
  BY <1>1, <1>4
<1> HIDE DEF n
<1> QED BY <1>5, <1>6, <1>7 DEF Ids

\* Without a crash no coin is ever forgotten, whatever fails on the chain or hangs.
THEOREM NoCoinForgotten == RepliesArrive /\ "crash" \notin Faults => (Spec => []NoCoinStranded)
<1> SUFFICES ASSUME RepliesArrive, "crash" \notin Faults PROVE Spec => []NoCoinStranded
  OBVIOUS
<1>1. Init => NoCoinStranded
  <2> SUFFICES ASSUME Init PROVE Stranded = {}
    BY DEF NoCoinStranded
  <2>1. ObjectID \subseteq Ids(available)
    BY InitFillsQueue
  <2> QED BY <2>1 DEF Stranded, Live, InRedis
<1>2. PoolInv /\ NoCoinStranded /\ [Next]_vars => NoCoinStranded'
  <2> SUFFICES ASSUME PoolInv, NoCoinStranded, [Next]_vars PROVE Stranded' \subseteq Stranded
    BY DEF NoCoinStranded
  <2>1. CASE UNCHANGED vars
    <3>1. UNCHANGED <<exec, unlocker, available, reservation, chain>>
      BY <2>1 DEF vars, storageVars, envVars, taskVars
    <3> QED BY <3>1 DEF Stranded, Live, InRedis, ReservedIds, HeldByTasks, HeldByExec,
                        HeldByUnlocker, Ids
  <2>2. CASE Environment
    BY <2>2, EnvironmentStrands
  <2> QED BY <2>1, <2>2, ClientKeepsCoins, ExecStepKeepsCoins, UnlockerStepKeepsCoins DEF Next
<1>3. Spec => []PoolInv
  BY PoolInvariant DEF RepliesArrive, CoinsTracked
<1> QED BY <1>1, <1>2, <1>3, PTL DEF Spec

-----------------------------------------------------------------------------
(* Gas coins are never spent twice *)

LEMMA OwnedShrinks ==
  ASSUME InRedis' \subseteq Owned,
         \A r \in DOMAIN exec' : \A c \in HeldByExec(r)' : c \in Owned,
         \A s \in Server : \A c \in HeldByUnlocker(s)' : c \in Owned
  PROVE  Owned' \subseteq Owned
<1>1. \A c \in Owned' : c \in Owned
  BY DEF Owned, HeldByTasks
<1> QED BY <1>1

LEMMA OwnedHolds ==
  /\ \A c \in InRedis : c \in Owned
  /\ \A r \in DOMAIN exec : \A c \in HeldByExec(r) : c \in Owned
  /\ \A s \in Server : \A c \in HeldByUnlocker(s) : c \in Owned
<1>1. /\ \A r \in DOMAIN exec : \A c \in HeldByExec(r) : c \in HeldByTasks
      /\ \A s \in Server : \A c \in HeldByUnlocker(s) : c \in HeldByTasks
  BY DEF HeldByTasks
<1> QED BY <1>1 DEF Owned

\* A coin that has no holder gets none again: what a crash forgot stays away from
\* the pool.
LEMMA NextShrinksOwned ==
  ASSUME CoinsTracked, PoolInv, [Next]_vars
  PROVE  Owned' \subseteq Owned
<1>1. \A s \in Server : unlocker'[s] = unlocker[s] => HeldByUnlocker(s)' = HeldByUnlocker(s)
  BY DEF HeldByUnlocker, Ids
<1>2. \A q \in DOMAIN exec : exec'[q] = exec[q] => HeldByExec(q)' = HeldByExec(q)
  BY DEF HeldByExec, Ids
<1>3. ASSUME UNCHANGED <<exec, unlocker>>, InRedis' \subseteq InRedis
      PROVE  Owned' \subseteq Owned
  BY <1>1, <1>2, <1>3, OwnedHolds, OwnedShrinks
<1>4. ASSUME UNCHANGED <<available, reservation>> PROVE InRedis' = InRedis
  BY <1>4 DEF InRedis, ReservedIds, Ids
<1>5. ASSUME NEW budget, NEW duration, ReserveGas(budget, duration) PROVE Owned' \subseteq Owned
  BY <1>3, <1>5, ReserveMoves DEF ReserveGas, PoolInv
<1>6. ASSUME NEW s \in Server, NEW r \in DOMAIN reservation, NEW payment \in Payments(r),
             StartExecution(s, r, payment)
      PROVE  Owned' \subseteq Owned
  <2>1. /\ r \in DOMAIN granted /\ ReadyForExecution(r) /\ UNCHANGED unlocker
        /\ DOMAIN exec' = DOMAIN exec \cup {r}
        /\ \A q \in DOMAIN exec : q # r => exec'[q] = exec[q]
    BY <1>6 DEF StartExecution
  <2>2. r \notin DOMAIN exec /\ HeldByExec(r)' = Ids(payment)
    BY <1>6, StartExecutionKeepsInv
  <2>3. InRedis = InRedis' \cup reservation[r] /\ r \in DOMAIN reservation
    BY <2>1, ReadyTakes DEF PoolInv
  <2>4. Ids(payment) \subseteq Ids(granted[r])
    BY <2>1, PaymentIsPart DEF PoolInv, TasksTypeOK
  <2>5. Ids(granted[r]) = reservation[r]
    BY <2>1, <2>3 DEF PoolInv, TasksMatch
  <2>6. \A q \in DOMAIN exec : HeldByExec(q)' = HeldByExec(q)
    BY <1>2, <2>1, <2>2
  <2> QED BY <1>1, <2>1, <2>2, <2>3, <2>4, <2>5, <2>6, OwnedHolds, OwnedShrinks
<1>7. ASSUME NEW s, NEW r, StartReplyLost(s, r) \/ ExpireReplyLost(s) PROVE Owned' \subseteq Owned
  <2>1. ReadyForExecution(r) \/ ExpireCoins
    BY <1>7 DEF StartReplyLost, ExpireReplyLost
  <2>2. InRedis' \subseteq InRedis
    BY <2>1, ReadyTakes, ExpireTakes DEF PoolInv
  <2> QED BY <1>3, <1>7, <2>2 DEF StartReplyLost, ExpireReplyLost, taskVars
<1>8. ASSUME NEW r \in DOMAIN exec, ExecStep(r) PROVE Owned' \subseteq Owned
  <2>0. \A q \in DOMAIN exec : exec[q] \in ExecTask
    BY DEF PoolInv, TasksTypeOK
  <2>1. ASSUME UNCHANGED <<storageVars, unlocker>>, DOMAIN exec' = DOMAIN exec,
               \A q \in DOMAIN exec : q # r => exec'[q] = exec[q],
               HeldByExec(r)' \subseteq HeldByExec(r)
        PROVE  Owned' \subseteq Owned
    BY <1>1, <1>2, <1>4, <2>1, OwnedHolds, OwnedShrinks DEF storageVars
  <2>2. ASSUME ReadTotalBalance(r) \/ FailExecution(r) \/ SubmitTimeout(r)
        PROVE  Owned' \subseteq Owned
    <3>1. /\ UNCHANGED <<storageVars, unlocker>> /\ DOMAIN exec' = DOMAIN exec
          /\ \A q \in DOMAIN exec : q # r => exec'[q] = exec[q]
          /\ exec[r].stage # "release" /\ exec'[r].stage # "release"
          /\ exec'[r].payment = exec[r].payment
      BY <2>0, <2>2 DEF ReadTotalBalance, FailExecution, SubmitTimeout, ExecTask
    <3>2. HeldByExec(r)' = HeldByExec(r)
      BY <3>1 DEF HeldByExec, Ids
    <3> QED BY <2>1, <3>1, <3>2
  <2>3. ASSUME NEW usage \in Usage, ExecuteTransaction(r, usage) PROVE Owned' \subseteq Owned
    <3>1. /\ Land(exec[r].payment, usage) /\ UNCHANGED <<storageVars, unlocker>>
          /\ DOMAIN exec' = DOMAIN exec /\ exec[r].stage = "funded"
          /\ \A q \in DOMAIN exec : q # r => exec'[q] = exec[q]
      BY <2>0, <2>3 DEF ExecuteTransaction, ExecTask
    <3>2. HeldByExec(r)' = {exec[r].payment[1].id}
      BY <2>3, ExecuteTransactionKeepsInv
    <3>3. exec[r].payment \in Seq(ObjectRef)
      BY <2>0 DEF ExecTask
    <3>4. exec[r].payment[1].id \in Ids(exec[r].payment)
      BY <3>1, <3>3, LandChanges DEF PoolInv
    <3>5. HeldByExec(r) = Ids(exec[r].payment)
      BY <3>1 DEF HeldByExec
    <3> QED BY <2>1, <3>1, <3>2, <3>4, <3>5
  <2>4. ASSUME QueryLatest(r) PROVE Owned' \subseteq Owned
    <3>1. HeldByExec(r)' \subseteq HeldByExec(r)
      BY <2>4, QueryLatestKeepsInv
    <3>2. /\ UNCHANGED <<storageVars, unlocker>> /\ DOMAIN exec' = DOMAIN exec
          /\ \A q \in DOMAIN exec : q # r => exec'[q] = exec[q]
      BY <2>0, <2>4 DEF QueryLatest, ExecTask
    <3> QED BY <2>1, <3>1, <3>2
  <2>5. ASSUME ReleaseCoins(r) PROVE Owned' \subseteq Owned
    <3> DEFINE S == DOMAIN exec \ {r}
    <3>1. InRedis' = InRedis \cup HeldByExec(r)
      BY <2>5, ReleaseCoinsKeepsInv
    <3>2. exec' = Restrict(exec, S) /\ UNCHANGED unlocker
      BY <2>5 DEF ReleaseCoins
    <3>3. DOMAIN exec' = S /\ \A q \in S : HeldByExec(q)' = HeldByExec(q)
      BY <3>2, TasksKept
    <3> QED BY <1>1, <3>1, <3>2, <3>3, OwnedHolds, OwnedShrinks
  <2>6. ~ReleaseReplyLost(r)
    BY DEF CoinsTracked, ReleaseReplyLost
  <2> QED BY <1>8, <2>2, <2>3, <2>4, <2>5, <2>6 DEF ExecStep
<1>9. ASSUME NEW s \in Server, UnlockerStep(s), ~ExpireReplyLost(s) PROVE Owned' \subseteq Owned
  <2>0. ~UnlockerReplyLost(s)
    BY DEF CoinsTracked, UnlockerReplyLost
  <2>1. UNCHANGED exec /\ \A t \in Server : t # s => unlocker'[t] = unlocker[t]
    BY <1>9, <2>0 DEF UnlockerStep, UnlockerExpire, UnlockerQuery, UnlockerRelease, PoolInv,
       TasksTypeOK
  <2>2. ASSUME InRedis' \subseteq InRedis \cup HeldByUnlocker(s),
               HeldByUnlocker(s)' \subseteq InRedis \cup HeldByUnlocker(s)
        PROVE  Owned' \subseteq Owned
    BY <1>1, <1>2, <2>1, <2>2, OwnedHolds, OwnedShrinks
  <2>3. CASE UnlockerExpire(s)
    <3>1. HeldByUnlocker(s)' = ExpiredIds /\ ExpireCoins
      BY <2>3, UnlockerExpireKeepsInv DEF UnlockerExpire
    <3>2. InRedis = InRedis' \cup ExpiredIds
      BY <3>1, ExpireTakes DEF PoolInv
    <3> QED BY <2>2, <3>1, <3>2
  <2>4. CASE UnlockerQuery(s)
    <3>1. HeldByUnlocker(s)' \subseteq HeldByUnlocker(s)
      BY <2>4, UnlockerQueryKeepsInv
    <3>2. InRedis' = InRedis
      BY <1>4, <2>4 DEF UnlockerQuery, storageVars
    <3> QED BY <2>2, <3>1, <3>2
  <2>5. CASE UnlockerRelease(s)
    <3>1. InRedis' = InRedis \cup HeldByUnlocker(s)
      BY <2>5, UnlockerReleaseKeepsInv
    <3>2. unlocker'[s] = Idle
      BY <2>5 DEF UnlockerRelease, PoolInv, TasksTypeOK
    <3>3. HeldByUnlocker(s)' = {}
      BY <3>2 DEF HeldByUnlocker, Idle
    <3> QED BY <2>2, <3>1, <3>3
  <2> QED BY <1>9, <2>0, <2>3, <2>4, <2>5 DEF UnlockerStep
<1>10. ASSUME NEW s \in Server, Crash(s) PROVE Owned' \subseteq Owned
  <2>1. /\ InRedis' = InRedis
        /\ DOMAIN exec' = DOMAIN exec \ ExecsOf(s)
        /\ \A r \in DOMAIN exec' : HeldByExec(r)' = HeldByExec(r)
        /\ \A t \in Server \ {s} : HeldByUnlocker(t)' = HeldByUnlocker(t)
    BY <1>10, CrashKeepsInv
  <2>2. unlocker'[s] = Idle
    BY <1>10 DEF Crash, PoolInv, TasksTypeOK
  <2>3. HeldByUnlocker(s)' = {}
    BY <2>2 DEF HeldByUnlocker, Idle
  <2> QED BY <2>1, <2>3, OwnedHolds, OwnedShrinks
<1>11. ASSUME Environment, ~\E s \in Server : Crash(s) PROVE Owned' \subseteq Owned
  <2>1. UNCHANGED <<exec, unlocker, available, reservation>>
    BY <1>11 DEF Environment, LandLate, DropLate, FullnodeCatchUp, Restart, ConnectStorage,
       PassTime, Tick, storageVars, envVars, taskVars
  <2> QED BY <1>3, <1>4, <2>1
<1>12. ASSUME UNCHANGED vars PROVE Owned' \subseteq Owned
  BY <1>3, <1>4, <1>12 DEF vars, storageVars, taskVars
<1>13. CASE ClientRequest
  BY <1>5, <1>6, <1>7, <1>13 DEF ClientRequest
<1> QED BY <1>7, <1>8, <1>9, <1>10, <1>11, <1>12, <1>13 DEF Next

\* The outcome of every submission is learnt by the task that made it, unless its
\* server dies.
OutcomesKnown == CoinsTracked /\ "timeout" \notin Faults

\* What only a dead server had sent uses coins that nobody has any more, and no two
\* such transactions share a coin.
NetworkApart ==
  /\ \A tx \in network : Ids(tx.payment) \cap Owned = {}
  /\ \A tx, other \in network : tx # other => Ids(tx.payment) \cap Ids(other.payment) = {}

LEMMA NetworkStaysApart ==
  ASSUME OutcomesKnown, PoolInv, NetworkApart, [Next]_vars
  PROVE  NetworkApart'
<1>1. Owned' \subseteq Owned
  BY NextShrinksOwned DEF OutcomesKnown
<1>2. \A tx : Ids(tx.payment)' = Ids(tx.payment)
  BY DEF Ids
<1>3. ASSUME network' \subseteq network PROVE NetworkApart'
  BY <1>1, <1>2, <1>3 DEF NetworkApart
<1>4. ASSUME NEW s \in Server, Crash(s) PROVE NetworkApart'
  <2> DEFINE F == {q \in ExecsOf(s) : exec[q].stage = "funded"}
  <2>1. network' = network \cup {Sent(r) : r \in F}
    BY <1>4 DEF Crash
  <2>2. /\ InRedis' = InRedis
        /\ DOMAIN exec' = DOMAIN exec \ ExecsOf(s)
        /\ \A r \in DOMAIN exec' : HeldByExec(r)' = HeldByExec(r)
        /\ \A t \in Server \ {s} : HeldByUnlocker(t)' = HeldByUnlocker(t)
    BY <1>4, CrashKeepsInv
  <2>3. unlocker'[s] = Idle
    BY <1>4 DEF Crash, PoolInv, TasksTypeOK
  <2>4. HeldByUnlocker(s)' = {}
    BY <2>3 DEF HeldByUnlocker, Idle
  <2>5. \A r \in F : /\ r \in DOMAIN exec /\ r \notin DOMAIN exec'
                     /\ HeldByExec(r) = Ids(Sent(r).payment)
    BY <2>2 DEF ExecsOf, HeldByExec, Sent
  <2>6. ASSUME NEW r \in F PROVE Ids(Sent(r).payment) \cap Owned' = {}
    <3>1. HeldByExec(r) \cap InRedis' = {}
      BY <2>2, <2>5 DEF PoolInv, HoldersApart
    <3>2. \A q \in DOMAIN exec' : HeldByExec(r) \cap HeldByExec(q)' = {}
      BY <2>2, <2>5 DEF PoolInv, HoldersApart
    <3>3. \A t \in Server : HeldByExec(r) \cap HeldByUnlocker(t)' = {}
      BY <2>2, <2>4, <2>5 DEF PoolInv, HoldersApart
    <3>4. HeldByExec(r) \cap HeldByTasks' = {}
      BY <3>2, <3>3 DEF HeldByTasks
    <3> QED BY <2>5, <3>1, <3>4 DEF Owned
  <2>7. \A r, q \in F : r # q => Ids(Sent(r).payment) \cap Ids(Sent(q).payment) = {}
    BY <2>5 DEF PoolInv, HoldersApart
  <2>8. \A r \in F : \A tx \in network : Ids(Sent(r).payment) \cap Ids(tx.payment) = {}
    BY <2>5, OwnedHolds DEF NetworkApart
  <2>9. \A tx \in network : Ids(tx.payment) \cap Owned' = {}
    BY <1>1 DEF NetworkApart
  <2> HIDE DEF F
  <2>10. \A tx \in network' : Ids(tx.payment) \cap Owned' = {}
    BY <2>1, <2>6, <2>9
  <2>11. \A tx, other \in network' : tx # other => Ids(tx.payment) \cap Ids(other.payment) = {}
    <3> SUFFICES ASSUME NEW tx \in network', NEW other \in network', tx # other
                 PROVE  Ids(tx.payment) \cap Ids(other.payment) = {}
      OBVIOUS
    <3>1. tx \in network \/ \E r \in F : tx = Sent(r)
      BY <2>1
    <3>2. other \in network \/ \E r \in F : other = Sent(r)
      BY <2>1
    <3>3. CASE tx \in network /\ other \in network
      BY <3>3 DEF NetworkApart
    <3> QED BY <2>7, <2>8, <3>1, <3>2, <3>3
  <2> QED BY <1>2, <2>10, <2>11 DEF NetworkApart
<1>5. ASSUME NEW r \in DOMAIN exec, ExecStep(r) PROVE network' \subseteq network
  BY <1>5 DEF ExecStep, ReadTotalBalance, FailExecution, ExecuteTransaction, SubmitTimeout,
     QueryLatest, ReleaseCoins, ReleaseReplyLost, envVars, OutcomesKnown
<1>6. ASSUME NEW s \in Server, UnlockerStep(s) PROVE network' \subseteq network
  BY <1>6 DEF UnlockerStep, UnlockerExpire, ExpireReplyLost, UnlockerQuery, UnlockerRelease,
     UnlockerReplyLost, envVars
<1>7. ASSUME ClientRequest PROVE network' \subseteq network
  BY <1>7 DEF ClientRequest, ReserveGas, StartExecution, StartReplyLost, envVars
<1>8. ASSUME Environment, ~\E s \in Server : Crash(s) PROVE network' \subseteq network
  BY <1>8 DEF Environment, LandLate, DropLate, FullnodeCatchUp, Restart, PassTime, envVars
<1>9. ASSUME UNCHANGED vars PROVE network' \subseteq network
  BY <1>9 DEF vars, envVars
<1> QED BY <1>3, <1>4, <1>5, <1>6, <1>7, <1>8, <1>9 DEF Next

LEMMA SharedRefSharedId ==
  ASSUME NEW p, NEW q, DOMAIN p = 1..Len(p), DOMAIN q = 1..Len(q),
         Range(p) \cap Range(q) # {}
  PROVE  Ids(p) \cap Ids(q) # {}
<1>1. PICK i \in 1..Len(p), j \in 1..Len(q) : p[i] = q[j]
  BY DEF Range
<1> QED BY <1>1 DEF Ids

LEMMA ApartGivesNoEquivocation ==
  ASSUME PoolInv, NetworkApart
  PROVE  GasNeverEquivocates
<1> SUFFICES ASSUME NEW tx \in InFlight, NEW other \in InFlight,
                    Range(tx.payment) \cap Range(other.payment) # {}
             PROVE  tx = other
  BY DEF GasNeverEquivocates
<1> DEFINE F == {q \in DOMAIN exec : exec[q].stage = "funded"}
<1>1. \A r \in F : r \in DOMAIN exec /\ HeldByExec(r) = Ids(Sent(r).payment)
  BY DEF HeldByExec, Sent
<1>2. \A x \in InFlight : x \in network \/ \E r \in F : x = Sent(r)
  BY DEF InFlight
<1>3. \A x \in InFlight : x.payment \in Seq(ObjectRef)
  BY <1>2 DEF PoolInv, TasksTypeOK, ExecTask, Sent
<1>4. \A x \in InFlight : DOMAIN x.payment = 1..Len(x.payment)
  BY <1>3, LenProperties
<1>5. Ids(tx.payment) \cap Ids(other.payment) # {}
  BY <1>4, SharedRefSharedId
<1>6. \A r, q \in F : r # q => Ids(Sent(r).payment) \cap Ids(Sent(q).payment) = {}
  BY <1>1 DEF PoolInv, HoldersApart
<1>7. \A r \in F : \A x \in network : Ids(Sent(r).payment) \cap Ids(x.payment) = {}
  BY <1>1, OwnedHolds DEF NetworkApart
<1>8. CASE tx \in network /\ other \in network
  BY <1>5, <1>8 DEF NetworkApart
<1> HIDE DEF F
<1> QED BY <1>2, <1>5, <1>6, <1>7, <1>8

\* Two transactions that may still land never spend the same gas coin, when the
\* outcome of a submission is learnt unless its server dies.
THEOREM GasCoinsNeverEquivocate == OutcomesKnown => (Spec => []GasNeverEquivocates)
<1> SUFFICES ASSUME OutcomesKnown PROVE Spec => []GasNeverEquivocates
  OBVIOUS
<1>1. Init => NetworkApart
  BY DEF Init, NetworkApart
<1>2. PoolInv /\ NetworkApart /\ [Next]_vars => NetworkApart'
  BY NetworkStaysApart
<1>3. PoolInv /\ NetworkApart => GasNeverEquivocates
  BY ApartGivesNoEquivocation
<1>4. Spec => []PoolInv
  BY PoolInvariant DEF OutcomesKnown
<1> QED BY <1>1, <1>2, <1>3, <1>4, PTL DEF Spec

-----------------------------------------------------------------------------
(* The derived balances are the balances on chain *)

\* The conditions under which the balances in the queue can be trusted: the
\* fullnode answers from the current state, no unknown outcome is pending, and the
\* sponsor's transactions move no SUI besides the gas.
BalancesKnown == OutcomesKnown /\ "fullnode_lag" \notin Faults /\ ~AdvancedFaucetMode

\* What the chain promises: the balance of a coin is a u64.
ChainBalancesFit == \A c \in ObjectID : chain[c] # Nil => chain[c].balance < WordModulus

TotalOf(payment) ==
  SumFunction([c \in Ids(payment) |-> IF chain[c] = Nil THEN 0 ELSE chain[c].balance])

ExecMatches(r) ==
  /\ exec[r].stage = "funded" => exec[r].total = TotalOf(exec[r].payment)
  /\ exec[r].stage = "release" =>
       \A i \in 1..Len(exec[r].coins) : chain[exec[r].coins[i].id] = exec[r].coins[i]

UnlockerMatches(s) ==
  unlocker[s].stage = "release" =>
    \A i \in 1..Len(unlocker[s].coins) : chain[unlocker[s].coins[i].id] = unlocker[s].coins[i]

\* The total read before an execution, and the coins about to be returned, are as
\* true as the queue.
MatchInv ==
  /\ fullnode = chain
  /\ PoolMatchesChain
  /\ \A r \in DOMAIN exec : ExecMatches(r)
  /\ \A s \in Server : UnlockerMatches(s)

\* What nobody touches on chain stays true.
LEMMA QueueStaysTrue ==
  ASSUME PoolInv, PoolMatchesChain, \A c \in InRedis : chain'[c] = chain[c],
         NEW n \in Nat, available' = SubSeq(available, n + 1, Len(available))
                        \/ available' = available
  PROVE  PoolMatchesChain'
<1>1. available \in Seq(GasCoin) /\ Len(available) \in Nat
  BY LenProperties DEF PoolInv, StorageInv, StorageTypeOK
<1>2. \A i \in 1..Len(available) : chain'[available[i].id] = available[i]
  BY DEF PoolMatchesChain, InRedis, Ids
<1>3. CASE available' = available
  BY <1>2, <1>3 DEF PoolMatchesChain
<1>4. CASE available' = SubSeq(available, n + 1, Len(available))
  <2>1. \A i \in 1..Len(available') : \E j \in 1..Len(available) : available'[i] = available[j]
    BY <1>1, <1>4, SubSeqProperties
  <2> QED BY <1>2, <2>1 DEF PoolMatchesChain
<1> QED BY <1>3, <1>4

LEMMA ExecStaysTrue ==
  ASSUME PoolInv, NEW r \in DOMAIN exec, ExecMatches(r), exec'[r] = exec[r],
         \A c \in HeldByExec(r) : chain'[c] = chain[c]
  PROVE  ExecMatches(r)'
<1>1. CASE exec[r].stage = "funded"
  <2>1. HeldByExec(r) = Ids(exec[r].payment)
    BY <1>1 DEF HeldByExec
  <2>2. [c \in Ids(exec[r].payment) |-> IF chain'[c] = Nil THEN 0 ELSE chain'[c].balance]
        = [c \in Ids(exec[r].payment) |-> IF chain[c] = Nil THEN 0 ELSE chain[c].balance]
    BY <2>1
  <2>3. SumFunction([c \in Ids(exec[r].payment) |->
                       IF chain'[c] = Nil THEN 0 ELSE chain'[c].balance])
        = TotalOf(exec[r].payment)
    BY <2>2 DEF TotalOf
  <2>4. exec'[r].total = SumFunction([c \in Ids(exec'[r].payment) |->
                                        IF chain'[c] = Nil THEN 0 ELSE chain'[c].balance])
    BY <1>1, <2>3 DEF ExecMatches
  <2>5. TotalOf(exec[r].payment)' =
          SumFunction([c \in Ids(exec'[r].payment) |->
                         IF chain'[c] = Nil THEN 0 ELSE chain'[c].balance])
    BY DEF TotalOf, Ids
  <2> QED BY <1>1, <2>4, <2>5 DEF ExecMatches
<1>2. CASE exec[r].stage = "release"
  <2>1. HeldByExec(r) = Ids(exec[r].coins)
    BY <1>2 DEF HeldByExec
  <2> QED BY <1>2, <2>1 DEF ExecMatches, Ids
<1>3. CASE exec[r].stage \notin {"funded", "release"}
  BY <1>3 DEF ExecMatches
<1> QED BY <1>1, <1>2, <1>3

LEMMA UnlockerStaysTrue ==
  ASSUME PoolInv, NEW s \in Server, UnlockerMatches(s), unlocker'[s] = unlocker[s],
         \A c \in HeldByUnlocker(s) : chain'[c] = chain[c]
  PROVE  UnlockerMatches(s)'
BY DEF UnlockerMatches, HeldByUnlocker, Ids

\* A step that changes no coin somebody has, and no task, keeps the balances true.
LEMMA OthersStayTrue ==
  ASSUME PoolInv, MatchInv,
         UNCHANGED <<exec, unlocker, available>>,
         \A c \in Owned : chain'[c] = chain[c], fullnode' = chain'
  PROVE  MatchInv'
<1>1. \A c \in InRedis : chain'[c] = chain[c]
  BY OwnedHolds
<1>2. PoolMatchesChain'
  <2>1. 0 \in Nat
    OBVIOUS
  <2> QED BY <1>1, <2>1, QueueStaysTrue DEF MatchInv
<1>3. \A r \in DOMAIN exec : ExecMatches(r)'
  BY ExecStaysTrue, OwnedHolds DEF MatchInv
<1>4. \A s \in Server : UnlockerMatches(s)'
  BY UnlockerStaysTrue, OwnedHolds DEF MatchInv
<1> QED BY <1>2, <1>3, <1>4 DEF MatchInv

LEMMA QueueGrowsTrue ==
  ASSUME PoolInv, PoolMatchesChain, chain' = chain,
         NEW coins \in Seq(GasCoin), available' = available \o coins,
         \A i \in 1..Len(coins) : chain[coins[i].id] = coins[i]
  PROVE  PoolMatchesChain'
<1>1. available \in Seq(GasCoin) /\ Len(available) \in Nat /\ Len(coins) \in Nat
  BY LenProperties DEF PoolInv, StorageInv, StorageTypeOK
<1>2. \A i \in 1..Len(available') :
        \/ \E j \in 1..Len(available) : available'[i] = available[j]
        \/ \E j \in 1..Len(coins) : available'[i] = coins[j]
  BY <1>1, ConcatProperties
<1> QED BY <1>2 DEF PoolMatchesChain

\* One task goes on or ends, and the others keep what they know.
LEMMA ExecsStayTrue ==
  ASSUME PoolInv, MatchInv, NEW r, chain' = chain,
         \A q \in DOMAIN exec' : q # r => q \in DOMAIN exec /\ exec'[q] = exec[q]
  PROVE  \A q \in DOMAIN exec' : q # r => ExecMatches(q)'
BY ExecStaysTrue DEF MatchInv

LEMMA UnlockersStayTrue ==
  ASSUME PoolInv, MatchInv, NEW s, chain' = chain,
         \A t \in Server : t # s => unlocker'[t] = unlocker[t]
  PROVE  \A t \in Server : t # s => UnlockerMatches(t)'
BY UnlockerStaysTrue DEF MatchInv

\* What the fullnode returned is true while it does not lag.
LEMMA LatestIsTrue ==
  ASSUME PoolInv, MatchInv, NEW ids \in SUBSET ObjectID, NEW coins \in LatestGasObjects(ids)
  PROVE  \A i \in 1..Len(coins) : chain[coins[i].id] = coins[i]
BY LatestGasObjectsAre DEF PoolInv, MatchInv

LEMMA FoldOfBalances ==
  ASSUME MatchInv, NEW payment \in Seq(ObjectRef), RefsCurrent(payment)
  PROVE  TotalOf(payment) = OnChainTotal(payment)
<1>1. \A c \in Ids(payment) : chain[c] # Nil
  BY DEF RefsCurrent, Ids
<1>2. [c \in Ids(payment) |-> IF chain[c] = Nil THEN 0 ELSE chain[c].balance]
      = [c \in Ids(payment) |-> chain[c].balance]
  BY <1>1
<1> QED BY <1>2 DEF TotalOf, OnChainTotal

\* The balance that get_coins_after_tx derives is the one on chain.
LEMMA ExecutedCoinIsTrue ==
  ASSUME BalancesKnown, PoolInv, MatchInv, ChainBalancesFit', NEW r \in DOMAIN exec,
         NEW usage \in Usage, ExecuteTransaction(r, usage)
  PROVE  chain'[exec[r].payment[1].id] = CoinsAfterTx(exec[r].payment, exec[r].total, usage)[1]
<1> DEFINE payment == exec[r].payment
           paid == OnChainTotal(payment) - usage
<1>1. exec[r] \in ExecTask
  BY DEF PoolInv, TasksTypeOK
<1>2. payment \in Seq(ObjectRef)
  BY <1>1 DEF ExecTask
<1>3. /\ exec[r].stage = "funded" /\ Land(payment, usage)
  BY Zenon DEF ExecuteTransaction
<1>4. /\ ChainTypeOK' /\ ChainFiled' /\ payment # <<>> /\ payment[1].id \in Ids(payment)
  BY <1>2, <1>3, LandChanges DEF PoolInv
<1>5. payment[1].id \in ObjectID
  BY <1>2, <1>4, IdsOfRefs
<1>6. chain'[payment[1].id] = [id |-> payment[1].id, version |-> NextVersion(payment),
                               balance |-> paid]
  BY <1>3, <1>5 DEF Land
<1>7. exec[r].total = OnChainTotal(payment)
  BY <1>2, <1>3, FoldOfBalances DEF MatchInv, ExecMatches, Land
<1>8. chain'[payment[1].id] # Nil /\ chain'[payment[1].id] \in GasCoin
  <2>1. RefsCurrent(payment) /\ usage <= OnChainTotal(payment) /\ OnChainTotal(payment) \in Int
    BY <1>1, <1>3, <1>7 DEF Land, ExecTask
  <2>2. paid \in Nat
    BY <2>1, PoolAssumption
  <2>3. NextVersion(payment) \in Nat
    BY <1>2, <1>4, NextVersionIsNext
  <2> QED BY <1>5, <1>6, <2>2, <2>3, PoolAssumption DEF GasCoin
<1>9. paid \in Nat /\ paid < WordModulus
  BY <1>5, <1>6, <1>8 DEF GasCoin, ChainBalancesFit
<1>10. (exec[r].total - NetUsage(usage)) % WordModulus = paid
  <2>1. NetUsage(usage) = usage
    BY DEF NetUsage, BalancesKnown
  <2> HIDE DEF paid
  <2>2. paid % WordModulus = paid
    BY <1>9, PoolAssumption
  <2>3. exec[r].total - NetUsage(usage) = paid
    BY <1>7, <2>1 DEF paid
  <2> QED BY <2>2, <2>3
<1> QED BY <1>6, <1>10 DEF CoinsAfterTx

\* A landing changes on chain the coins of its payment only.
LEMMA ExecStepKeepsMatch ==
  ASSUME BalancesKnown, PoolInv, MatchInv, ChainBalancesFit', NEW r \in DOMAIN exec, ExecStep(r)
  PROVE  MatchInv'
<1>0. \A q \in DOMAIN exec : exec[q] \in ExecTask
  BY DEF PoolInv, TasksTypeOK
<1>1. \A q \in DOMAIN exec' : q # r => q \in DOMAIN exec /\ exec'[q] = exec[q]
  BY <1>0 DEF ExecStep, ReadTotalBalance, FailExecution, ExecuteTransaction, SubmitTimeout,
     QueryLatest, ReleaseCoins, ReleaseReplyLost, Restrict, taskVars, ExecTask
<1>2. UNCHANGED unlocker
  BY DEF ExecStep, ReadTotalBalance, FailExecution, ExecuteTransaction, SubmitTimeout,
     QueryLatest, ReleaseCoins, ReleaseReplyLost, taskVars
<1>3. ASSUME UNCHANGED <<chain, fullnode>>, PoolMatchesChain', r \in DOMAIN exec' => ExecMatches(r)'
      PROVE  MatchInv'
  <2>1. \A q \in DOMAIN exec' : ExecMatches(q)'
    BY <1>1, <1>3, ExecsStayTrue
  <2>2. \A s \in Server : UnlockerMatches(s)'
    BY <1>2, <1>3, UnlockerStaysTrue DEF MatchInv
  <2> QED BY <1>3, <2>1, <2>2 DEF MatchInv
<1>4. ASSUME UNCHANGED <<chain, available>> PROVE PoolMatchesChain'
  BY <1>4 DEF MatchInv, PoolMatchesChain
<1>5. ASSUME ReadTotalBalance(r) PROVE MatchInv'
  <2>1. /\ UNCHANGED <<chain, fullnode, available>>
        /\ exec'[r].stage = "funded" /\ exec'[r].payment = exec[r].payment
        /\ exec'[r].total = SumFunction([c \in Ids(exec[r].payment) |->
                              IF fullnode[c] = Nil THEN 0 ELSE fullnode[c].balance])
    BY <1>0, <1>5 DEF ReadTotalBalance, ExecTask, envVars, storageVars
  <2>2. exec'[r].total = TotalOf(exec[r].payment)
    BY <2>1 DEF MatchInv, TotalOf
  <2>3. TotalOf(exec[r].payment)' = TotalOf(exec[r].payment)
    BY <2>1 DEF TotalOf, Ids
  <2>4. ExecMatches(r)'
    BY <2>1, <2>2, <2>3 DEF ExecMatches
  <2> QED BY <1>3, <1>4, <2>1, <2>4
<1>6. ASSUME FailExecution(r) PROVE MatchInv'
  <2>1. UNCHANGED <<chain, fullnode, available>> /\ exec'[r].stage = "failed"
    BY <1>0, <1>6 DEF FailExecution, ExecTask, envVars, storageVars
  <2>2. ExecMatches(r)'
    BY <2>1 DEF ExecMatches
  <2> QED BY <1>3, <1>4, <2>1, <2>2
<1>7. ASSUME QueryLatest(r) PROVE MatchInv'
  <2>1. PICK coins \in LatestGasObjects(Ids(exec[r].payment)) :
          exec' = [exec EXCEPT ![r].stage = "release", ![r].coins = coins]
    BY <1>7 DEF QueryLatest
  <2>2. UNCHANGED <<chain, fullnode, available>>
    BY <1>7 DEF QueryLatest, envVars, storageVars
  <2>3. Ids(exec[r].payment) \in SUBSET ObjectID
    BY <1>0, IdsOfRefs DEF ExecTask
  <2>4. \A i \in 1..Len(coins) : chain[coins[i].id] = coins[i]
    BY <2>3, LatestIsTrue
  <2>5. exec'[r].stage = "release" /\ exec'[r].coins = coins
    BY <1>0, <2>1 DEF ExecTask
  <2>6. ExecMatches(r)'
    BY <2>2, <2>4, <2>5 DEF ExecMatches
  <2> QED BY <1>3, <1>4, <2>2, <2>6
<1>8. ASSUME ReleaseCoins(r) PROVE MatchInv'
  <2>1. /\ exec[r].stage = "release" /\ exec' = Restrict(exec, DOMAIN exec \ {r})
        /\ UNCHANGED <<chain, fullnode>> /\ available' = available \o exec[r].coins
    BY <1>8 DEF ReleaseCoins, AddNewCoins, envVars
  <2>2. exec[r].coins \in Seq(GasCoin)
    BY <1>0 DEF ExecTask
  <2>3. \A i \in 1..Len(exec[r].coins) : chain[exec[r].coins[i].id] = exec[r].coins[i]
    BY <2>1 DEF MatchInv, ExecMatches
  <2>4. PoolMatchesChain'
    BY <2>1, <2>2, <2>3, QueueGrowsTrue DEF MatchInv
  <2>5. r \notin DOMAIN exec'
    BY <2>1 DEF Restrict
  <2> QED BY <1>3, <2>1, <2>4, <2>5
<1>9. ASSUME NEW usage \in Usage, ExecuteTransaction(r, usage) PROVE MatchInv'
  <2> DEFINE coins == CoinsAfterTx(exec[r].payment, exec[r].total, usage)
  <2>1. /\ Land(exec[r].payment, usage) /\ UNCHANGED <<available, storageVars>>
        /\ exec[r].stage = "funded"
        /\ exec' = [exec EXCEPT ![r].stage = "release", ![r].coins = coins]
    BY <1>9, Zenon DEF ExecuteTransaction, storageVars
  <2>2. exec[r].payment \in Seq(ObjectRef) /\ exec[r].total \in Int
    BY <1>0 DEF ExecTask
  <2>3. /\ exec[r].payment # <<>>
        /\ \A c \in ObjectID \ Ids(exec[r].payment) : chain'[c] = chain[c]
    BY <2>1, <2>2, LandChanges DEF PoolInv
  <2>4. chain'[exec[r].payment[1].id] = coins[1]
    BY <1>9, ExecutedCoinIsTrue
  <2>5. Len(coins) = 1 /\ coins[1].id = exec[r].payment[1].id
    BY <2>2, <2>3, CoinsAfterTxAre DEF CoinsAfterTx
  <2> HIDE DEF coins
  <2>6. exec'[r].stage = "release" /\ exec'[r].coins = coins
    BY <1>0, <2>1 DEF ExecTask
  <2>7. ExecMatches(r)'
    <3>0. Len(exec'[r].coins) = 1
      BY <2>5, <2>6
    <3>1. \A i \in 1..Len(exec'[r].coins) : i = 1
      BY <3>0
    <3>2. \A i \in 1..Len(exec'[r].coins) : chain'[exec'[r].coins[i].id] = exec'[r].coins[i]
      BY <2>4, <2>5, <2>6, <3>1
    <3> QED BY <2>6, <3>2 DEF ExecMatches
  <2>8. HeldByExec(r) = Ids(exec[r].payment)
    BY <2>1 DEF HeldByExec
  <2>9. \A c \in InRedis : chain'[c] = chain[c]
    <3>1. InRedis \subseteq ObjectID
      BY IdsAreObjectIDs DEF InRedis, ReservedIds, PoolInv, StorageInv, StorageTypeOK
    <3> QED BY <2>3, <2>8, <3>1 DEF PoolInv, HoldersApart
  <2>10. \A q \in DOMAIN exec : q # r => \A c \in HeldByExec(q) : chain'[c] = chain[c]
    <3> SUFFICES ASSUME NEW q \in DOMAIN exec, q # r, NEW c \in HeldByExec(q)
                 PROVE  chain'[c] = chain[c]
      OBVIOUS
    <3>1. exec[q].payment \in Seq(ObjectRef) /\ exec[q].coins \in Seq(GasCoin)
      BY <1>0 DEF ExecTask
    <3>2. c \in ObjectID
      BY <3>1, IdsOfRefs, IdsAreObjectIDs DEF HeldByExec
    <3>3. c \notin HeldByExec(r)
      BY DEF PoolInv, HoldersApart
    <3> QED BY <2>3, <2>8, <3>2, <3>3
  <2>11. \A s \in Server : \A c \in HeldByUnlocker(s) : chain'[c] = chain[c]
    <3> SUFFICES ASSUME NEW s \in Server, NEW c \in HeldByUnlocker(s)
                 PROVE  chain'[c] = chain[c]
      OBVIOUS
    <3>1. unlocker[s].ids \subseteq ObjectID /\ unlocker[s].coins \in Seq(GasCoin)
      BY DEF PoolInv, TasksTypeOK, UnlockTask
    <3>2. c \in ObjectID
      BY <3>1, IdsAreObjectIDs DEF HeldByUnlocker
    <3>3. c \notin HeldByExec(r)
      BY DEF PoolInv, HoldersApart
    <3> QED BY <2>3, <2>8, <3>2, <3>3
  <2>12. PoolMatchesChain'
    <3>1. 0 \in Nat
      OBVIOUS
    <3> QED BY <2>1, <2>9, <3>1, QueueStaysTrue DEF MatchInv
  <2>13. \A q \in DOMAIN exec' : ExecMatches(q)'
    BY <1>1, <2>7, <2>10, ExecStaysTrue DEF MatchInv
  <2>14. \A s \in Server : UnlockerMatches(s)'
    BY <1>2, <2>11, UnlockerStaysTrue DEF MatchInv
  <2>15. fullnode' = chain'
    BY <2>1 DEF Land, BalancesKnown
  <2> QED BY <2>12, <2>13, <2>14, <2>15 DEF MatchInv
<1>10. ~SubmitTimeout(r) /\ ~ReleaseReplyLost(r)
  BY DEF BalancesKnown, OutcomesKnown, CoinsTracked, SubmitTimeout, ReleaseReplyLost
<1> QED BY <1>5, <1>6, <1>7, <1>8, <1>9, <1>10 DEF ExecStep

LEMMA UnlockerStepKeepsMatch ==
  ASSUME BalancesKnown, PoolInv, MatchInv, NEW s \in Server, UnlockerStep(s)
  PROVE  MatchInv'
<1>0. unlocker \in [Server -> UnlockTask]
  BY DEF PoolInv, TasksTypeOK
<1>1. UNCHANGED <<exec, chain, fullnode>>
  BY DEF UnlockerStep, UnlockerExpire, ExpireReplyLost, UnlockerQuery, UnlockerRelease,
         UnlockerReplyLost, envVars, taskVars
<1>2. \A t \in Server : t # s => unlocker'[t] = unlocker[t]
  BY <1>0 DEF UnlockerStep, UnlockerExpire, ExpireReplyLost, UnlockerQuery, UnlockerRelease,
         UnlockerReplyLost, taskVars
<1>3. ASSUME PoolMatchesChain', UnlockerMatches(s)' PROVE MatchInv'
  <2>1. \A q \in DOMAIN exec' : ExecMatches(q)'
    BY <1>1, ExecStaysTrue DEF MatchInv
  <2>2. \A t \in Server : UnlockerMatches(t)'
    BY <1>1, <1>2, <1>3, UnlockersStayTrue
  <2> QED BY <1>1, <1>3, <2>1, <2>2 DEF MatchInv
<1>4. ASSUME UNCHANGED available PROVE PoolMatchesChain'
  BY <1>1, <1>4 DEF MatchInv, PoolMatchesChain
<1>5. CASE UnlockerExpire(s)
  <2>1. UNCHANGED available /\ unlocker'[s].stage # "release"
    BY <1>0, <1>5 DEF UnlockerExpire, ExpireCoins, Idle
  <2> QED BY <1>3, <1>4, <2>1 DEF UnlockerMatches
<1>6. CASE ExpireReplyLost(s)
  <2>1. UNCHANGED <<available, unlocker>>
    BY <1>6 DEF ExpireReplyLost, ExpireCoins, taskVars
  <2>2. UnlockerMatches(s)'
    BY <1>1, <2>1, UnlockerStaysTrue DEF MatchInv
  <2> QED BY <1>3, <1>4, <2>1, <2>2
<1>7. CASE UnlockerQuery(s)
  <2>1. PICK coins \in LatestGasObjects(unlocker[s].ids) :
          unlocker' = [unlocker EXCEPT ![s].stage = "release", ![s].coins = coins]
    BY <1>7 DEF UnlockerQuery
  <2>2. UNCHANGED available
    BY <1>7 DEF UnlockerQuery, storageVars
  <2>3. unlocker[s].ids \in SUBSET ObjectID
    BY <1>0 DEF UnlockTask
  <2>4. \A i \in 1..Len(coins) : chain[coins[i].id] = coins[i]
    BY <2>3, LatestIsTrue
  <2>5. unlocker'[s].stage = "release" /\ unlocker'[s].coins = coins
    BY <1>0, <2>1 DEF UnlockTask
  <2>6. UnlockerMatches(s)'
    BY <1>1, <2>4, <2>5 DEF UnlockerMatches
  <2> QED BY <1>3, <1>4, <2>2, <2>6
<1>8. CASE UnlockerRelease(s)
  <2>1. /\ unlocker[s].stage = "release" /\ unlocker' = [unlocker EXCEPT ![s] = Idle]
        /\ available' = available \o unlocker[s].coins
    BY <1>8 DEF UnlockerRelease, AddNewCoins
  <2>2. unlocker[s].coins \in Seq(GasCoin)
    BY <1>0 DEF UnlockTask
  <2>3. \A i \in 1..Len(unlocker[s].coins) : chain[unlocker[s].coins[i].id] = unlocker[s].coins[i]
    BY <2>1 DEF MatchInv, UnlockerMatches
  <2>4. PoolMatchesChain'
    BY <1>1, <2>1, <2>2, <2>3, QueueGrowsTrue DEF MatchInv
  <2>5. UnlockerMatches(s)'
    BY <1>0, <2>1 DEF UnlockerMatches, Idle
  <2> QED BY <1>3, <2>4, <2>5
<1>9. ~UnlockerReplyLost(s)
  BY DEF BalancesKnown, OutcomesKnown, CoinsTracked, UnlockerReplyLost
<1> QED BY <1>5, <1>6, <1>7, <1>8, <1>9 DEF UnlockerStep

LEMMA EnvironmentKeepsMatch ==
  ASSUME BalancesKnown, PoolInv, MatchInv, NetworkApart, Environment
  PROVE  MatchInv'
<1>1. ASSUME NEW tx \in network, NEW usage \in Usage, LandLate(tx, usage) PROVE MatchInv'
  <2>1. tx.payment \in Seq(ObjectRef)
    BY DEF PoolInv, TasksTypeOK
  <2>2. /\ Land(tx.payment, usage) /\ UNCHANGED <<exec, unlocker, available>>
    BY <1>1 DEF LandLate, storageVars, taskVars
  <2>3. \A c \in ObjectID \ Ids(tx.payment) : chain'[c] = chain[c]
    BY <2>1, <2>2, LandChanges DEF PoolInv
  <2>4. Owned \subseteq ObjectID
    <3>1. InRedis \subseteq ObjectID
      BY IdsAreObjectIDs DEF InRedis, ReservedIds, PoolInv, StorageInv, StorageTypeOK
    <3>2. \A r \in DOMAIN exec : exec[r].payment \in Seq(ObjectRef) /\ exec[r].coins \in Seq(GasCoin)
      BY DEF PoolInv, TasksTypeOK, ExecTask
    <3>3. \A r \in DOMAIN exec : HeldByExec(r) \subseteq ObjectID
      BY <3>2, IdsOfRefs, IdsAreObjectIDs DEF HeldByExec
    <3>4. \A s \in Server : unlocker[s].ids \subseteq ObjectID /\ unlocker[s].coins \in Seq(GasCoin)
      BY DEF PoolInv, TasksTypeOK, UnlockTask
    <3>5. \A s \in Server : HeldByUnlocker(s) \subseteq ObjectID
      BY <3>4, IdsAreObjectIDs DEF HeldByUnlocker
    <3>6. HeldByTasks \subseteq ObjectID
      BY <3>3, <3>5 DEF HeldByTasks
    <3> QED BY <3>1, <3>6 DEF Owned
  <2>5. \A c \in Owned : chain'[c] = chain[c]
    BY <2>3, <2>4 DEF NetworkApart
  <2>6. fullnode' = chain'
    BY <2>2 DEF Land, BalancesKnown
  <2> QED BY <2>2, <2>5, <2>6, OthersStayTrue
<1>2. ASSUME UNCHANGED <<exec, unlocker, available, chain>>, fullnode' = chain' PROVE MatchInv'
  BY <1>2, OthersStayTrue
<1>3. ASSUME NEW tx \in network, DropLate(tx) PROVE MatchInv'
  BY <1>2, <1>3 DEF DropLate, storageVars, taskVars, MatchInv
<1>4. CASE FullnodeCatchUp
  BY <1>2, <1>4 DEF FullnodeCatchUp, storageVars, taskVars
<1>5. ASSUME NEW s \in Server, Restart(s) PROVE MatchInv'
  BY <1>2, <1>5 DEF Restart, ConnectStorage, envVars, taskVars, MatchInv
<1>6. CASE PassTime
  BY <1>2, <1>6 DEF PassTime, Tick, envVars, taskVars, MatchInv
<1>7. ASSUME NEW s \in Server, Crash(s) PROVE MatchInv'
  <2> DEFINE S == DOMAIN exec \ ExecsOf(s)
  <2>1. /\ exec' = Restrict(exec, S) /\ unlocker' = [unlocker EXCEPT ![s] = Idle]
        /\ UNCHANGED <<chain, fullnode, available>>
    BY <1>7 DEF Crash, Disconnect
  <2>2. \A q \in DOMAIN exec' : q \in DOMAIN exec /\ exec'[q] = exec[q]
    BY <2>1 DEF Restrict
  <2>3. \A q \in DOMAIN exec' : ExecMatches(q)'
    BY <2>1, <2>2, ExecStaysTrue DEF MatchInv
  <2>4. /\ unlocker'[s] = Idle
        /\ \A t \in Server : t # s => unlocker'[t] = unlocker[t]
    BY <2>1 DEF PoolInv, TasksTypeOK
  <2>5. UnlockerMatches(s)'
    BY <2>4 DEF UnlockerMatches, Idle
  <2>6. \A t \in Server : UnlockerMatches(t)'
    BY <2>1, <2>4, <2>5, UnlockersStayTrue
  <2>7. PoolMatchesChain'
    BY <2>1 DEF MatchInv, PoolMatchesChain
  <2> QED BY <2>1, <2>3, <2>6, <2>7 DEF MatchInv
<1> QED BY <1>1, <1>3, <1>4, <1>5, <1>6, <1>7 DEF Environment

LEMMA ClientKeepsMatch ==
  ASSUME PoolInv, MatchInv, ClientRequest
  PROVE  MatchInv'
<1>1. UNCHANGED <<unlocker, chain, fullnode>>
  BY DEF ClientRequest, ReserveGas, StartExecution, StartReplyLost, envVars, taskVars
<1>2. \A t \in Server : UnlockerMatches(t)'
  BY <1>1, UnlockerStaysTrue DEF MatchInv
<1>3. ASSUME PoolMatchesChain', \A q \in DOMAIN exec' : ExecMatches(q)' PROVE MatchInv'
  BY <1>1, <1>2, <1>3 DEF MatchInv
<1>4. ASSUME NEW budget, NEW duration, ReserveGas(budget, duration) PROVE MatchInv'
  <2>1. ReserveGasCoins(budget, duration) /\ UNCHANGED exec
    BY <1>4 DEF ReserveGas
  <2>2. PICK n \in 0..Len(available) : available' = SubSeq(available, n + 1, Len(available))
    BY <2>1, ReserveMoves DEF PoolInv
  <2>3. n \in Nat
    BY <2>2, LenProperties DEF PoolInv, StorageInv, StorageTypeOK
  <2>4. PoolMatchesChain'
    BY <1>1, <2>2, <2>3, QueueStaysTrue DEF MatchInv
  <2>5. \A q \in DOMAIN exec' : ExecMatches(q)'
    BY <1>1, <2>1, ExecStaysTrue DEF MatchInv
  <2> QED BY <1>3, <2>4, <2>5
<1>5. ASSUME NEW s, NEW r, ReadyForExecution(r),
             \A q \in DOMAIN exec' : q # r => q \in DOMAIN exec /\ exec'[q] = exec[q],
             r \in DOMAIN exec' => exec'[r].stage = "ready" \/ exec' = exec
      PROVE  MatchInv'
  <2>1. PoolMatchesChain'
    BY <1>1, <1>5 DEF ReadyForExecution, MatchInv, PoolMatchesChain
  <2>2. \A q \in DOMAIN exec' : q # r => ExecMatches(q)'
    BY <1>1, <1>5, ExecsStayTrue
  <2>3. r \in DOMAIN exec' => ExecMatches(r)'
    <3>1. CASE exec' = exec
      BY <1>1, <3>1, ExecStaysTrue DEF MatchInv
    <3>2. CASE exec'[r].stage = "ready"
      BY <3>2 DEF ExecMatches
    <3> QED BY <1>5, <3>1, <3>2
  <2> QED BY <1>3, <2>1, <2>2, <2>3
<1>6. ASSUME NEW s \in Server, NEW r \in DOMAIN reservation, NEW payment \in Payments(r),
             StartExecution(s, r, payment)
      PROVE  MatchInv'
  <2>1. ReadyForExecution(r) /\ exec'[r].stage = "ready"
    BY <1>6 DEF StartExecution
  <2>2. \A q \in DOMAIN exec' : q # r => q \in DOMAIN exec /\ exec'[q] = exec[q]
    BY <1>6 DEF StartExecution
  <2> QED BY <1>5, <2>1, <2>2
<1>7. ASSUME NEW s \in Server, NEW r \in DOMAIN reservation, StartReplyLost(s, r) PROVE MatchInv'
  BY <1>5, <1>7 DEF StartReplyLost, taskVars
<1> QED BY <1>4, <1>6, <1>7 DEF ClientRequest

\* The initialised pool is as it is on chain.
LEMMA InitMatches ==
  ASSUME Init
  PROVE  MatchInv /\ NetworkApart
<1>1. NetworkApart
  BY DEF Init, NetworkApart
<1>2. PICK order \in SetToSeqs(ObjectID) :
        available = [i \in DOMAIN order |->
                       [id |-> order[i], version |-> 1, balance |-> InitialBalance]]
  BY Zenon DEF Init
<1>3. available \in Seq(GasCoin)
  BY InitGivesInv DEF PoolInv, StorageInv, StorageTypeOK
<1>4. \A i \in 1..Len(available) :
        /\ available[i] = [id |-> order[i], version |-> 1, balance |-> InitialBalance]
        /\ available[i] \in GasCoin
  BY <1>2, <1>3, LenProperties, ElementOfSeq
<1>5. chain = [c \in ObjectID |-> [id |-> c, version |-> 1, balance |-> InitialBalance]]
  BY DEF Init
<1>6. \A i \in 1..Len(available) : available[i].id = order[i] /\ order[i] \in ObjectID
  <2>1. \A i \in 1..Len(available) : available[i].id \in ObjectID
    BY <1>4 DEF GasCoin
  <2>2. ASSUME NEW i \in 1..Len(available) PROVE available[i].id = order[i]
    <3>1. available[i] = [id |-> order[i], version |-> 1, balance |-> InitialBalance]
      BY <1>4
    <3> QED BY <3>1
  <2> QED BY <2>1, <2>2
<1>7. PoolMatchesChain
  BY <1>4, <1>5, <1>6 DEF PoolMatchesChain
<1>8. DOMAIN exec = {} /\ fullnode = chain
  BY DEF Init
<1>9. \A s \in Server : UnlockerMatches(s)
  BY DEF Init, Idle, UnlockerMatches
<1> QED BY <1>1, <1>7, <1>8, <1>9 DEF MatchInv

LEMMA NextKeepsMatch ==
  ASSUME BalancesKnown, PoolInv, NetworkApart, MatchInv, ChainBalancesFit', [Next]_vars
  PROVE  MatchInv' /\ NetworkApart'
<1>1. NetworkApart'
  BY NetworkStaysApart DEF BalancesKnown
<1>2. CASE UNCHANGED vars
  <2>1. UNCHANGED <<exec, unlocker, available, chain, fullnode>>
    BY <1>2 DEF vars, storageVars, envVars, taskVars
  <2> QED BY <1>1, <2>1, OthersStayTrue DEF MatchInv
<1>3. CASE Next
  BY <1>1, <1>3, ClientKeepsMatch, ExecStepKeepsMatch, UnlockerStepKeepsMatch, EnvironmentKeepsMatch
  DEF Next
<1> QED BY <1>1, <1>2, <1>3

\* What the queue records of a coin is what the chain has, although the balance of a
\* returned gas coin is derived and not read.
THEOREM QueueIsTrue == BalancesKnown => (Spec /\ []ChainBalancesFit => []PoolMatchesChain)
<1> SUFFICES ASSUME BalancesKnown PROVE Spec /\ []ChainBalancesFit => []PoolMatchesChain
  OBVIOUS
<1>1. Init => MatchInv /\ NetworkApart
  BY InitMatches
<1>2. PoolInv /\ NetworkApart /\ MatchInv /\ ChainBalancesFit' /\ [Next]_vars
      => MatchInv' /\ NetworkApart'
  BY NextKeepsMatch
<1>3. Spec => []PoolInv
  BY PoolInvariant DEF BalancesKnown, OutcomesKnown
<1> QED BY <1>1, <1>2, <1>3, PTL DEF Spec, MatchInv

-----------------------------------------------------------------------------
(* The pool implements CoinCustody *)

\* Reservation ids and the names of servers are told apart.
NamesApart == Server \cap (1..MaxReservations) = {}

\* A coin that has one holder is where that holder has it.
PlacesKnown ==
  /\ \A c \in Ids(available) : Place(c) = Custody!Pool
  /\ \A r \in DOMAIN reservation : \A c \in reservation[r] : Place(c) = Custody!Lent(r)
  /\ \A r \in DOMAIN exec : \A c \in HeldByExec(r) : Place(c) = Custody!Taken(r)
  /\ \A s \in Server : \A c \in HeldByUnlocker(s) : Place(c) = Custody!Taken(s)
  /\ \A c : c \notin Owned => Place(c) = Custody!Gone

HoldersOf(c) ==
  {[at |-> "pool", by |-> i] : i \in {j \in 1..Len(available) : available[j].id = c}}
  \cup {[at |-> "lent", by |-> r] : r \in {q \in DOMAIN reservation : c \in reservation[q]}}
  \cup {[at |-> "taken", by |-> r] : r \in {q \in DOMAIN exec : c \in HeldByExec(q)}}
  \cup {[at |-> "taken", by |-> s] : s \in {t \in Server : c \in HeldByUnlocker(t)}}

LEMMA PlaceOfOneHolder ==
  ASSUME NEW c, NEW h, HoldersOf(c) = {h}
  PROVE  Place(c) = IF h.at = "pool" THEN Custody!Pool ELSE h
<1> DEFINE chosen == CHOOSE g \in HoldersOf(c) : TRUE
<1>1. Cardinality(HoldersOf(c)) = 1 /\ HoldersOf(c) # {}
  BY FS_Singleton
<1>2. chosen = h
  OBVIOUS
<1>3. Place(c) = IF HoldersOf(c) = {} THEN [at |-> "gone", by |-> Nil]
                 ELSE IF Cardinality(HoldersOf(c)) > 1 THEN [at |-> "several holders", by |-> Nil]
                 ELSE IF chosen.at = "pool" THEN [at |-> "pool", by |-> Nil] ELSE chosen
  BY Zenon DEF Place, HoldersOf
<1> HIDE DEF chosen
<1> QED BY <1>1, <1>2, <1>3 DEF Custody!Pool

LEMMA InvGivesPlaces == PoolInv => PlacesKnown
<1> SUFFICES ASSUME PoolInv PROVE PlacesKnown
  OBVIOUS
<1>1. /\ \A r \in DOMAIN exec : HeldByExec(r) \cap InRedis = {}
      /\ \A s \in Server : HeldByUnlocker(s) \cap InRedis = {}
      /\ \A r, q \in DOMAIN exec : r # q => HeldByExec(r) \cap HeldByExec(q) = {}
      /\ \A s, t \in Server : s # t => HeldByUnlocker(s) \cap HeldByUnlocker(t) = {}
      /\ \A r \in DOMAIN exec, s \in Server : HeldByExec(r) \cap HeldByUnlocker(s) = {}
  BY DEF PoolInv, HoldersApart
<1>2. /\ \A i, j \in 1..Len(available) : available[i].id = available[j].id => i = j
      /\ \A r, q \in DOMAIN reservation : \A c \in reservation[r] : c \in reservation[q] => r = q
      /\ \A r \in DOMAIN reservation : \A c \in reservation[r] : c \notin Ids(available)
      /\ \A r \in DOMAIN reservation : reservation[r] \subseteq InRedis
  BY DEF PoolInv, StorageInv, NoCoinInTwoPlaces, CoinToOneCaller, ReservedIds, InRedis
<1>3. \A i \in 1..Len(available) : available[i].id \in Ids(available) /\ available[i].id \in InRedis
  BY DEF Ids, InRedis
<1>4. ASSUME NEW c \in Ids(available) PROVE Place(c) = Custody!Pool
  <2>1. PICK i \in 1..Len(available) : available[i].id = c
    BY DEF Ids
  <2>2. HoldersOf(c) = {[at |-> "pool", by |-> i]}
    BY <1>1, <1>2, <1>3, <2>1, Zenon DEF HoldersOf
  <2> DEFINE h == [at |-> "pool", by |-> i]
  <2>3. Place(c) = IF h.at = "pool" THEN Custody!Pool ELSE h
    BY <2>2, PlaceOfOneHolder
  <2> QED BY <2>3
<1>5. ASSUME NEW r \in DOMAIN reservation, NEW c \in reservation[r]
      PROVE  Place(c) = Custody!Lent(r)
  <2>1. HoldersOf(c) = {[at |-> "lent", by |-> r]}
    <3>1. c \in InRedis /\ c \notin Ids(available)
      BY <1>2
    <3>2. \A j \in 1..Len(available) : available[j].id # c
      BY <1>3, <3>1
    <3>3. \A q \in DOMAIN reservation : c \in reservation[q] => q = r
      BY <1>2
    <3>4. /\ \A q \in DOMAIN exec : c \notin HeldByExec(q)
          /\ \A s \in Server : c \notin HeldByUnlocker(s)
      BY <1>1, <3>1
    <3> QED BY <3>2, <3>3, <3>4, Zenon DEF HoldersOf
  <2> DEFINE h == [at |-> "lent", by |-> r]
  <2>2. Place(c) = IF h.at = "pool" THEN Custody!Pool ELSE h
    BY <2>1, PlaceOfOneHolder
  <2> QED BY <2>2 DEF Custody!Lent
<1>6. ASSUME NEW r \in DOMAIN exec, NEW c \in HeldByExec(r)
      PROVE  Place(c) = Custody!Taken(r)
  <2>1. HoldersOf(c) = {[at |-> "taken", by |-> r]}
    BY <1>1, <1>2, <1>3, Zenon DEF HoldersOf
  <2> DEFINE h == [at |-> "taken", by |-> r]
  <2>2. Place(c) = IF h.at = "pool" THEN Custody!Pool ELSE h
    BY <2>1, PlaceOfOneHolder
  <2> QED BY <2>2 DEF Custody!Taken
<1>7. ASSUME NEW s \in Server, NEW c \in HeldByUnlocker(s)
      PROVE  Place(c) = Custody!Taken(s)
  <2>1. HoldersOf(c) = {[at |-> "taken", by |-> s]}
    BY <1>1, <1>2, <1>3, Zenon DEF HoldersOf
  <2> DEFINE h == [at |-> "taken", by |-> s]
  <2>2. Place(c) = IF h.at = "pool" THEN Custody!Pool ELSE h
    BY <2>1, PlaceOfOneHolder
  <2> QED BY <2>2 DEF Custody!Taken
<1>8. ASSUME NEW c, c \notin Owned PROVE Place(c) = Custody!Gone
  <2>1. HoldersOf(c) = {}
    BY <1>2, <1>3, <1>8, OwnedHolds, Zenon DEF HoldersOf
  <2> QED BY <2>1, Zenon DEF Place, HoldersOf, Custody!Gone
<1> QED BY <1>4, <1>5, <1>6, <1>7, <1>8 DEF PlacesKnown

LEMMA InvGivesPlacesNext == PoolInv' => PlacesKnown'
BY InvGivesPlaces, PTL

\* A place names its holder.
LEMMA PlaceTells ==
  ASSUME PoolInv, NEW c
  PROVE  /\ Place(c) = Custody!Pool => c \in Ids(available)
         /\ \A b : Place(c) = Custody!Lent(b) <=> b \in DOMAIN reservation /\ c \in reservation[b]
         /\ \A t : Place(c) = Custody!Taken(t) <=>
              \/ t \in DOMAIN exec /\ c \in HeldByExec(t)
              \/ t \in Server /\ c \in HeldByUnlocker(t)
<1>1. PlacesKnown
  BY InvGivesPlaces
<1>2. \/ c \in Ids(available)
      \/ \E r \in DOMAIN reservation : c \in reservation[r]
      \/ \E r \in DOMAIN exec : c \in HeldByExec(r)
      \/ \E s \in Server : c \in HeldByUnlocker(s)
      \/ c \notin Owned
  BY DEF Owned, InRedis, ReservedIds, HeldByTasks
<1>3. /\ c \in Ids(available) => Place(c) = [at |-> "pool", by |-> Nil]
      /\ \A r \in DOMAIN reservation : c \in reservation[r] => Place(c) = [at |-> "lent", by |-> r]
      /\ \A r \in DOMAIN exec : c \in HeldByExec(r) => Place(c) = [at |-> "taken", by |-> r]
      /\ \A s \in Server : c \in HeldByUnlocker(s) => Place(c) = [at |-> "taken", by |-> s]
      /\ c \notin Owned => Place(c) = [at |-> "gone", by |-> Nil]
  BY <1>1 DEF PlacesKnown, Custody!Pool, Custody!Gone, Custody!Lent, Custody!Taken
<1>4. Place(c) = Custody!Pool => c \in Ids(available)
  <2> SUFFICES ASSUME Place(c) = [at |-> "pool", by |-> Nil] PROVE c \in Ids(available)
    BY DEF Custody!Pool
  <2>1. Place(c).at = "pool"
    OBVIOUS
  <2>2. \A h, b : [at |-> h, by |-> b].at = h
    OBVIOUS
  <2>3. /\ \A r \in DOMAIN reservation : c \in reservation[r] => Place(c).at = "lent"
        /\ \A r \in DOMAIN exec : c \in HeldByExec(r) => Place(c).at = "taken"
        /\ \A s \in Server : c \in HeldByUnlocker(s) => Place(c).at = "taken"
        /\ c \notin Owned => Place(c).at = "gone"
    BY <1>3, <2>2, Zenon
  <2> QED BY <1>2, <2>1, <2>3
<1>5. ASSUME NEW b
      PROVE  Place(c) = Custody!Lent(b) <=> b \in DOMAIN reservation /\ c \in reservation[b]
  BY <1>2, <1>3 DEF Custody!Lent
<1>6. ASSUME NEW t
      PROVE  Place(c) = Custody!Taken(t) <=>
               \/ t \in DOMAIN exec /\ c \in HeldByExec(t)
               \/ t \in Server /\ c \in HeldByUnlocker(t)
  BY <1>2, <1>3 DEF Custody!Taken
<1> QED BY <1>4, <1>5, <1>6

\* A coin whose holder keeps it stays at its place.
LEMMA PlaceStays ==
  ASSUME PoolInv, PoolInv', Owned' \subseteq Owned, NEW c,
         c \in Ids(available) => c \in Ids(available'),
         \A r \in DOMAIN reservation :
           c \in reservation[r] => r \in DOMAIN reservation' /\ c \in reservation'[r],
         \A r \in DOMAIN exec : c \in HeldByExec(r) => r \in DOMAIN exec' /\ c \in HeldByExec(r)',
         \A s \in Server : c \in HeldByUnlocker(s) => c \in HeldByUnlocker(s)'
  PROVE  Place(c)' = Place(c)
<1>1. PlacesKnown /\ PlacesKnown'
  BY InvGivesPlaces, InvGivesPlacesNext
<1>2. \/ c \in Ids(available)
      \/ \E r \in DOMAIN reservation : c \in reservation[r]
      \/ \E r \in DOMAIN exec : c \in HeldByExec(r)
      \/ \E s \in Server : c \in HeldByUnlocker(s)
      \/ c \notin Owned
  BY DEF Owned, InRedis, ReservedIds, HeldByTasks
<1>3. c \in Ids(available') <=> c \in Ids(available)'
  BY DEF Ids
<1>4. CASE c \in Ids(available)
  BY <1>1, <1>3, <1>4 DEF PlacesKnown, Custody!Pool
<1>5. CASE \E r \in DOMAIN reservation : c \in reservation[r]
  BY <1>1, <1>5 DEF PlacesKnown, Custody!Lent
<1>6. CASE \E r \in DOMAIN exec : c \in HeldByExec(r)
  BY <1>1, <1>6 DEF PlacesKnown, Custody!Taken
<1>7. CASE \E s \in Server : c \in HeldByUnlocker(s)
  BY <1>1, <1>7 DEF PlacesKnown, Custody!Taken
<1>8. CASE c \notin Owned
  BY <1>1, <1>8 DEF PlacesKnown, Custody!Gone
<1> QED BY <1>2, <1>4, <1>5, <1>6, <1>7, <1>8

\* Steps of CoinCustody, in the terms of Place.
LEMMA Lends ==
  ASSUME NEW b \in 1..MaxReservations, nextReservationId \in Nat, b = nextReservationId + 1,
         nextReservationId' = b,
         NEW coins, coins \subseteq ObjectID, coins # {},
         \A c \in coins : Place(c) = Custody!Pool,
         \A c \in ObjectID : Place(c)' = IF c \in coins THEN Custody!Lent(b) ELSE Place(c)
  PROVE  Custody!Next
<1>1. coins \in SUBSET Custody!At(Custody!Pool)
  BY DEF Custody!At
<1>2. b \notin 1..nextReservationId /\ 1..nextReservationId' = 1..nextReservationId \cup {b}
  OBVIOUS
<1>3. [c \in ObjectID |-> Place(c)]' =
        [c \in ObjectID |-> IF c \in coins THEN Custody!Lent(b) ELSE [d \in ObjectID |-> Place(d)][c]]
  OBVIOUS
<1>4. Custody!Lend(b, coins)
  BY <1>2, <1>3 DEF Custody!Lend
<1> QED BY <1>1, <1>4 DEF Custody!Next

LEMMA Loses ==
  ASSUME NEW coins, coins \subseteq ObjectID, UNCHANGED nextReservationId,
         \A c \in coins : \E t \in (1..MaxReservations) \cup Server : Place(c) = Custody!Taken(t),
         \A c \in ObjectID : Place(c)' = IF c \in coins THEN Custody!Gone ELSE Place(c)
  PROVE  Custody!Next
<1>1. coins \in SUBSET UNION {Custody!At(Custody!Taken(t)) : t \in (1..MaxReservations) \cup Server}
  <2>1. \A t : Custody!At(Custody!Taken(t)) = {c \in ObjectID : Place(c) = Custody!Taken(t)}
    BY DEF Custody!At
  <2> QED BY <2>1
<1>2. [c \in ObjectID |-> Place(c)]' =
        [c \in ObjectID |-> IF c \in coins THEN Custody!Gone ELSE [d \in ObjectID |-> Place(d)][c]]
  OBVIOUS
<1>3. Custody!Lose(coins)
  BY <1>2 DEF Custody!Lose
<1> QED BY <1>1, <1>3 DEF Custody!Next

LEMMA Returns ==
  ASSUME NEW t \in (1..MaxReservations) \cup Server, UNCHANGED nextReservationId,
         \A c \in ObjectID : Place(c)' = IF Place(c) = Custody!Taken(t) THEN Custody!Pool ELSE Place(c)
  PROVE  Custody!Next
<1>1. [c \in ObjectID |-> Place(c)]' =
        [c \in ObjectID |-> IF [d \in ObjectID |-> Place(d)][c] = Custody!Taken(t) THEN Custody!Pool
                            ELSE [d \in ObjectID |-> Place(d)][c]]
  OBVIOUS
<1>2. Custody!Return(t)
  BY <1>1 DEF Custody!Return
<1> QED BY <1>2 DEF Custody!Next

LEMMA ReservationIdsBounded ==
  ASSUME PoolInv
  PROVE  /\ nextReservationId \in 0..MaxReservations
         /\ DOMAIN exec \subseteq 1..MaxReservations
         /\ DOMAIN reservation \subseteq 1..MaxReservations
<1>1. /\ nextReservationId \in 0..MaxReservations
      /\ DOMAIN exec \subseteq 1..nextReservationId
      /\ DOMAIN reservation \subseteq 1..nextReservationId
  BY DEF PoolInv, TasksTypeOK, StorageInv, StorageTypeOK
<1> QED BY <1>1, StorageAssumption

\* Tasks that return fewer coins than they took lose the others.
LEMMA TasksLose ==
  ASSUME PoolInv, PoolInv', Owned' \subseteq Owned,
         UNCHANGED <<available, reservation, nextReservationId>>,
         DOMAIN exec' \subseteq DOMAIN exec,
         \A r \in DOMAIN exec' : HeldByExec(r)' \subseteq HeldByExec(r),
         \A s \in Server : HeldByUnlocker(s)' \subseteq HeldByUnlocker(s)
  PROVE  Custody!Next
<1> DEFINE lost == {c \in ObjectID : c \in HeldByTasks /\ c \notin Owned'}
<1>1. /\ Ids(available') = Ids(available) /\ InRedis' = InRedis
      /\ DOMAIN reservation' = DOMAIN reservation
      /\ \A r \in DOMAIN reservation : reservation'[r] = reservation[r]
  BY DEF Ids, InRedis, ReservedIds
<1>2. ASSUME NEW c \in lost
      PROVE  /\ \E t \in (1..MaxReservations) \cup Server : Place(c) = Custody!Taken(t)
             /\ Place(c)' = Custody!Gone
  <2>1. PlacesKnown /\ PlacesKnown'
    BY InvGivesPlaces, InvGivesPlacesNext
  <2>2. Place(c)' = Custody!Gone
    BY <2>1 DEF PlacesKnown, Custody!Gone
  <2>3. DOMAIN exec \subseteq 1..MaxReservations
    BY ReservationIdsBounded
  <2>4. CASE \E r \in DOMAIN exec : c \in HeldByExec(r)
    BY <2>1, <2>2, <2>3, <2>4 DEF PlacesKnown
  <2>5. CASE \E s \in Server : c \in HeldByUnlocker(s)
    BY <2>1, <2>2, <2>5 DEF PlacesKnown
  <2> QED BY <2>4, <2>5 DEF HeldByTasks
<1>3. ASSUME NEW c \in ObjectID \ lost
      PROVE  Place(c)' = Place(c)
  <2>1. c \in HeldByTasks => c \in Owned'
    OBVIOUS
  <2>2. \/ c \in InRedis
        \/ \E r \in DOMAIN exec' : c \in HeldByExec(r)'
        \/ \E s \in Server : c \in HeldByUnlocker(s)'
        \/ c \notin Owned'
    BY <1>1 DEF Owned, HeldByTasks
  <2>3. ASSUME NEW r \in DOMAIN exec, c \in HeldByExec(r)
        PROVE  r \in DOMAIN exec' /\ c \in HeldByExec(r)'
    <3>1. c \in Owned' /\ c \notin InRedis
      BY <2>1, <2>3 DEF HeldByTasks, PoolInv, HoldersApart
    <3>2. /\ \A q \in DOMAIN exec : c \in HeldByExec(q) => q = r
          /\ \A s \in Server : c \notin HeldByUnlocker(s)
      BY <2>3 DEF PoolInv, HoldersApart
    <3>3. \A s \in Server : c \notin HeldByUnlocker(s)'
      BY <3>2
    <3>4. \A q \in DOMAIN exec' : c \in HeldByExec(q)' => q = r
      BY <3>2
    <3> QED BY <2>2, <3>1, <3>3, <3>4
  <2>4. ASSUME NEW s \in Server, c \in HeldByUnlocker(s)
        PROVE  c \in HeldByUnlocker(s)'
    <3>1. c \in Owned' /\ c \notin InRedis
      BY <2>1, <2>4 DEF HeldByTasks, PoolInv, HoldersApart
    <3>2. /\ \A q \in DOMAIN exec : c \notin HeldByExec(q)
          /\ \A t \in Server : c \in HeldByUnlocker(t) => t = s
      BY <2>4 DEF PoolInv, HoldersApart
    <3>3. \A t \in Server : c \in HeldByUnlocker(t)' => t = s
      BY <3>2
    <3>4. \A q \in DOMAIN exec' : c \notin HeldByExec(q)'
      BY <3>2
    <3> QED BY <2>2, <3>1, <3>3, <3>4
  <2> QED BY <1>1, <2>3, <2>4, PlaceStays
<1>4. \A c \in ObjectID : Place(c)' = IF c \in lost THEN Custody!Gone ELSE Place(c)
  BY <1>2, <1>3
<1>5. lost \subseteq ObjectID /\ UNCHANGED nextReservationId
  OBVIOUS
<1>6. \A c \in lost : \E t \in (1..MaxReservations) \cup Server : Place(c) = Custody!Taken(t)
  BY <1>2
<1> HIDE DEF lost
<1> QED BY <1>4, <1>5, <1>6, Loses

\* Task t takes the reservations bs out of Redis, and keeps some of their coins.
TakesInto(bs, t, kept) ==
  /\ UNCHANGED <<available, nextReservationId>>
  /\ bs \subseteq DOMAIN reservation
  /\ DOMAIN reservation' = DOMAIN reservation \ bs
  /\ \A r \in DOMAIN reservation' : reservation'[r] = reservation[r]
  /\ t \in (1..MaxReservations) \cup Server
  /\ t \in DOMAIN exec => HeldByExec(t) = {}
  /\ t \in Server => HeldByUnlocker(t) = {}
  /\ \A c \in kept : /\ \E b \in bs : c \in reservation[b]
                     /\ Place(c)' = Custody!Taken(t)
  /\ \A b \in bs : \A c \in reservation[b] : c \in kept \/ c \notin Owned'
  /\ \A r \in DOMAIN exec : r \in DOMAIN exec' /\ HeldByExec(r)' = HeldByExec(r)
  /\ \A s \in Server : \A c \in HeldByUnlocker(s) : c \in HeldByUnlocker(s)'

LEMMA TaskTakes ==
  ASSUME PoolInv, PoolInv', Owned' \subseteq Owned,
         NEW bs, NEW t, NEW kept, TakesInto(bs, t, kept)
  PROVE  Custody!Next
<1> DEFINE lent == {c \in ObjectID : \E b \in bs : c \in reservation[b]}
<1>1. PlacesKnown /\ PlacesKnown'
  BY InvGivesPlaces, InvGivesPlacesNext
<1>2. /\ DOMAIN reservation \subseteq 1..nextReservationId
      /\ \A b \in DOMAIN reservation : reservation[b] \subseteq ObjectID
  BY DEF PoolInv, StorageInv, StorageTypeOK
<1>3. bs \subseteq 1..nextReservationId /\ kept \subseteq lent /\ lent \subseteq ObjectID
  BY <1>2 DEF TakesInto
<1>4. \A c \in ObjectID : Place(c) # Custody!Taken(t)
  BY PlaceTells DEF TakesInto
<1>5. \A c \in ObjectID : c \in lent <=> \E b \in bs : Place(c) = Custody!Lent(b)
  BY PlaceTells DEF TakesInto
<1>6. ASSUME NEW c \in lent, c \notin kept PROVE Place(c)' = Custody!Gone
  <2>1. c \notin Owned'
    BY <1>6 DEF TakesInto
  <2> QED BY <1>1, <2>1 DEF PlacesKnown, Custody!Gone
<1>7. ASSUME NEW c \in ObjectID, c \notin lent PROVE Place(c)' = Place(c)
  <2>1. c \in Ids(available) => c \in Ids(available')
    BY DEF Ids, TakesInto
  <2>2. \A r \in DOMAIN reservation :
          c \in reservation[r] => r \in DOMAIN reservation' /\ c \in reservation'[r]
    BY <1>7 DEF TakesInto
  <2>3. /\ \A r \in DOMAIN exec : c \in HeldByExec(r) => r \in DOMAIN exec' /\ c \in HeldByExec(r)'
        /\ \A s \in Server : c \in HeldByUnlocker(s) => c \in HeldByUnlocker(s)'
    BY DEF TakesInto
  <2> QED BY <2>1, <2>2, <2>3, PlaceStays
<1>8. \A c \in ObjectID : Place(c)' = IF c \in kept THEN Custody!Taken(t)
                                      ELSE IF c \in lent THEN Custody!Gone ELSE Place(c)
  BY <1>3, <1>6, <1>7 DEF TakesInto
<1> HIDE DEF lent
<1>9. Custody!At(Custody!Taken(t)) = {}
  BY <1>4 DEF Custody!At
<1>10. lent = UNION {Custody!At(Custody!Lent(b)) : b \in bs}
  <2>1. \A b : Custody!At(Custody!Lent(b)) = {c \in ObjectID : Place(c) = Custody!Lent(b)}
    BY DEF Custody!At
  <2> QED BY <1>3, <1>5, <2>1
<1>11. [c \in ObjectID |-> Place(c)]' =
         [c \in ObjectID |-> IF c \in kept THEN Custody!Taken(t)
                             ELSE IF c \in lent THEN Custody!Gone
                             ELSE [d \in ObjectID |-> Place(d)][c]]
  BY <1>8
<1>12. kept \in SUBSET lent /\ UNCHANGED (1..nextReservationId)
  BY <1>3 DEF TakesInto
<1>13. Custody!Take(bs, t)
  <2> DEFINE held == UNION {Custody!At(Custody!Lent(b)) : b \in bs}
  <2>1. lent = held
    BY <1>10
  <2> HIDE DEF held
  <2>2. [c \in ObjectID |-> Place(c)]' =
          [c \in ObjectID |-> IF c \in kept THEN Custody!Taken(t)
                              ELSE IF c \in held THEN Custody!Gone
                              ELSE [d \in ObjectID |-> Place(d)][c]]
    BY <1>11, <2>1
  <2>3. kept \in SUBSET held /\ UNCHANGED (1..nextReservationId)
    BY <1>12, <2>1
  <2> USE DEF held
  <2> QED BY <1>9, <2>2, <2>3, Zenon DEF Custody!Take
<1>14. t \in (1..MaxReservations) \cup Server
  BY DEF TakesInto
<1> QED BY <1>3, <1>13, <1>14, Zenon DEF Custody!Next

LEMMA AddToQueue ==
  ASSUME StorageInv, NEW coins \in Seq(GasCoin), AddNewCoins(coins)
  PROVE  /\ Ids(available') = Ids(available) \cup Ids(coins)
         /\ UNCHANGED <<reservation, nextReservationId>>
<1>1. available' = available \o coins /\ UNCHANGED <<reservation, nextReservationId>>
  BY AddBringsIn
<1> QED BY <1>1, IdsOfConcat DEF StorageInv, StorageTypeOK

\* A task gives what it took to the queue.
LEMMA TaskReturns ==
  ASSUME PoolInv, PoolInv', Owned' \subseteq Owned,
         UNCHANGED <<reservation, nextReservationId>>,
         NEW t \in (1..MaxReservations) \cup Server, NEW held,
         \A c : c \in held <=> Place(c) = Custody!Taken(t),
         Ids(available') = Ids(available) \cup held,
         \A r \in DOMAIN exec : r # t => r \in DOMAIN exec' /\ HeldByExec(r)' = HeldByExec(r),
         \A s \in Server : s # t => HeldByUnlocker(s)' = HeldByUnlocker(s)
  PROVE  Custody!Next
<1>1. ASSUME NEW c \in held PROVE Place(c)' = Custody!Pool
  <2>1. c \in Ids(available)'
    BY DEF Ids
  <2>2. PlacesKnown'
    BY InvGivesPlacesNext
  <2> QED BY <2>1, <2>2 DEF PlacesKnown, Custody!Pool
<1>2. ASSUME NEW c, c \notin held PROVE Place(c)' = Place(c)
  <2>1. /\ t \in DOMAIN exec => c \notin HeldByExec(t)
        /\ t \in Server => c \notin HeldByUnlocker(t)
    BY <1>2, PlaceTells
  <2>2. /\ \A r \in DOMAIN exec : c \in HeldByExec(r) => r \in DOMAIN exec' /\ c \in HeldByExec(r)'
        /\ \A s \in Server : c \in HeldByUnlocker(s) => c \in HeldByUnlocker(s)'
    BY <2>1
  <2> QED BY <2>2, PlaceStays
<1>3. \A c \in ObjectID :
        Place(c)' = IF Place(c) = Custody!Taken(t) THEN Custody!Pool ELSE Place(c)
  BY <1>1, <1>2
<1>4. UNCHANGED nextReservationId
  OBVIOUS
<1> QED BY <1>3, <1>4, Returns

\* The steps of an execution task.
LEMMA ExecStepImplementsCustody ==
  ASSUME CoinsTracked, NamesApart, PoolInv, PoolInv', Owned' \subseteq Owned,
         NEW r \in DOMAIN exec, ExecStep(r)
  PROVE  Custody!Next
<1>1. \A q \in DOMAIN exec : exec[q] \in ExecTask
  BY DEF PoolInv, TasksTypeOK
<1>2. \A q \in DOMAIN exec : exec'[q] = exec[q] => HeldByExec(q)' = HeldByExec(q)
  BY DEF HeldByExec, Ids
<1>3. \A s \in Server : UNCHANGED unlocker => HeldByUnlocker(s)' = HeldByUnlocker(s)
  BY DEF HeldByUnlocker, Ids
<1>4. ASSUME UNCHANGED <<storageVars, unlocker>>, DOMAIN exec' = DOMAIN exec,
             \A q \in DOMAIN exec : q # r => exec'[q] = exec[q],
             HeldByExec(r)' \subseteq HeldByExec(r)
      PROVE  Custody!Next
  <2>1. UNCHANGED <<available, reservation, nextReservationId>>
    BY <1>4 DEF storageVars
  <2>2. /\ \A q \in DOMAIN exec' : HeldByExec(q)' \subseteq HeldByExec(q)
        /\ \A s \in Server : HeldByUnlocker(s)' \subseteq HeldByUnlocker(s)
    BY <1>2, <1>3, <1>4
  <2> QED BY <1>4, <2>1, <2>2, TasksLose
<1>5. ASSUME ReadTotalBalance(r) \/ FailExecution(r) \/ SubmitTimeout(r)
      PROVE  Custody!Next
  <2>1. /\ UNCHANGED <<storageVars, unlocker>> /\ DOMAIN exec' = DOMAIN exec
        /\ \A q \in DOMAIN exec : q # r => exec'[q] = exec[q]
        /\ exec[r].stage # "release" /\ exec'[r].stage # "release"
        /\ exec'[r].payment = exec[r].payment
    BY <1>1, <1>5 DEF ReadTotalBalance, FailExecution, SubmitTimeout, ExecTask
  <2>2. HeldByExec(r)' = HeldByExec(r)
    BY <2>1 DEF HeldByExec, Ids
  <2> QED BY <1>4, <2>1, <2>2
<1>6. ASSUME NEW usage \in Usage, ExecuteTransaction(r, usage) PROVE Custody!Next
  <2>1. /\ Land(exec[r].payment, usage) /\ UNCHANGED <<storageVars, unlocker>>
        /\ DOMAIN exec' = DOMAIN exec /\ exec[r].stage = "funded"
        /\ \A q \in DOMAIN exec : q # r => exec'[q] = exec[q]
    BY <1>1, <1>6 DEF ExecuteTransaction, ExecTask
  <2>2. HeldByExec(r)' = {exec[r].payment[1].id}
    BY <1>6, ExecuteTransactionKeepsInv
  <2>3. exec[r].payment \in Seq(ObjectRef)
    BY <1>1 DEF ExecTask
  <2>4. exec[r].payment[1].id \in Ids(exec[r].payment)
    BY <2>1, <2>3, LandChanges DEF PoolInv
  <2>5. HeldByExec(r) = Ids(exec[r].payment)
    BY <2>1 DEF HeldByExec
  <2> QED BY <1>4, <2>1, <2>2, <2>4, <2>5
<1>7. ASSUME QueryLatest(r) PROVE Custody!Next
  <2>1. HeldByExec(r)' \subseteq HeldByExec(r)
    BY <1>7, QueryLatestKeepsInv
  <2>2. /\ UNCHANGED <<storageVars, unlocker>> /\ DOMAIN exec' = DOMAIN exec
        /\ \A q \in DOMAIN exec : q # r => exec'[q] = exec[q]
    BY <1>1, <1>7 DEF QueryLatest, ExecTask
  <2> QED BY <1>4, <2>1, <2>2
<1>8. ASSUME ReleaseCoins(r) PROVE Custody!Next
  <2> DEFINE S == DOMAIN exec \ {r}
  <2>1. /\ exec' = Restrict(exec, S) /\ UNCHANGED unlocker
        /\ exec[r].stage = "release" /\ AddNewCoins(exec[r].coins)
    BY <1>8 DEF ReleaseCoins
  <2>2. DOMAIN exec' = S /\ \A q \in S : HeldByExec(q)' = HeldByExec(q)
    BY <2>1, TasksKept
  <2>3. exec[r].coins \in Seq(GasCoin) /\ HeldByExec(r) = Ids(exec[r].coins)
    BY <1>1, <2>1 DEF ExecTask, HeldByExec
  <2>4. /\ Ids(available') = Ids(available) \cup HeldByExec(r)
        /\ UNCHANGED <<reservation, nextReservationId>>
    BY <2>1, <2>3, AddToQueue DEF PoolInv
  <2>5. r \in 1..MaxReservations
    BY ReservationIdsBounded
  <2>6. \A c : c \in HeldByExec(r) <=> Place(c) = Custody!Taken(r)
    <3>1. r \notin Server
      BY <2>5 DEF NamesApart
    <3> QED BY <3>1, PlaceTells
  <2> QED BY <1>3, <2>1, <2>2, <2>4, <2>5, <2>6, TaskReturns
<1>9. ~ReleaseReplyLost(r)
  BY DEF CoinsTracked, ReleaseReplyLost
<1> QED BY <1>5, <1>6, <1>7, <1>8, <1>9 DEF ExecStep

\* The steps of an unlocker.
LEMMA UnlockerStepImplementsCustody ==
  ASSUME CoinsTracked, NamesApart, PoolInv, PoolInv', Owned' \subseteq Owned,
         NEW s \in Server, UnlockerStep(s)
  PROVE  Custody!Next
<1>1. \A t \in Server : unlocker'[t] = unlocker[t] => HeldByUnlocker(t)' = HeldByUnlocker(t)
  BY DEF HeldByUnlocker, Ids
<1>2. \A q \in DOMAIN exec : UNCHANGED exec => HeldByExec(q)' = HeldByExec(q)
  BY DEF HeldByExec, Ids
<1>3. s \notin DOMAIN exec
  BY ReservationIdsBounded DEF NamesApart
<1>4. unlocker[s].stage = "idle" => HeldByUnlocker(s) = {}
  BY DEF HeldByUnlocker, PoolInv, ReturnsDistinct
<1>5. ASSUME ExpireCoins, UNCHANGED exec, unlocker[s].stage = "idle",
             \A t \in Server : t # s => unlocker'[t] = unlocker[t],
             HeldByUnlocker(s)' = ExpiredIds \/ UNCHANGED unlocker
      PROVE  Custody!Next
  <2>0. PICK bs, kept : bs = Due \cap DOMAIN reservation /\ kept = HeldByUnlocker(s)'
    OBVIOUS
  <2>1. /\ bs \subseteq DOMAIN reservation
        /\ DOMAIN reservation' = DOMAIN reservation \ bs
        /\ \A q \in DOMAIN reservation' : reservation'[q] = reservation[q]
        /\ UNCHANGED <<available, nextReservationId>>
        /\ ExpiredIds \cap InRedis' = {}
        /\ \A b \in bs : \A c \in reservation[b] : c \in ExpiredIds
    BY <1>5, <2>0, ExpireTakes DEF PoolInv
  <2>2. \A c \in ExpiredIds : \E b \in bs : c \in reservation[b]
    BY <2>0 DEF ExpiredIds
  <2>3. kept = ExpiredIds \/ kept = {}
    BY <1>1, <1>4, <1>5, <2>0
  <2>4. \A c \in kept : /\ \E b \in bs : c \in reservation[b]
                        /\ Place(c)' = Custody!Taken(s)
    <3>1. PlacesKnown'
      BY InvGivesPlacesNext
    <3> QED BY <2>0, <2>2, <2>3, <3>1 DEF PlacesKnown, Custody!Taken
  <2>5. ASSUME NEW b \in bs, NEW c \in reservation[b]
        PROVE  c \in kept \/ c \notin Owned'
    <3>1. c \in InRedis /\ c \notin InRedis'
      BY <2>1, <1>5, ExpireTakes DEF PoolInv
    <3>2. /\ \A q \in DOMAIN exec : c \notin HeldByExec(q)'
          /\ \A t \in Server : t # s => c \notin HeldByUnlocker(t)'
      BY <1>1, <1>2, <1>5, <3>1 DEF PoolInv, HoldersApart
    <3> QED BY <1>5, <2>0, <3>1, <3>2 DEF Owned, HeldByTasks
  <2>6. /\ \A r \in DOMAIN exec : r \in DOMAIN exec' /\ HeldByExec(r)' = HeldByExec(r)
        /\ \A t \in Server : \A c \in HeldByUnlocker(t) : c \in HeldByUnlocker(t)'
    BY <1>1, <1>2, <1>4, <1>5
  <2>7. /\ s \in (1..MaxReservations) \cup Server
        /\ s \in DOMAIN exec => HeldByExec(s) = {}
        /\ s \in Server => HeldByUnlocker(s) = {}
    BY <1>3, <1>4, <1>5
  <2>8. \A b \in bs : \A c \in reservation[b] : c \in kept \/ c \notin Owned'
    BY <2>5
  <2>9. TakesInto(bs, s, kept)
    BY <2>1, <2>4, <2>6, <2>7, <2>8 DEF TakesInto
  <2> QED BY <2>9, TaskTakes
<1>6. CASE UnlockerExpire(s)
  <2>1. /\ ExpireCoins /\ UNCHANGED exec /\ unlocker[s].stage = "idle"
        /\ \A t \in Server : t # s => unlocker'[t] = unlocker[t]
    BY <1>6 DEF UnlockerExpire, PoolInv, TasksTypeOK
  <2>2. HeldByUnlocker(s)' = ExpiredIds
    BY <1>6, UnlockerExpireKeepsInv
  <2> QED BY <1>5, <2>1, <2>2
<1>7. CASE ExpireReplyLost(s)
  BY <1>5, <1>7 DEF ExpireReplyLost, taskVars
<1>8. CASE UnlockerQuery(s)
  <2>1. HeldByUnlocker(s)' \subseteq HeldByUnlocker(s)
    BY <1>8, UnlockerQueryKeepsInv
  <2>2. /\ UNCHANGED <<available, reservation, nextReservationId, exec>>
        /\ \A t \in Server : t # s => unlocker'[t] = unlocker[t]
    BY <1>8 DEF UnlockerQuery, storageVars, PoolInv, TasksTypeOK
  <2> QED BY <1>1, <1>2, <2>1, <2>2, TasksLose
<1>9. CASE UnlockerRelease(s)
  <2>1. /\ unlocker'[s] = Idle /\ \A t \in Server : t # s => unlocker'[t] = unlocker[t]
        /\ UNCHANGED exec
        /\ unlocker[s].stage = "release" /\ AddNewCoins(unlocker[s].coins)
    BY <1>9 DEF UnlockerRelease, PoolInv, TasksTypeOK
  <2>2. HeldByUnlocker(s)' = {}
    BY <2>1 DEF HeldByUnlocker, Idle
  <2>3. unlocker[s].coins \in Seq(GasCoin) /\ HeldByUnlocker(s) = Ids(unlocker[s].coins)
    BY <2>1 DEF UnlockTask, HeldByUnlocker, PoolInv, TasksTypeOK
  <2>4. /\ Ids(available') = Ids(available) \cup HeldByUnlocker(s)
        /\ UNCHANGED <<reservation, nextReservationId>>
    BY <2>1, <2>3, AddToQueue DEF PoolInv
  <2>5. \A c : c \in HeldByUnlocker(s) <=> Place(c) = Custody!Taken(s)
    BY <1>3, PlaceTells
  <2> QED BY <1>1, <1>2, <1>3, <2>1, <2>4, <2>5, TaskReturns
<1>10. ~UnlockerReplyLost(s)
  BY DEF CoinsTracked, UnlockerReplyLost
<1> QED BY <1>6, <1>7, <1>8, <1>9, <1>10 DEF UnlockerStep

\* The steps of the clients' requests.
LEMMA ClientImplementsCustody ==
  ASSUME CoinsTracked, NamesApart, PoolInv, PoolInv', Owned' \subseteq Owned, ClientRequest
  PROVE  Custody!Next
<1>1. \A s \in Server : UNCHANGED unlocker => HeldByUnlocker(s)' = HeldByUnlocker(s)
  BY DEF HeldByUnlocker, Ids
<1>2. \A q \in DOMAIN exec : exec'[q] = exec[q] => HeldByExec(q)' = HeldByExec(q)
  BY DEF HeldByExec, Ids
<1>3. ASSUME NEW budget \in Budget, NEW duration, ReserveGas(budget, duration) PROVE Custody!Next
  <2> DEFINE b == nextReservationId'
  <2>1. /\ ReserveGasCoins(budget, duration) /\ UNCHANGED <<exec, unlocker>>
        /\ CheckValidity(budget, duration)
    BY <1>3 DEF ReserveGas
  <2>2. /\ b = nextReservationId + 1 /\ b \notin DOMAIN reservation
        /\ Ids(available) = Ids(Popped) \cup Ids(available')
        /\ DOMAIN reservation' = DOMAIN reservation \cup {b}
        /\ reservation'[b] = Ids(Popped)
        /\ \A r \in DOMAIN reservation : reservation'[r] = reservation[r]
    BY <2>1, ReserveMoves DEF PoolInv
  <2>3. b \in 1..MaxReservations /\ nextReservationId \in Nat
    <3>1. nextReservationId \in 0..MaxReservations /\ nextReservationId' \in 0..MaxReservations
      BY DEF PoolInv, StorageInv, StorageTypeOK
    <3> QED BY <2>2, <3>1, StorageAssumption
  <2>4. Ids(Popped) \subseteq ObjectID /\ Ids(Popped) # {}
    <3>1. Ids(Popped) \subseteq ObjectID
      BY <2>2 DEF PoolInv, StorageInv, StorageTypeOK
    <3>2. budget \in Nat \ {0}
      BY <2>1, StorageAssumption DEF CheckValidity
    <3>3. reservation'[b] # {}
      BY <2>1, <2>2, <3>2, GrantWithinLimits DEF PoolInv
    <3> QED BY <2>2, <3>1, <3>3
  <2>5. \A c \in Ids(Popped) : Place(c) = Custody!Pool
    BY <2>2, InvGivesPlaces DEF PlacesKnown
  <2>6. \A c \in Ids(Popped) : Place(c)' = Custody!Lent(b)
    <3>1. PlacesKnown'
      BY InvGivesPlacesNext
    <3> QED BY <2>2, <3>1 DEF PlacesKnown, Custody!Lent
  <2>7. ASSUME NEW c, c \notin Ids(Popped) PROVE Place(c)' = Place(c)
    <3>1. c \in Ids(available) => c \in Ids(available')
      BY <2>2, <2>7
    <3>2. \A r \in DOMAIN reservation :
            c \in reservation[r] => r \in DOMAIN reservation' /\ c \in reservation'[r]
      BY <2>2
    <3>3. /\ \A r \in DOMAIN exec : c \in HeldByExec(r) => r \in DOMAIN exec' /\ c \in HeldByExec(r)'
          /\ \A s \in Server : c \in HeldByUnlocker(s) => c \in HeldByUnlocker(s)'
      BY <1>1, <1>2, <2>1
    <3> QED BY <3>1, <3>2, <3>3, PlaceStays
  <2>8. \A c \in ObjectID : Place(c)' = IF c \in Ids(Popped) THEN Custody!Lent(b) ELSE Place(c)
    BY <2>6, <2>7
  <2> QED BY <2>2, <2>3, <2>4, <2>5, <2>8, Lends
<1>4. ASSUME NEW r, ReadyForExecution(r), UNCHANGED unlocker, r \notin DOMAIN exec,
             \A q \in DOMAIN exec : q \in DOMAIN exec' /\ exec'[q] = exec[q],
             NEW kept, kept \subseteq reservation[r],
             \/ DOMAIN exec' = DOMAIN exec /\ kept = {}
             \/ DOMAIN exec' = DOMAIN exec \cup {r} /\ kept = HeldByExec(r)'
      PROVE  Custody!Next
  <2>1. /\ {r} \subseteq DOMAIN reservation /\ reservation[r] \subseteq InRedis
        /\ reservation[r] \cap InRedis' = {}
        /\ DOMAIN reservation' = DOMAIN reservation \ {r}
        /\ \A q \in DOMAIN reservation' : reservation'[q] = reservation[q]
        /\ UNCHANGED <<available, nextReservationId>>
    BY <1>4, ReadyTakes DEF PoolInv
  <2>2. r \in (1..MaxReservations) \cup Server /\ r \notin Server
    BY <2>1, ReservationIdsBounded DEF NamesApart
  <2>3. \A c \in kept : c \in reservation[r] /\ Place(c)' = Custody!Taken(r)
    <3>1. PlacesKnown'
      BY InvGivesPlacesNext
    <3> QED BY <1>4, <3>1 DEF PlacesKnown, Custody!Taken
  <2>4. ASSUME NEW c \in reservation[r] PROVE c \in kept \/ c \notin Owned'
    <3>1. /\ \A q \in DOMAIN exec : c \notin HeldByExec(q)'
          /\ \A s \in Server : c \notin HeldByUnlocker(s)'
      BY <1>1, <1>2, <1>4, <2>1 DEF PoolInv, HoldersApart
    <3> QED BY <1>4, <2>1, <3>1 DEF Owned, HeldByTasks
  <2>5. TakesInto({r}, r, kept)
    <3>1. /\ \A q \in DOMAIN exec : q \in DOMAIN exec' /\ HeldByExec(q)' = HeldByExec(q)
          /\ \A s \in Server : \A c \in HeldByUnlocker(s) : c \in HeldByUnlocker(s)'
      BY <1>1, <1>2, <1>4
    <3> QED BY <1>4, <2>1, <2>2, <2>3, <2>4, <3>1 DEF TakesInto
  <2> QED BY <2>5, TaskTakes
<1>5. ASSUME NEW s \in Server, NEW r \in DOMAIN reservation, NEW payment \in Payments(r),
             StartExecution(s, r, payment)
      PROVE  Custody!Next
  <2>1. /\ r \in DOMAIN granted /\ ReadyForExecution(r) /\ UNCHANGED unlocker
        /\ DOMAIN exec' = DOMAIN exec \cup {r}
        /\ \A q \in DOMAIN exec : q # r => exec'[q] = exec[q]
    BY <1>5 DEF StartExecution
  <2>2. r \notin DOMAIN exec /\ HeldByExec(r)' = Ids(payment)
    BY <1>5, StartExecutionKeepsInv
  <2>3. Ids(payment) \subseteq Ids(granted[r])
    BY <2>1, PaymentIsPart DEF PoolInv, TasksTypeOK
  <2>4. Ids(granted[r]) = reservation[r]
    BY <2>1 DEF PoolInv, TasksMatch
  <2> QED BY <1>4, <2>1, <2>2, <2>3, <2>4
<1>6. ASSUME NEW s \in Server, NEW r \in DOMAIN reservation, StartReplyLost(s, r)
      PROVE  Custody!Next
  <2>1. ReadyForExecution(r) /\ UNCHANGED <<exec, unlocker>>
    BY <1>6 DEF StartReplyLost, taskVars
  <2>2. r \notin DOMAIN exec
    BY DEF PoolInv, TasksMatch
  <2>3. PICK kept : kept = {}
    OBVIOUS
  <2>4. kept \subseteq reservation[r] /\ DOMAIN exec' = DOMAIN exec
    BY <2>1, <2>3
  <2>5. \A q \in DOMAIN exec : q \in DOMAIN exec' /\ exec'[q] = exec[q]
    BY <2>1
  <2> QED BY <1>4, <2>1, <2>2, <2>3, <2>4, <2>5
<1> QED BY <1>3, <1>5, <1>6 DEF ClientRequest


\* With reservation ids and server names told apart, the pool is a custody of coins,
\* for the faults crash, timeout, fullnode_lag, lost_take_reply and
\* incomplete_payment: whatever the tasks of all servers do, every step moves coins
\* of one holder to one place, lends to one borrower once, or loses coins in the
\* hands of a borrower or a task for good.
THEOREM PoolImplementsCustody == CoinsTracked /\ NamesApart => (Spec => ImplementsCustody)
<1> SUFFICES ASSUME CoinsTracked, NamesApart PROVE Spec => ImplementsCustody
  OBVIOUS
<1>1. Init => Custody!Init
  <2> SUFFICES ASSUME Init PROVE Custody!Init
    OBVIOUS
  <2>1. PlacesKnown
    BY InitGivesInv, InvGivesPlaces
  <2>2. \A c \in ObjectID : Place(c) = Custody!Pool
    BY <2>1, InitFillsQueue DEF PlacesKnown
  <2>3. 1..nextReservationId = {}
    BY DEF Init
  <2> QED BY <2>2, <2>3 DEF Custody!Init
<1>2. PoolInv /\ PoolInv' /\ [Next]_vars => [Custody!Next]_Custody!custodyVars
  <2> SUFFICES ASSUME PoolInv, PoolInv', [Next]_vars PROVE Custody!Next
    OBVIOUS
  <2>1. Owned' \subseteq Owned
    BY NextShrinksOwned
  <2>2. ASSUME UNCHANGED <<available, reservation, nextReservationId, exec, unlocker>>
        PROVE  Custody!Next
    <3>1. /\ \A q \in DOMAIN exec : HeldByExec(q)' = HeldByExec(q)
          /\ \A s \in Server : HeldByUnlocker(s)' = HeldByUnlocker(s)
      BY <2>2 DEF HeldByExec, HeldByUnlocker, Ids
    <3> QED BY <2>1, <2>2, <3>1, TasksLose
  <2>3. CASE UNCHANGED vars
    BY <2>2, <2>3 DEF vars, storageVars, taskVars
  <2>4. ASSUME NEW s \in Server, Crash(s) PROVE Custody!Next
    <3>1. /\ DOMAIN exec' = DOMAIN exec \ ExecsOf(s)
          /\ \A r \in DOMAIN exec' : HeldByExec(r)' = HeldByExec(r)
          /\ \A t \in Server \ {s} : HeldByUnlocker(t)' = HeldByUnlocker(t)
      BY <2>4, CrashKeepsInv
    <3>2. unlocker'[s] = Idle /\ UNCHANGED <<available, reservation, nextReservationId>>
      BY <2>4 DEF Crash, Disconnect, PoolInv, TasksTypeOK
    <3>3. HeldByUnlocker(s)' = {}
      BY <3>2 DEF HeldByUnlocker, Idle
    <3>4. \A t \in Server : HeldByUnlocker(t)' \subseteq HeldByUnlocker(t)
      BY <3>1, <3>3
    <3> QED BY <2>1, <3>1, <3>2, <3>4, TasksLose
  <2>5. ASSUME Environment, ~\E s \in Server : Crash(s) PROVE Custody!Next
    <3>1. UNCHANGED <<available, reservation, nextReservationId, exec, unlocker>>
      BY <2>5 DEF Environment, LandLate, DropLate, FullnodeCatchUp, Restart, ConnectStorage,
         PassTime, Tick, storageVars, envVars, taskVars
    <3> QED BY <2>2, <3>1
  <2> QED BY <2>1, <2>3, <2>4, <2>5, ClientImplementsCustody, ExecStepImplementsCustody,
            UnlockerStepImplementsCustody
      DEF Next
<1>3. Spec => []PoolInv
  BY PoolInvariant
<1> QED BY <1>1, <1>2, <1>3, PTL DEF Spec, ImplementsCustody, Custody!Spec

=============================================================================
