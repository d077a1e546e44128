------------------------ MODULE GasPoolServerProofs ------------------------
(***************************************************************************)
(* What the servers' interface keeps for every number of clients, servers, *)
(* coins and reservations.  A step of the servers is a step of the pool,   *)
(* whose invariant carries over, except that the health check reserves     *)
(* coins no client is told of.  On top of it, two invariants: a            *)
(* reservation is good for one attempt, and every open request has a task  *)
(* or a true answer.                                                       *)
(***************************************************************************)
EXTENDS GasPoolServer, GasPoolProofs

-----------------------------------------------------------------------------
(* The servers' steps and the pool's *)

\* A reservation that no client is told of moves its coins, and no task notices.
LEMMA HealthCheckKeepsInv ==
  ASSUME PoolInv, DebugHealthCheck
  PROVE  /\ PoolInv'
         /\ nextReservationId' = nextReservationId + 1
         /\ DOMAIN reservation' = DOMAIN reservation \cup {nextReservationId'}
         /\ UNCHANGED <<granted, exec, unlocker, chain, network>>
<1> DEFINE id == nextReservationId'
<1>1. /\ ReserveGasCoins(HealthBudget, HealthDuration)
      /\ connected # {}
      /\ UNCHANGED <<granted, exec, unlocker, chain, fullnode, network>>
  BY DEF DebugHealthCheck, CheckHealth, envVars, taskVars
<1>2. /\ InRedis' = InRedis
      /\ id = nextReservationId + 1 /\ id \notin DOMAIN reservation
      /\ DOMAIN reservation' = DOMAIN reservation \cup {id}
      /\ \A r \in DOMAIN reservation : reservation'[r] = reservation[r]
      /\ connected' = connected
  BY <1>1, ReserveMoves DEF PoolInv
<1>3. StorageInv'
  BY <1>1, ReserveKeepsInv, ServerAssumption DEF PoolInv
<1>4. nextReservationId \in Nat /\ id \in Nat /\ id \notin DOMAIN exec /\ id \notin DOMAIN granted
  BY <1>2, StorageAssumption DEF PoolInv, TasksTypeOK, StorageInv, StorageTypeOK
<1>5. TasksTypeOK' /\ ChainTypeOK' /\ ChainFiled'
  <2>1. 1..nextReservationId \subseteq 1..nextReservationId'
    BY <1>2, <1>4
  <2>2. network' \subseteq [reservation : 1..nextReservationId', payment : Seq(ObjectRef)]
    BY <1>1, <2>1 DEF PoolInv, TasksTypeOK
  <2> QED BY <1>1, <2>1, <2>2 DEF PoolInv, TasksTypeOK, ChainTypeOK, ChainFiled
<1>6. HoldersApart'
  <2>1. \A q \in DOMAIN exec' : HeldByExec(q)' \subseteq HeldByExec(q)
    BY <1>1 DEF HeldByExec, Ids
  <2>2. \A q \in Server : HeldByUnlocker(q)' \subseteq HeldByUnlocker(q)
    BY <1>1 DEF HeldByUnlocker, Ids
  <2> QED BY <1>1, <1>2, <2>1, <2>2, HoldersShrink DEF PoolInv
<1>7. TasksMatch'
  <2>1. \A r \in DOMAIN granted : Ids(granted[r])' = Ids(granted[r])
    BY <1>1 DEF Ids
  <2>2. \A r \in DOMAIN granted' \cap DOMAIN reservation' : Ids(granted[r])' = reservation'[r]
    BY <1>1, <1>2, <1>4, <2>1 DEF PoolInv, TasksMatch
  <2>3. DOMAIN exec' \cap DOMAIN reservation' = {}
    BY <1>1, <1>2, <1>4 DEF PoolInv, TasksMatch
  <2> QED BY <1>1, <1>2, <2>2, <2>3 DEF PoolInv, TasksMatch
<1>8. ReturnsDistinct'
  BY <1>1 DEF PoolInv, ReturnsDistinct, DistinctIds
<1> QED BY <1>1, <1>2, <1>3, <1>5, <1>6, <1>7, <1>8 DEF PoolInv

\* Every other step is a step of the pool: the handlers add nothing to what Redis,
\* the tasks and the chain do.
LEMMA ServerStepIsPoolStep ==
  ASSUME PoolInv, [ServerNext]_serverVars, ~DebugHealthCheck
  PROVE  [Next]_vars
<1>1. ASSUME NEW k \in Client, NEW s \in Server, NEW budget \in Budget, NEW duration \in Duration,
             GrantReservation(k, s, budget, duration)
      PROVE  Next
  BY <1>1 DEF GrantReservation, Next, ClientRequest
<1>2. ASSUME NEW k \in Client, NEW s \in Server, NEW budget \in Budget, DenyReservation(k, s, budget)
      PROVE  UNCHANGED vars
  <2>1. RejectReservation(budget) /\ UNCHANGED <<envVars, taskVars>>
    BY <1>2 DEF DenyReservation
  <2> QED BY <2>1, RejectChangesNothing DEF PoolInv, StorageInv, vars
<1>3. ASSUME NEW k \in Client, NEW s \in Server, NEW r, AcceptExecution(k, s, r)
      PROVE  Next
  <2>1. PICK payment \in Payments(r) : StartExecution(s, r, payment)
    BY <1>3 DEF AcceptExecution
  <2>2. r \in DOMAIN reservation
    BY <2>1 DEF StartExecution, ReadyForExecution
  <2> QED BY <2>1, <2>2 DEF Next, ClientRequest
<1>4. ASSUME NEW k \in Client, ClientStep(k) PROVE [Next]_vars
  BY <1>1, <1>2, <1>3, <1>4 DEF ClientStep, RefuseReservation, RefuseExecution, DenyExecution,
     ReceiveAnswer, DropConnection
<1>5. ASSUME NEW r \in DOMAIN exec, TaskStep(r) PROVE Next
  BY <1>5 DEF TaskStep, Next
<1>6. ASSUME NEW s \in Server, ServerCrash(s) PROVE Next
  BY <1>6 DEF ServerCrash, Next, Environment
<1>7. ASSUME NEW tx \in network, NEW usage \in Usage, LandUnwatched(tx, usage) PROVE Next
  BY <1>7 DEF LandUnwatched, Next, Environment
<1>8. ASSUME \/ \E s \in Server : UnlockerStep(s) \/ Restart(s)
             \/ \E tx \in network : DropLate(tx)
             \/ PassTime
      PROVE  Next
  BY <1>8 DEF Next, Environment
<1>9. CASE UNCHANGED serverVars
  BY <1>9 DEF serverVars
<1> QED BY <1>4, <1>5, <1>6, <1>7, <1>8, <1>9 DEF ServerNext

LEMMA ServerKeepsPoolInv ==
  ASSUME CoinsTracked, PoolInv, [ServerNext]_serverVars
  PROVE  PoolInv'
BY HealthCheckKeepsInv, ServerStepIsPoolStep, NextKeepsInv

-----------------------------------------------------------------------------
(* One attempt for a reservation *)

\* Reservations that may still get a transaction submitted for them.
Untried ==
  DOMAIN reservation \cup {r \in DOMAIN exec : exec[r].stage \in {"ready", "funded"}}

\* A reservation of which a transaction landed, or may land late, gets no other one.
OneAttempt ==
  /\ DOMAIN exec \subseteq DOMAIN granted
  /\ landed \subseteq DOMAIN granted \ Untried
  /\ \A tx \in network : tx.reservation \in DOMAIN granted \ (Untried \cup landed)
  /\ \A tx, other \in network : tx.reservation = other.reservation => tx = other

\* A step that submits nothing and lands nothing: a reservation may be new, be
\* taken over by a task, or end.
LEMMA AttemptsGoOn ==
  ASSUME OneAttempt,
         DOMAIN exec' \subseteq DOMAIN granted', DOMAIN granted \subseteq DOMAIN granted',
         Untried' \cap DOMAIN granted \subseteq Untried,
         network' \subseteq network, landed' = landed
  PROVE  OneAttempt'
BY DEF OneAttempt

\* A step that leaves transactions of some reservations to the network.
LEMMA AttemptsSent ==
  ASSUME OneAttempt, NEW F \in SUBSET DOMAIN exec, F \subseteq Untried,
         DOMAIN exec' \subseteq DOMAIN exec, granted' = granted,
         Untried' \subseteq Untried \ F,
         network' = network \cup {Sent(r) : r \in F}, landed' = landed
  PROVE  OneAttempt'
<1>1. \A r \in F : Sent(r).reservation = r
  BY DEF Sent
<1>2. \A tx \in network' : tx.reservation \in DOMAIN granted' \ (Untried' \cup landed')
  BY <1>1 DEF OneAttempt
<1>3. \A tx \in network' : tx \in network \/ (tx.reservation \in F /\ tx = Sent(tx.reservation))
  BY <1>1
<1>4. \A tx, other \in network' : tx.reservation = other.reservation => tx = other
  BY <1>3 DEF OneAttempt
<1>5. landed' \subseteq DOMAIN granted' \ Untried' /\ DOMAIN exec' \subseteq DOMAIN granted'
  BY DEF OneAttempt
<1> QED BY <1>2, <1>4, <1>5 DEF OneAttempt

\* A transaction that lands changes the chain.
LEMMA LandMoves ==
  ASSUME NEW payment \in Seq(ObjectRef), NEW usage, Land(payment, usage)
  PROVE  chain' # chain
<1>1. payment # <<>> /\ 1 \in 1..Len(payment)
  BY EmptySeq, LenProperties DEF Land
<1> DEFINE c == payment[1].id
           v == NextVersion(payment)
<1>2. payment[1] \in ObjectRef /\ c \in ObjectID
  <2>1. payment[1] \in ObjectRef
    BY <1>1, ElementOfSeq
  <2> QED BY <2>1 DEF ObjectRef
<1>3. chain[c].version = payment[1].version
  BY <1>1 DEF Land, RefsCurrent
<1>4. payment[1].version < v /\ payment[1].version \in Nat /\ v \in Nat
  BY <1>1, <1>2, NextVersionIsNext DEF ObjectRef
<1> HIDE DEF v
<1>5. chain'[c] = [id |-> c, version |-> v, balance |-> OnChainTotal(payment) - usage]
  BY <1>2 DEF Land, v
<1>6. chain'[c].version = v
  BY <1>5
<1> QED BY <1>3, <1>4, <1>6

\* What the steps of an execution task make of its stage.
LEMMA TaskStages ==
  ASSUME PoolInv, NEW r \in DOMAIN exec, ExecStep(r)
  PROVE  /\ DOMAIN exec' \subseteq DOMAIN exec /\ DOMAIN exec \subseteq DOMAIN exec' \cup {r}
         /\ \A q \in DOMAIN exec' \ {r} : exec'[q] = exec[q]
         /\ r \in DOMAIN exec' => exec'[r].server = exec[r].server
         /\ UNCHANGED <<reservation, granted>>
         /\ r \in Untried' => r \in Untried
<1>1. exec \in [DOMAIN exec -> ExecTask] /\ exec[r] \in ExecTask
  BY DEF PoolInv, TasksTypeOK
<1>2. r \notin DOMAIN reservation
  BY DEF PoolInv, TasksMatch
<1>3. CASE ReadTotalBalance(r)
  BY <1>1, <1>3 DEF ReadTotalBalance, storageVars, ExecTask, Untried
<1>4. CASE FailExecution(r) \/ SubmitTimeout(r)
  BY <1>1, <1>2, <1>4 DEF FailExecution, SubmitTimeout, storageVars, ExecTask, Untried
<1>5. ASSUME NEW usage \in Usage, ExecuteTransaction(r, usage)
      PROVE  /\ DOMAIN exec' = DOMAIN exec
             /\ \A q \in DOMAIN exec' \ {r} : exec'[q] = exec[q]
             /\ exec'[r].server = exec[r].server /\ exec'[r].stage = "release"
             /\ UNCHANGED <<reservation, granted>>
  BY <1>1, <1>5 DEF ExecuteTransaction, storageVars, ExecTask
<1>6. ASSUME QueryLatest(r)
      PROVE  /\ DOMAIN exec' = DOMAIN exec
             /\ \A q \in DOMAIN exec' \ {r} : exec'[q] = exec[q]
             /\ exec'[r].server = exec[r].server /\ exec'[r].stage = "release"
             /\ UNCHANGED <<reservation, granted>>
  BY <1>1, <1>6 DEF QueryLatest, storageVars, ExecTask
<1>7. CASE ReleaseCoins(r)
  <2>1. /\ exec' = Restrict(exec, DOMAIN exec \ {r})
        /\ UNCHANGED <<reservation, granted>>
    BY <1>7 DEF ReleaseCoins, AddNewCoins
  <2>2. /\ DOMAIN exec' = DOMAIN exec \ {r}
        /\ \A q \in DOMAIN exec' : exec'[q] = exec[q]
    BY <2>1 DEF Restrict
  <2> QED BY <1>2, <2>1, <2>2 DEF Untried
<1>8. CASE ReleaseReplyLost(r)
  <2>1. UNCHANGED <<reservation, granted, exec>>
    BY <1>8 DEF ReleaseReplyLost, AddNewCoins, taskVars
  <2> QED BY <2>1 DEF Untried
<1>9. ASSUME DOMAIN exec' = DOMAIN exec, exec'[r].stage = "release", UNCHANGED reservation
      PROVE  r \notin Untried'
  BY <1>2, <1>9 DEF Untried
<1> QED BY <1>3, <1>4, <1>5, <1>6, <1>7, <1>8, <1>9 DEF ExecStep

\* A step of a task lands the transaction of its reservation, sends it off or does
\* neither.
LEMMA TaskStepKeepsAttempt ==
  ASSUME CoinsTracked, PoolInv, OneAttempt, NEW r \in DOMAIN exec, TaskStep(r)
  PROVE  /\ OneAttempt'
         /\ chain' # chain => r \notin landed /\ landed' = landed \cup {r}
         /\ landed \subseteq landed'
<1>0. ExecStep(r) /\ landed' = IF chain' # chain THEN landed \cup {r} ELSE landed
  BY Zenon DEF TaskStep
<1>1. /\ DOMAIN exec' \subseteq DOMAIN exec
      /\ \A q \in DOMAIN exec' \ {r} : exec'[q] = exec[q]
      /\ UNCHANGED <<reservation, granted>>
      /\ r \in Untried' => r \in Untried
  BY <1>0, TaskStages
<1>2. Untried' \subseteq Untried
  BY <1>1 DEF Untried
<1>3. CASE SubmitTimeout(r)
  <2>1. /\ exec[r].stage = "funded" /\ exec' = [exec EXCEPT ![r].stage = "failed"]
        /\ network' = network \cup {Sent(r)} /\ chain' = chain
    BY <1>3 DEF SubmitTimeout
  <2>2. exec'[r].stage = "failed" /\ r \notin DOMAIN reservation
    BY <2>1 DEF PoolInv, TasksMatch, TasksTypeOK, ExecTask
  <2>3. r \in Untried /\ r \notin Untried'
    BY <1>1, <2>1, <2>2 DEF Untried
  <2>4. PICK F \in SUBSET DOMAIN exec : F = {r}
    OBVIOUS
  <2>5. /\ F \subseteq Untried /\ Untried' \subseteq Untried \ F
        /\ network' = network \cup {Sent(q) : q \in F} /\ landed' = landed
    BY <1>0, <1>2, <2>1, <2>3, <2>4
  <2>6. OneAttempt'
    BY <1>1, <2>5, AttemptsSent
  <2> QED BY <1>0, <2>1, <2>6
<1>4. ASSUME NEW usage \in Usage, ExecuteTransaction(r, usage)
      PROVE  OneAttempt' /\ chain' # chain /\ r \notin landed
  <2>1. exec[r].stage = "funded" /\ Land(exec[r].payment, usage) /\ network' = network
    BY <1>4 DEF ExecuteTransaction
  <2>2. exec[r].payment \in Seq(ObjectRef) /\ r \notin DOMAIN reservation
    BY DEF PoolInv, TasksMatch, TasksTypeOK, ExecTask
  <2>3. chain' # chain /\ landed' = landed \cup {r}
    BY <1>0, <2>1, <2>2, LandMoves
  <2>4. r \in Untried /\ r \in DOMAIN granted
    BY <2>1 DEF Untried, OneAttempt
  <2>5. exec'[r].stage = "release"
    BY <1>4 DEF ExecuteTransaction, PoolInv, TasksTypeOK, ExecTask
  <2>6. r \notin Untried'
    BY <1>1, <2>2, <2>5 DEF Untried
  <2> QED BY <1>1, <1>2, <2>1, <2>3, <2>4, <2>6 DEF OneAttempt
<1>5. ASSUME ~SubmitTimeout(r), ~\E usage \in Usage : ExecuteTransaction(r, usage)
      PROVE  OneAttempt' /\ chain' = chain
  <2>1. UNCHANGED <<chain, network>>
    BY <1>0, <1>5 DEF ExecStep, ReadTotalBalance, FailExecution, QueryLatest, ReleaseCoins,
       ReleaseReplyLost, envVars
  <2>2. DOMAIN exec' \subseteq DOMAIN granted'
    BY <1>1 DEF OneAttempt
  <2> QED BY <1>0, <1>1, <1>2, <2>1, <2>2, AttemptsGoOn
<1> QED BY <1>0, <1>3, <1>4, <1>5

\* A reservation that is granted is a new one, and a task takes it from Redis.
LEMMA ClientKeepsAttempt ==
  ASSUME CoinsTracked, PoolInv, OneAttempt,
         \/ \E budget, duration \in Nat : ReserveGas(budget, duration)
         \/ \E s \in Server : \E r : \E payment \in Payments(r) : StartExecution(s, r, payment),
         landed' = landed
  PROVE  OneAttempt'
<1>1. ASSUME NEW budget, NEW duration \in Nat, ReserveGas(budget, duration) PROVE OneAttempt'
  <2> DEFINE id == nextReservationId'
  <2>1. /\ ReserveGasCoins(budget, duration)
        /\ DOMAIN granted' = DOMAIN granted \cup {id}
        /\ UNCHANGED <<exec, network>>
    BY <1>1 DEF ReserveGas, envVars
  <2>2. id = nextReservationId + 1 /\ DOMAIN reservation' = DOMAIN reservation \cup {id}
    BY <2>1, ReserveMoves DEF PoolInv
  <2>3. id \notin DOMAIN granted
    BY <2>2, StorageAssumption DEF PoolInv, TasksTypeOK, StorageInv, StorageTypeOK
  <2>4. Untried' \cap DOMAIN granted \subseteq Untried
    BY <2>1, <2>2, <2>3 DEF Untried
  <2>5. DOMAIN exec' \subseteq DOMAIN granted'
    BY <2>1 DEF OneAttempt
  <2> QED BY <2>1, <2>4, <2>5, AttemptsGoOn
<1>2. ASSUME NEW s \in Server, NEW r, NEW payment \in Payments(r), StartExecution(s, r, payment)
      PROVE  OneAttempt'
  <2>1. /\ r \in DOMAIN granted /\ ReadyForExecution(r) /\ UNCHANGED <<granted, network>>
        /\ DOMAIN exec' = DOMAIN exec \cup {r}
        /\ \A q \in DOMAIN exec : q # r => exec'[q] = exec[q]
    BY <1>2 DEF StartExecution, envVars
  <2>2. r \in DOMAIN reservation /\ DOMAIN reservation' = DOMAIN reservation \ {r}
    BY <2>1, ReadyTakes DEF PoolInv
  <2>3. Untried' \subseteq Untried
    BY <2>1, <2>2 DEF Untried
  <2>4. DOMAIN exec' \subseteq DOMAIN granted'
    BY <2>1 DEF OneAttempt
  <2> QED BY <2>1, <2>3, <2>4, AttemptsGoOn
<1> QED BY <1>1, <1>2

\* A dead server leaves what its tasks had submitted to the network.
LEMMA CrashKeepsAttempt ==
  ASSUME PoolInv, OneAttempt, NEW s \in Server, Crash(s), landed' = landed
  PROVE  OneAttempt'
<1> DEFINE F == {q \in ExecsOf(s) : exec[q].stage = "funded"}
<1>1. /\ UNCHANGED <<granted, reservation>>
      /\ exec' = Restrict(exec, DOMAIN exec \ ExecsOf(s))
      /\ network' = network \cup {Sent(r) : r \in F}
  BY DEF Crash, Disconnect
<1>2. /\ DOMAIN exec' = DOMAIN exec \ ExecsOf(s)
      /\ \A q \in DOMAIN exec' : exec'[q] = exec[q]
  BY <1>1, TasksKept
<1>3. F \in SUBSET DOMAIN exec /\ F \subseteq ExecsOf(s) /\ F \subseteq Untried
  BY DEF Untried, ExecsOf
<1>4. F \cap DOMAIN reservation = {}
  BY <1>3 DEF PoolInv, TasksMatch
<1>5. Untried' \subseteq Untried \ F
  BY <1>1, <1>2, <1>3, <1>4 DEF Untried
<1> HIDE DEF F
<1> QED BY <1>1, <1>2, <1>3, <1>5, AttemptsSent

\* A transaction nobody waits for is the only one of its reservation.
LEMMA LateLandingKeepsAttempt ==
  ASSUME PoolInv, OneAttempt, NEW tx \in network, NEW usage \in Usage, LandLate(tx, usage),
         landed' = landed \cup {tx.reservation}
  PROVE  OneAttempt' /\ tx.reservation \notin landed
<1>1. network' = network \ {tx} /\ UNCHANGED <<reservation, granted, exec>>
  BY DEF LandLate, storageVars, taskVars
<1>2. Untried' = Untried
  BY <1>1 DEF Untried
<1>3. tx.reservation \in DOMAIN granted \ (Untried \cup landed)
  BY DEF OneAttempt
<1>4. \A other \in network' : other.reservation # tx.reservation
  BY <1>1 DEF OneAttempt
<1>5. landed' \subseteq DOMAIN granted' \ Untried'
  BY <1>1, <1>2, <1>3 DEF OneAttempt
<1>6. \A other \in network' : other.reservation \in DOMAIN granted' \ (Untried' \cup landed')
  BY <1>1, <1>2, <1>4 DEF OneAttempt
<1>7. \A other, third \in network' : other.reservation = third.reservation => other = third
  BY <1>1 DEF OneAttempt
<1> QED BY <1>1, <1>3, <1>5, <1>6, <1>7 DEF OneAttempt

\* The unlockers only end reservations.
LEMMA UnlockerKeepsAttempt ==
  ASSUME PoolInv, OneAttempt,
         \/ \E s \in Server : UnlockerStep(s) \/ Restart(s)
         \/ \E tx \in network : DropLate(tx)
         \/ PassTime,
         landed' = landed
  PROVE  OneAttempt'
<1>1. UNCHANGED <<granted, exec>> /\ network' \subseteq network
  BY DEF UnlockerStep, UnlockerExpire, ExpireReplyLost, UnlockerQuery, UnlockerRelease,
     UnlockerReplyLost, Restart, DropLate, PassTime, envVars, taskVars
<1>2. CASE ExpireCoins
  <2>1. DOMAIN reservation' \subseteq DOMAIN reservation
    BY <1>2, ExpireTakes DEF PoolInv
  <2>2. Untried' \subseteq Untried
    BY <1>1, <2>1 DEF Untried
  <2> QED BY <1>1, <2>2, AttemptsGoOn DEF OneAttempt
<1>3. CASE UNCHANGED reservation
  <2>1. Untried' = Untried
    BY <1>1, <1>3 DEF Untried
  <2> QED BY <1>1, <2>1, AttemptsGoOn DEF OneAttempt
<1>4. ExpireCoins \/ UNCHANGED reservation
  BY DEF UnlockerStep, UnlockerExpire, ExpireReplyLost, UnlockerQuery, UnlockerRelease,
     UnlockerReplyLost, Restart, ConnectStorage, DropLate, PassTime, Tick, AddNewCoins,
     storageVars
<1> QED BY <1>2, <1>3, <1>4

-----------------------------------------------------------------------------
(* Every open request has a task or a true answer *)

\* A request waits for a task on its server; an answer with a result is about a
\* transaction that landed, or about a reservation that was granted.
Sound(request) ==
  /\ request.stage = "waiting" =>
       /\ request.status = "none"
       /\ request.reservation \in DOMAIN exec
       /\ exec[request.reservation].server = request.server
  /\ request.status = "ok" /\ request.op = "execute_tx" => request.reservation \in landed
  /\ request.status = "ok" /\ request.op = "reserve_gas" => request.reservation \in DOMAIN granted

SessionInv ==
  /\ session \in [Client -> Session \cup {Nil}]
  /\ known \subseteq DOMAIN granted
  /\ arrived \subseteq DOMAIN exec \cap landed
  /\ \A k \in Client : session[k] # Nil => Sound(session[k])

\* The task goes on.
TaskStays(r) == r \in DOMAIN exec' /\ exec'[r].server = exec[r].server

\* Requests that stay open have their task, the others are gone or new and sound.
LEMMA SessionsGoOn ==
  ASSUME SessionInv, DOMAIN granted \subseteq DOMAIN granted', landed \subseteq landed',
         known' \subseteq DOMAIN granted', arrived' \subseteq DOMAIN exec' \cap landed',
         session' \in [Client -> Session \cup {Nil}],
         \A k \in Client :
           \/ session'[k] = Nil
           \/ Sound(session[k])'
           \/ /\ session'[k] = session[k]
              /\ session[k].stage = "waiting" => TaskStays(session[k].reservation)
  PROVE  SessionInv'
<1>1. ASSUME NEW k \in Client, session'[k] # Nil, session'[k] = session[k],
             session[k].stage = "waiting" => TaskStays(session[k].reservation)
      PROVE  Sound(session[k])'
  <2>1. Sound(session[k])
    BY <1>1 DEF SessionInv
  <2> QED BY <1>1, <2>1 DEF Sound, TaskStays
<1> QED BY <1>1 DEF SessionInv

\* A handler answers or registers a request, or a client is done with one, while
\* every task goes on.
LEMMA RequestKeepsSessions ==
  ASSUME SessionInv, NEW k \in Client, NEW answer \in Session \cup {Nil},
         session' = [session EXCEPT ![k] = answer],
         answer = Nil \/ Sound(answer)',
         DOMAIN granted \subseteq DOMAIN granted', UNCHANGED <<arrived, landed>>,
         known' \subseteq DOMAIN granted',
         \A r \in DOMAIN exec : TaskStays(r)
  PROVE  SessionInv'
<1>1. session'[k] = answer /\ \A j \in Client \ {k} : session'[j] = session[j]
  BY DEF SessionInv
<1>2. session' \in [Client -> Session \cup {Nil}]
  BY DEF SessionInv
<1>3. ASSUME NEW j \in Client
      PROVE  \/ session'[j] = Nil
             \/ Sound(session[j])'
             \/ /\ session'[j] = session[j]
                /\ session[j].stage = "waiting" => TaskStays(session[j].reservation)
  <2>1. CASE j = k
    BY <1>1, <2>1 DEF Sound
  <2>2. CASE j # k
    BY <1>1, <2>2 DEF SessionInv, Sound
  <2> QED BY <2>1, <2>2
<1>4. arrived' \subseteq DOMAIN exec' \cap landed'
  BY DEF SessionInv, TaskStays
<1> QED BY <1>2, <1>3, <1>4, SessionsGoOn

LEMMA AnswersAreSessions ==
  ASSUME NEW op \in {"reserve_gas", "execute_tx"}, NEW s \in Server,
         NEW r \in 0..MaxReservations
  PROVE  /\ Err(op, s) \in Session /\ Ok(op, s, r) \in Session /\ Waiting(s, r) \in Session
         /\ Sound(Err(op, s))'
BY StorageAssumption DEF Err, Ok, Waiting, Session, Sound

LEMMA ClientKeepsSessions ==
  ASSUME CoinsTracked, PoolInv, PoolInv', SessionInv, NEW k \in Client, ClientStep(k)
  PROVE  SessionInv'
<1>1. ASSUME NEW s \in Server, RefuseReservation(k, s) \/ RefuseExecution(k, s)
                               \/ \E r : DenyExecution(k, s, r)
      PROVE  SessionInv'
  <2>1. PICK op \in {"reserve_gas", "execute_tx"} : session' = [session EXCEPT ![k] = Err(op, s)]
    BY <1>1 DEF RefuseReservation, RefuseExecution, DenyExecution, Reply
  <2>2. UNCHANGED <<exec, granted, known, arrived, landed>>
    BY <1>1 DEF RefuseReservation, RefuseExecution, DenyExecution, vars, taskVars
  <2>3. Err(op, s) \in Session /\ Sound(Err(op, s))'
    BY AnswersAreSessions, StorageAssumption
  <2>4. \A r \in DOMAIN exec : TaskStays(r)
    BY <2>2 DEF TaskStays
  <2>5. known' \subseteq DOMAIN granted'
    BY <2>2 DEF SessionInv
  <2> QED BY <2>1, <2>2, <2>3, <2>4, <2>5, RequestKeepsSessions
<1>2. ASSUME NEW s \in Server, NEW budget \in Budget, DenyReservation(k, s, budget)
      PROVE  SessionInv'
  <2>1. session' = [session EXCEPT ![k] = Err("reserve_gas", s)]
    BY <1>2 DEF DenyReservation, Reply
  <2>2. UNCHANGED <<exec, granted, known, arrived, landed>>
    BY <1>2 DEF DenyReservation, taskVars
  <2>3. Err("reserve_gas", s) \in Session /\ Sound(Err("reserve_gas", s))'
    BY AnswersAreSessions, StorageAssumption
  <2>4. \A r \in DOMAIN exec : TaskStays(r)
    BY <2>2 DEF TaskStays
  <2>5. known' \subseteq DOMAIN granted'
    BY <2>2 DEF SessionInv
  <2> QED BY <2>1, <2>2, <2>3, <2>4, <2>5, RequestKeepsSessions
<1>3. ASSUME NEW s \in Server, NEW budget \in Budget, NEW duration \in Duration,
             GrantReservation(k, s, budget, duration)
      PROVE  SessionInv'
  <2>0. PICK id : id = nextReservationId'
    OBVIOUS
  <2> DEFINE answer == Ok("reserve_gas", s, id)
  <2>1. /\ session' = [session EXCEPT ![k] = answer]
        /\ DOMAIN granted' = DOMAIN granted \cup {id}
        /\ UNCHANGED <<exec, known, arrived, landed>>
    BY <1>3, <2>0 DEF GrantReservation, Reply, ReserveGas
  <2>2. id \in 0..MaxReservations
    BY <2>0 DEF PoolInv, StorageInv, StorageTypeOK
  <2>3. answer \in Session
    BY <2>2, AnswersAreSessions
  <2>4. Sound(answer)'
    BY <2>1 DEF Ok, Sound
  <2>5. \A r \in DOMAIN exec : TaskStays(r)
    BY <2>1 DEF TaskStays
  <2>6. known' \subseteq DOMAIN granted'
    BY <2>1 DEF SessionInv
  <2> HIDE DEF answer
  <2> QED BY <2>1, <2>3, <2>4, <2>5, <2>6, RequestKeepsSessions
<1>4. ASSUME NEW s \in Server, NEW r \in known, AcceptExecution(k, s, r)
      PROVE  SessionInv'
  <2>1. PICK payment \in Payments(r) : StartExecution(s, r, payment)
    BY <1>4 DEF AcceptExecution
  <2>2. /\ session' = [session EXCEPT ![k] = Waiting(s, r)]
        /\ UNCHANGED <<known, arrived, landed>>
    BY <1>4 DEF AcceptExecution, Reply
  <2>3. r \notin DOMAIN exec
    BY <2>1, StartExecutionKeepsInv
  <2>4. /\ r \in DOMAIN exec' /\ exec'[r].server = s /\ granted' = granted
        /\ \A q \in DOMAIN exec : TaskStays(q)
    BY <2>1, <2>3 DEF StartExecution, TaskStays
  <2>5. r \in 0..MaxReservations
    BY <2>1, StorageAssumption
       DEF StartExecution, PoolInv, TasksTypeOK, StorageInv, StorageTypeOK
  <2>6. Waiting(s, r) \in Session
    BY <2>5, AnswersAreSessions
  <2>7. Sound(Waiting(s, r))'
    BY <2>4 DEF Waiting, Sound
  <2>8. known' \subseteq DOMAIN granted'
    BY <2>2, <2>4 DEF SessionInv
  <2> QED BY <2>2, <2>4, <2>6, <2>7, <2>8, RequestKeepsSessions
<1>5. ASSUME ReceiveAnswer(k) \/ DropConnection(k)
      PROVE  SessionInv'
  <2>1. /\ session' = [session EXCEPT ![k] = Nil]
        /\ UNCHANGED <<exec, granted, arrived, landed>>
    BY <1>5 DEF ReceiveAnswer, DropConnection, vars, taskVars
  <2>2. known' \subseteq DOMAIN granted'
    BY <1>5, <2>1 DEF ReceiveAnswer, DropConnection, SessionInv, Sound
  <2>3. \A r \in DOMAIN exec : TaskStays(r)
    BY <2>1 DEF TaskStays
  <2> QED BY <2>1, <2>2, <2>3, RequestKeepsSessions
<1> QED BY <1>1, <1>2, <1>3, <1>4, <1>5 DEF ClientStep

\* Whoever waits for a task that ends gets an answer, with the result if the effects
\* arrived.
LEMMA TaskStepKeepsSessions ==
  ASSUME CoinsTracked, PoolInv, OneAttempt, SessionInv, NEW r \in DOMAIN exec, TaskStep(r)
  PROVE  SessionInv'
<1> DEFINE finished == r \notin DOMAIN exec'
           effects == exec[r].stage = "funded" /\ r \in DOMAIN exec' /\ exec'[r].stage = "release"
<1>0. /\ ExecStep(r)
      /\ session' = IF finished THEN Answers(r) ELSE session
      /\ arrived' = IF effects THEN arrived \cup {r}
                    ELSE IF finished THEN arrived \ {r} ELSE arrived
      /\ known' = known
  BY Zenon DEF TaskStep
<1>1. /\ DOMAIN exec' \subseteq DOMAIN exec /\ DOMAIN exec \subseteq DOMAIN exec' \cup {r}
      /\ \A q \in DOMAIN exec' \ {r} : exec'[q] = exec[q]
      /\ r \in DOMAIN exec' => exec'[r].server = exec[r].server
      /\ granted' = granted
  BY <1>0, TaskStages
<1>2. \A q \in DOMAIN exec : TaskStays(q) \/ (finished /\ q = r)
  BY <1>1 DEF TaskStays
<1>3. chain' # chain => landed' = landed \cup {r}
  BY TaskStepKeepsAttempt
<1>4. landed \subseteq landed'
  BY TaskStepKeepsAttempt
<1>5. effects => r \in landed'
  <2>1. ASSUME NEW usage \in Usage, ExecuteTransaction(r, usage) PROVE chain' # chain
    BY <2>1, LandMoves DEF ExecuteTransaction, PoolInv, TasksTypeOK, ExecTask
  <2>2. effects => \E usage \in Usage : ExecuteTransaction(r, usage)
    BY <1>0 DEF ExecStep, ReadTotalBalance, FailExecution, SubmitTimeout, QueryLatest,
       ReleaseCoins, ReleaseReplyLost, PoolInv, TasksTypeOK, ExecTask
  <2> QED BY <1>3, <2>1, <2>2
<1>6. arrived' \subseteq DOMAIN exec' \cap landed'
  <2>1. arrived' \subseteq landed'
    BY <1>0, <1>4, <1>5 DEF SessionInv
  <2>2. arrived' \subseteq DOMAIN exec'
    BY <1>0, <1>1 DEF SessionInv
  <2> QED BY <2>1, <2>2
<1>7. known' \subseteq DOMAIN granted'
  BY <1>0, <1>1 DEF SessionInv
<1>8. CASE ~finished
  <2>1. \A k \in Client : session[k] # Nil /\ session[k].stage = "waiting"
                            => TaskStays(session[k].reservation)
    BY <1>2, <1>8 DEF SessionInv, Sound
  <2>2. session' = session
    BY <1>0, <1>8
  <2>3. session' \in [Client -> Session \cup {Nil}]
    BY <2>2 DEF SessionInv
  <2> QED BY <1>1, <1>4, <1>6, <1>7, <2>1, <2>2, <2>3, SessionsGoOn
<1>9. CASE finished
  <2>1. session' = Answers(r)
    BY <1>0, <1>9
  <2>2. \A k \in Client : ~WaitsFor(k, r) => session'[k] = session[k]
    BY <2>1 DEF Answers
  <2>3. ASSUME NEW k \in Client, WaitsFor(k, r)
        PROVE  session'[k] \in Session /\ Sound(session[k])'
    <3>1. session[k] \in Session /\ session[k].reservation = r
      BY <2>3 DEF WaitsFor, SessionInv
    <3>2. session[k].server \in Server /\ r \in 0..MaxReservations
      BY <3>1 DEF Session
    <3>3. /\ r \in arrived => session'[k] = Ok("execute_tx", session[k].server, r)
          /\ r \notin arrived => session'[k] = Err("execute_tx", session[k].server)
      BY <2>1, <2>3 DEF Answers
    <3>4. r \in arrived => r \in landed'
      BY <1>4 DEF SessionInv
    <3>5. CASE r \in arrived
      <4>1. session'[k] \in Session
        BY <3>2, <3>3, <3>5, AnswersAreSessions
      <4>2. session'[k].status = "ok" /\ session'[k].op = "execute_tx"
            /\ session'[k].stage = "answered" /\ session'[k].reservation = r
        BY <3>3, <3>5 DEF Ok
      <4> QED BY <3>4, <3>5, <4>1, <4>2 DEF Sound
    <3>6. CASE r \notin arrived
      <4>1. session'[k] \in Session
        BY <3>2, <3>3, <3>6, AnswersAreSessions
      <4>2. session'[k].status = "error" /\ session'[k].stage = "answered"
        BY <3>3, <3>6 DEF Err
      <4> QED BY <4>1, <4>2 DEF Sound
    <3> QED BY <3>5, <3>6
  <2>4. session' \in [Client -> Session \cup {Nil}]
    <3>1. DOMAIN session' = Client /\ session' = [k \in Client |-> session'[k]]
      BY <2>1 DEF Answers
    <3>2. \A k \in Client : session'[k] \in Session \cup {Nil}
      BY <2>2, <2>3 DEF SessionInv
    <3> QED BY <3>1, <3>2
  <2>5. \A k \in Client : session[k] # Nil /\ session[k].stage = "waiting" /\ ~WaitsFor(k, r)
                            => TaskStays(session[k].reservation)
    BY <1>2 DEF SessionInv, Sound, WaitsFor
  <2>6. \A k \in Client : ~WaitsFor(k, r) =>
          \/ session'[k] = Nil
          \/ /\ session'[k] = session[k]
             /\ session[k].stage = "waiting" => TaskStays(session[k].reservation)
    BY <2>2, <2>5
  <2> QED BY <1>1, <1>4, <1>6, <1>7, <2>3, <2>4, <2>6, SessionsGoOn
<1> QED BY <1>8, <1>9

\* The connections of a dead server break with its tasks.
LEMMA CrashKeepsSessions ==
  ASSUME PoolInv, SessionInv, NEW s \in Server, ServerCrash(s)
  PROVE  SessionInv'
<1>1. /\ Crash(s) /\ session' = BrokenBy(s) /\ arrived' = arrived \ ExecsOf(s)
      /\ UNCHANGED <<known, landed, granted>>
  BY DEF ServerCrash, Crash
<1>2. /\ DOMAIN exec' = DOMAIN exec \ ExecsOf(s)
      /\ \A q \in DOMAIN exec' : exec'[q] = exec[q]
  BY <1>1, TasksKept DEF Crash
<1>3. session' \in [Client -> Session \cup {Nil}]
  BY <1>1 DEF BrokenBy, SessionInv
<1>4. \A k \in Client : session'[k] # Nil => session'[k] = session[k] /\ session[k].server # s
  BY <1>1 DEF BrokenBy
<1>5. \A k \in Client : session'[k] # Nil /\ session[k].stage = "waiting"
                          => TaskStays(session[k].reservation)
  BY <1>2, <1>4 DEF SessionInv, Sound, ExecsOf, TaskStays
<1>6. arrived' \subseteq DOMAIN exec' \cap landed'
  BY <1>1, <1>2 DEF SessionInv
<1>7. known' \subseteq DOMAIN granted'
  BY <1>1 DEF SessionInv
<1>8. \A k \in Client :
        \/ session'[k] = Nil
        \/ /\ session'[k] = session[k]
           /\ session[k].stage = "waiting" => TaskStays(session[k].reservation)
  BY <1>4, <1>5
<1> QED BY <1>1, <1>3, <1>6, <1>7, <1>8, SessionsGoOn

\* The unlockers, a restart, time and the network touch neither tasks nor requests.
LEMMA OthersKeepSessions ==
  ASSUME SessionInv, UNCHANGED <<granted, exec, session, known, arrived>>,
         landed \subseteq landed'
  PROVE  SessionInv'
<1>1. \A k \in Client : session[k] # Nil /\ session[k].stage = "waiting"
                          => TaskStays(session[k].reservation)
  BY DEF SessionInv, Sound, TaskStays
<1>2. /\ session' \in [Client -> Session \cup {Nil}]
      /\ known' \subseteq DOMAIN granted' /\ arrived' \subseteq DOMAIN exec' \cap landed'
  BY DEF SessionInv
<1> QED BY <1>1, <1>2, SessionsGoOn

-----------------------------------------------------------------------------
(* Every step *)

\* No step of NeverExecutedTwice is taken.
StartsAndLandsOnce ==
  /\ \A r \in DOMAIN exec' \ DOMAIN exec : r \notin landed
  /\ chain' # chain => landed' # landed

ServerInv == PoolInv /\ OneAttempt /\ SessionInv

LEMMA ClientStepKeepsServerInv ==
  ASSUME CoinsTracked, ServerInv, PoolInv', NEW k \in Client, ClientStep(k)
  PROVE  OneAttempt' /\ SessionInv' /\ StartsAndLandsOnce
<1> USE DEF ServerInv
<1>1. SessionInv'
  BY ClientKeepsSessions
<1>2. UNCHANGED <<chain, landed>>
  BY DEF ClientStep, RefuseReservation, RefuseExecution, GrantReservation, ReserveGas,
     DenyReservation, AcceptExecution, StartExecution, DenyExecution, ReceiveAnswer,
     DropConnection, vars, envVars
<1>3. ASSUME UNCHANGED <<reservation, granted, exec, network>>
      PROVE  OneAttempt' /\ StartsAndLandsOnce
  <2>1. Untried' = Untried
    BY <1>3 DEF Untried
  <2> QED BY <1>2, <1>3, <2>1, AttemptsGoOn DEF OneAttempt, StartsAndLandsOnce
<1>4. ASSUME NEW s \in Server, NEW budget \in Budget, NEW duration \in Duration,
             GrantReservation(k, s, budget, duration)
      PROVE  OneAttempt' /\ StartsAndLandsOnce
  <2>1. ReserveGas(budget, duration) /\ exec' = exec
    BY <1>4 DEF GrantReservation, ReserveGas
  <2>2. budget \in Nat /\ duration \in Nat
    BY StorageAssumption
  <2> QED BY <1>2, <2>1, <2>2, ClientKeepsAttempt DEF StartsAndLandsOnce
<1>5. ASSUME NEW s \in Server, NEW r, AcceptExecution(k, s, r)
      PROVE  OneAttempt' /\ StartsAndLandsOnce
  <2>1. PICK payment \in Payments(r) : StartExecution(s, r, payment)
    BY <1>5 DEF AcceptExecution
  <2>2. r \in DOMAIN reservation /\ DOMAIN exec' = DOMAIN exec \cup {r}
    BY <2>1 DEF StartExecution, ReadyForExecution
  <2>3. r \notin landed
    BY <2>2 DEF OneAttempt, Untried
  <2> QED BY <1>2, <2>1, <2>2, <2>3, ClientKeepsAttempt DEF StartsAndLandsOnce
<1>6. ASSUME NEW s \in Server, NEW budget \in Budget, DenyReservation(k, s, budget)
      PROVE  UNCHANGED <<reservation, granted, exec, network>>
  BY <1>6 DEF DenyReservation, RejectReservation, taskVars, envVars
<1>7. ASSUME \/ \E s \in Server : \/ RefuseReservation(k, s) \/ RefuseExecution(k, s)
                                  \/ \E r \in known : DenyExecution(k, s, r)
             \/ ReceiveAnswer(k) \/ DropConnection(k)
      PROVE  UNCHANGED <<reservation, granted, exec, network>>
  BY <1>7 DEF RefuseReservation, RefuseExecution, DenyExecution, ReceiveAnswer, DropConnection,
     vars, storageVars, taskVars, envVars
<1> QED BY <1>1, <1>3, <1>4, <1>5, <1>6, <1>7 DEF ClientStep

LEMMA ServerNextKeepsInv ==
  ASSUME CoinsTracked, ServerInv, [ServerNext]_serverVars
  PROVE  ServerInv' /\ [StartsAndLandsOnce]_serverVars
<1> USE DEF ServerInv
<1>1. PoolInv'
  BY ServerKeepsPoolInv
<1> SUFFICES OneAttempt' /\ SessionInv' /\ [StartsAndLandsOnce]_serverVars
  BY <1>1
<1>2. ASSUME NEW k \in Client, ClientStep(k)
      PROVE  OneAttempt' /\ SessionInv' /\ StartsAndLandsOnce
  BY <1>1, <1>2, ClientStepKeepsServerInv
<1>3. CASE DebugHealthCheck
  <2> DEFINE id == nextReservationId'
  <2>1. /\ UNCHANGED <<granted, exec, chain, network, session, known, arrived, landed>>
        /\ DOMAIN reservation' = DOMAIN reservation \cup {id}
        /\ id = nextReservationId + 1
    BY <1>3, HealthCheckKeepsInv DEF DebugHealthCheck, rpcVars
  <2>2. id \notin DOMAIN granted
    BY <2>1, StorageAssumption DEF PoolInv, TasksTypeOK, StorageInv, StorageTypeOK
  <2>3. Untried' \cap DOMAIN granted \subseteq Untried
    BY <2>1, <2>2 DEF Untried
  <2>4. OneAttempt'
    BY <2>1, <2>3, AttemptsGoOn DEF OneAttempt
  <2> QED BY <2>1, <2>4, OthersKeepSessions DEF StartsAndLandsOnce
<1>4. ASSUME NEW r \in DOMAIN exec, TaskStep(r)
      PROVE  OneAttempt' /\ SessionInv' /\ StartsAndLandsOnce
  <2>1. DOMAIN exec' \subseteq DOMAIN exec
    BY <1>4, TaskStages DEF TaskStep
  <2> QED BY <1>4, <2>1, TaskStepKeepsAttempt, TaskStepKeepsSessions DEF StartsAndLandsOnce
<1>5. ASSUME NEW s \in Server, ServerCrash(s)
      PROVE  OneAttempt' /\ SessionInv' /\ StartsAndLandsOnce
  <2>1. Crash(s) /\ landed' = landed
    BY <1>5 DEF ServerCrash
  <2>2. DOMAIN exec' \subseteq DOMAIN exec /\ chain' = chain
    BY <2>1 DEF Crash, Restrict
  <2> QED BY <1>5, <2>1, <2>2, CrashKeepsAttempt, CrashKeepsSessions DEF StartsAndLandsOnce
<1>6. ASSUME NEW tx \in network, NEW usage \in Usage, LandUnwatched(tx, usage)
      PROVE  OneAttempt' /\ SessionInv' /\ StartsAndLandsOnce
  <2>1. /\ LandLate(tx, usage) /\ landed' = landed \cup {tx.reservation}
        /\ UNCHANGED <<granted, exec, session, known, arrived>>
    BY <1>6 DEF LandUnwatched, LandLate, taskVars
  <2>2. OneAttempt' /\ tx.reservation \notin landed
    BY <2>1, LateLandingKeepsAttempt
  <2>3. SessionInv'
    BY <2>1, OthersKeepSessions
  <2> QED BY <2>1, <2>2, <2>3 DEF StartsAndLandsOnce
<1>7. ASSUME \/ \E s \in Server : UnlockerStep(s) \/ Restart(s)
             \/ \E tx \in network : DropLate(tx)
             \/ PassTime,
             UNCHANGED rpcVars
      PROVE  OneAttempt' /\ SessionInv' /\ StartsAndLandsOnce
  <2>1. UNCHANGED <<granted, exec, chain, session, known, arrived, landed>>
    BY <1>7 DEF UnlockerStep, UnlockerExpire, ExpireReplyLost, UnlockerQuery, UnlockerRelease,
       UnlockerReplyLost, Restart, DropLate, PassTime, envVars, taskVars, rpcVars
  <2>2. OneAttempt'
    BY <1>7, <2>1, UnlockerKeepsAttempt
  <2>3. SessionInv'
    BY <2>1, OthersKeepSessions
  <2> QED BY <2>1, <2>2, <2>3 DEF StartsAndLandsOnce
<1>8. CASE UNCHANGED serverVars
  <2>1. UNCHANGED <<reservation, granted, exec, network, session, known, arrived, landed>>
    BY <1>8 DEF serverVars, vars, storageVars, envVars, taskVars, rpcVars
  <2>2. Untried' = Untried
    BY <2>1 DEF Untried
  <2>3. OneAttempt'
    BY <2>1, <2>2, AttemptsGoOn DEF OneAttempt
  <2> QED BY <1>8, <2>1, <2>3, OthersKeepSessions
<1> QED BY <1>2, <1>3, <1>4, <1>5, <1>6, <1>7, <1>8 DEF ServerNext

-----------------------------------------------------------------------------
(* Theorems *)

\* The servers' invariant is inductive, for any clients and any of the faults crash,
\* timeout, fullnode_lag, lost_take_reply and incomplete_payment.
THEOREM ServerInvariant == CoinsTracked => (ServerSpec => []ServerInv)
<1> SUFFICES ASSUME CoinsTracked PROVE ServerSpec => []ServerInv
  OBVIOUS
<1>1. ServerInit => ServerInv
  <2> SUFFICES ASSUME ServerInit PROVE ServerInv
    OBVIOUS
  <2>1. PoolInv
    BY InitGivesInv DEF ServerInit
  <2>2. DOMAIN exec = {}
    BY DEF ServerInit, Init
  <2>3. landed = {} /\ network = {} /\ known = {} /\ arrived = {}
        /\ session = [k \in Client |-> Nil]
    BY DEF ServerInit, Init
  <2>4. OneAttempt /\ SessionInv
    BY <2>2, <2>3 DEF OneAttempt, SessionInv
  <2> QED BY <2>1, <2>4 DEF ServerInv
<1>2. ServerInv /\ [ServerNext]_serverVars => ServerInv'
  BY ServerNextKeepsInv
<1> QED BY <1>1, <1>2, PTL DEF ServerSpec

\* Requests, their tasks and the history keep their types.
THEOREM ServerTypeCorrect == CoinsTracked => (ServerSpec => []ServerTypeOK)
<1>1. ServerInv => ServerTypeOK
  BY DEF ServerInv, SessionInv, OneAttempt, ServerTypeOK
<1> QED BY <1>1, ServerInvariant, PTL

\* A result in the answer to execute_tx means that the transaction landed.
THEOREM AnswersAreTrue == CoinsTracked => (ServerSpec => []OkMeansLanded)
<1>1. ServerInv => OkMeansLanded
  BY DEF ServerInv, SessionInv, Sound, OkMeansLanded
<1> QED BY <1>1, ServerInvariant, PTL

\* A request that waits has its task, on the server it asked.
THEOREM NobodyWaitsForNothing == CoinsTracked => (ServerSpec => []WaitersHaveTasks)
<1>1. ServerInv => WaitersHaveTasks
  BY DEF ServerInv, SessionInv, Sound, WaitersHaveTasks
<1> QED BY <1>1, ServerInvariant, PTL

\* However often and wherever a client asks again, a reservation has one transaction
\* land and starts none after that.
THEOREM ExecutedOnce == CoinsTracked => (ServerSpec => NeverExecutedTwice)
<1> SUFFICES ASSUME CoinsTracked PROVE ServerSpec => [][StartsAndLandsOnce]_serverVars
  BY DEF NeverExecutedTwice, StartsAndLandsOnce
<1>1. ServerInv /\ [ServerNext]_serverVars => [StartsAndLandsOnce]_serverVars
  BY ServerNextKeepsInv
<1>2. ServerSpec => []ServerInv
  BY ServerInvariant
<1> QED BY <1>1, <1>2, PTL DEF ServerSpec

\* Behind its interface the pool keeps what it keeps for clients that call it
\* directly: a coin has one holder, whatever the health check reserves.
THEOREM ServedCoinsHaveOneHolder == CoinsTracked => (ServerSpec => []OneHolder)
<1>1. ServerInv => OneHolder
  BY InvGivesOneHolder DEF ServerInv
<1> QED BY <1>1, ServerInvariant, PTL

\* Likewise, no two transactions that may still land spend the same gas coin.
THEOREM ServedGasNeverEquivocates == OutcomesKnown => (ServerSpec => []GasNeverEquivocates)
<1> SUFFICES ASSUME OutcomesKnown PROVE ServerSpec => []GasNeverEquivocates
  OBVIOUS
<1>1. ServerInit => NetworkApart
  BY DEF ServerInit, Init, NetworkApart
<1>2. ServerInv /\ NetworkApart /\ [ServerNext]_serverVars => NetworkApart'
  <2> SUFFICES ASSUME PoolInv, NetworkApart, [ServerNext]_serverVars PROVE NetworkApart'
    BY DEF ServerInv
  <2>1. CASE DebugHealthCheck
    <3>1. UNCHANGED <<exec, unlocker, network>>
      BY <2>1, HealthCheckKeepsInv
    <3>2. InRedis' = InRedis
      BY <2>1, ReserveMoves DEF DebugHealthCheck, CheckHealth, PoolInv
    <3>3. Owned' = Owned
      BY <3>1, <3>2 DEF Owned, HeldByTasks, HeldByExec, HeldByUnlocker, Ids
    <3>4. \A tx : Ids(tx.payment)' = Ids(tx.payment)
      BY DEF Ids
    <3> QED BY <3>1, <3>3, <3>4 DEF NetworkApart
  <2> QED BY <2>1, ServerStepIsPoolStep, NetworkStaysApart
<1>3. ServerInv /\ NetworkApart => GasNeverEquivocates
  BY ApartGivesNoEquivocation DEF ServerInv
<1>4. ServerSpec => []ServerInv
  BY ServerInvariant DEF OutcomesKnown
<1> QED BY <1>1, <1>2, <1>3, <1>4, PTL DEF ServerSpec

\* Likewise, a reservation ends once and for one reason.
THEOREM ServedReservationsEndOnce ==
  CoinsTracked /\ "lost_take_reply" \notin Faults => (ServerSpec => ReservationEndsOnce)
<1> SUFFICES ASSUME CoinsTracked, "lost_take_reply" \notin Faults
             PROVE  ServerSpec => [][EndsOnce]_vars
  BY DEF ReservationEndsOnce, EndsOnce
<1>1. ServerInv /\ [ServerNext]_serverVars => [EndsOnce]_vars
  <2> SUFFICES ASSUME PoolInv, [ServerNext]_serverVars PROVE EndsOnce
    BY DEF ServerInv
  <2>1. CASE DebugHealthCheck
    BY <2>1, HealthCheckKeepsInv DEF EndsOnce
  <2> QED BY <2>1, ServerStepIsPoolStep, StepEndsOnce
<1>2. ServerSpec => []ServerInv
  BY ServerInvariant
<1> QED BY <1>1, <1>2, PTL DEF ServerSpec

\* Likewise, a live coin is lost only when a server dies that had taken it: dropping
\* a connection costs nothing, and what the health check reserved is kept.
THEOREM ServedCoinsLostOnlyByCrash == RepliesArrive => (ServerSpec => LostOnlyByCrash)
<1> SUFFICES ASSUME RepliesArrive PROVE ServerSpec => [][LosesByCrash]_vars
  BY DEF LostOnlyByCrash, LosesByCrash
<1>1. ServerInv /\ [ServerNext]_serverVars => [LosesByCrash]_vars
  <2> SUFFICES ASSUME PoolInv, [ServerNext]_serverVars PROVE [LosesByCrash]_vars
    BY DEF ServerInv
  <2>1. CASE DebugHealthCheck
    <3>1. UNCHANGED <<exec, unlocker, chain>>
      BY <2>1, HealthCheckKeepsInv
    <3>2. InRedis' = InRedis
      BY <2>1, ReserveMoves DEF DebugHealthCheck, CheckHealth, PoolInv
    <3>3. Stranded' = Stranded
      BY <3>1, <3>2 DEF Stranded, Live, HeldByTasks, HeldByExec, HeldByUnlocker, Ids
    <3> QED BY <3>3 DEF LosesByCrash
  <2> QED BY <2>1, ServerStepIsPoolStep, StepLosesByCrash
<1>2. ServerSpec => []ServerInv
  BY ServerInvariant DEF RepliesArrive, CoinsTracked
<1> QED BY <1>1, <1>2, PTL DEF ServerSpec

\* Likewise, what the queue records of a coin is what the chain has.
THEOREM ServedQueueIsTrue ==
  BalancesKnown => (ServerSpec /\ []ChainBalancesFit => []PoolMatchesChain)
<1> SUFFICES ASSUME BalancesKnown
             PROVE  ServerSpec /\ []ChainBalancesFit => []PoolMatchesChain
  OBVIOUS
<1>1. ServerInit => MatchInv /\ NetworkApart
  BY InitMatches DEF ServerInit
<1>2. ServerInv /\ NetworkApart /\ MatchInv /\ ChainBalancesFit' /\ [ServerNext]_serverVars
      => MatchInv' /\ NetworkApart'
  <2> SUFFICES ASSUME PoolInv, NetworkApart, MatchInv, ChainBalancesFit', [ServerNext]_serverVars
               PROVE  MatchInv' /\ NetworkApart'
    BY DEF ServerInv
  <2>1. CASE DebugHealthCheck
    <3>1. UNCHANGED <<exec, unlocker, network, chain, fullnode>>
      BY <2>1 DEF DebugHealthCheck, taskVars, envVars
    <3>2. /\ InRedis' = InRedis
          /\ \E n \in 0..Len(available) : available' = SubSeq(available, n + 1, Len(available))
      BY <2>1, ReserveMoves DEF DebugHealthCheck, CheckHealth, PoolInv
    <3>3. PICK n \in 0..Len(available) : available' = SubSeq(available, n + 1, Len(available))
      BY <3>2
    <3>4. n \in Nat
      BY <3>3, LenProperties DEF PoolInv, StorageInv, StorageTypeOK
    <3>5. PoolMatchesChain'
      BY <3>1, <3>3, <3>4, QueueStaysTrue DEF MatchInv
    <3>6. MatchInv'
      BY <3>1, <3>5, ExecStaysTrue, UnlockerStaysTrue DEF MatchInv
    <3>7. Owned' = Owned /\ \A tx : Ids(tx.payment)' = Ids(tx.payment)
      BY <3>1, <3>2 DEF Owned, HeldByTasks, HeldByExec, HeldByUnlocker, Ids
    <3> QED BY <3>1, <3>6, <3>7 DEF NetworkApart
  <2> QED BY <2>1, ServerStepIsPoolStep, NextKeepsMatch
<1>3. ServerSpec => []ServerInv
  BY ServerInvariant DEF BalancesKnown, OutcomesKnown
<1> QED BY <1>1, <1>2, <1>3, PTL DEF ServerSpec, MatchInv

=============================================================================
