--------------------------- MODULE GasPoolServer ---------------------------
(***************************************************************************)
(* The HTTP interface of the gas-station servers, over the pool they share *)
(* (GasPool).  A client has one request open at a time.  The handlers of   *)
(* reserve_gas and execute_tx spawn a task that goes on when the client    *)
(* drops the connection, so a client may never learn how its request ended *)
(* and may ask again, here or at another server.  A handler and the first  *)
(* storage call of its task are one step: nobody sees a state in between.  *)
(***************************************************************************)
EXTENDS GasPool

CONSTANTS
  Client,         \* callers that hold the bearer token of the servers, or not
  HealthBudget,   \* what debug_check_health reserves
  HealthDuration  \* and for how long

ASSUME ServerAssumption ==
  HealthBudget \in Nat \ {0} /\ HealthDuration \in Nat

VARIABLES
  session,  \* the open request of every client
  known,    \* ids of reservations that some client was told
  arrived,  \* running execution tasks that hold the effects of their transaction
  landed    \* history: reservations of which a transaction landed

rpcVars    == <<session, known, arrived, landed>>
serverVars == <<vars, rpcVars>>

\* An open request: waiting for a spawned task, or with the answer on its way.
\* reservation is the id that a waiting request or a result is about, 0 in an
\* error.  The client looks for the result, not at the codes of errors (400, 401,
\* 500), which are therefore not told apart.
Session ==
  [stage : {"waiting", "answered"}, op : {"reserve_gas", "execute_tx"},
   server : Server, reservation : 0..MaxReservations,
   status : {"none", "ok", "error"}]

Waiting(s, r) ==
  [stage |-> "waiting", op |-> "execute_tx", server |-> s, reservation |-> r, status |-> "none"]

\* new_ok and new_err of the responses.
Ok(op, s, r) ==
  [stage |-> "answered", op |-> op, server |-> s, reservation |-> r, status |-> "ok"]

Err(op, s) ==
  [stage |-> "answered", op |-> op, server |-> s, reservation |-> 0, status |-> "error"]

WaitsFor(k, r) == session[k] # Nil /\ session[k].stage = "waiting" /\ session[k].reservation = r

CanAsk(k, s) == session[k] = Nil /\ s \in connected

-----------------------------------------------------------------------------
(* Requests *)

Reply(k, answer) == session' = [session EXCEPT ![k] = answer]

\* reserve_gas before a task is spawned: no or a wrong token, a body that does not
\* deserialize, parameters out of range.
RefuseReservation(k, s) ==
  /\ CanAsk(k, s)
  /\ Reply(k, Err("reserve_gas", s))
  /\ UNCHANGED <<vars, known, arrived, landed>>

\* execute_tx before a task is spawned: likewise, or bytes that are no transaction.
RefuseExecution(k, s) ==
  /\ CanAsk(k, s)
  /\ Reply(k, Err("execute_tx", s))
  /\ UNCHANGED <<vars, known, arrived, landed>>

\* reserve_gas when the pool grants the coins.
GrantReservation(k, s, budget, duration) ==
  /\ CanAsk(k, s)
  /\ ReserveGas(budget, duration)
  /\ Reply(k, Ok("reserve_gas", s, nextReservationId'))
  /\ UNCHANGED <<known, arrived, landed>>

\* reserve_gas when the pool is short of coins.
DenyReservation(k, s, budget) ==
  /\ CanAsk(k, s)
  /\ {duration \in Duration : CheckValidity(budget, duration)} # {}
  /\ RejectReservation(budget)
  /\ Reply(k, Err("reserve_gas", s))
  /\ UNCHANGED <<envVars, taskVars, known, arrived, landed>>

\* execute_tx when the task takes the reservation.
AcceptExecution(k, s, r) ==
  /\ CanAsk(k, s)
  /\ r \in known
  /\ \E payment \in Payments(r) : StartExecution(s, r, payment)
  /\ Reply(k, Waiting(s, r))
  /\ UNCHANGED <<known, arrived, landed>>

\* execute_tx when it does not: another sponsor, a transaction the pool refuses
\* to pay for, a reservation that ended.
DenyExecution(k, s, r) ==
  /\ CanAsk(k, s)
  /\ r \in known
  /\ Reply(k, Err("execute_tx", s))
  /\ UNCHANGED <<vars, known, arrived, landed>>

\* GasPool::debug_check_health reserves like a client, without check_validity, signs
\* an empty transaction and forgets the reservation.
CheckHealth == ReserveGasCoins(HealthBudget, HealthDuration)

DebugHealthCheck ==
  /\ connected # {}
  /\ CheckHealth
  /\ UNCHANGED <<envVars, taskVars, rpcVars>>

-----------------------------------------------------------------------------
(* Answers *)

\* execute_tx_impl returns: whoever still waits for r gets the answer.
Answers_Ok(r) ==
  [k \in Client |-> IF WaitsFor(k, r) THEN Ok("execute_tx", session[k].server, r) ELSE session[k]]
Answers_OnlyOk(r) ==
  [k \in Client |-> IF WaitsFor(k, r) /\ r \in arrived
                     THEN Ok("execute_tx", session[k].server, r) ELSE session[k]]
Answers(r) ==
  [k \in Client |->
     IF ~WaitsFor(k, r) THEN session[k]
     ELSE IF r \in arrived THEN Ok("execute_tx", session[k].server, r)
     ELSE Err("execute_tx", session[k].server)]

\* A step of the execution task of r, whether or not anybody waits for it.
TaskStep(r) ==
  LET effects  == exec[r].stage = "funded" /\ r \in DOMAIN exec' /\ exec'[r].stage = "release"
      finished == r \notin DOMAIN exec'
  IN  /\ ExecStep(r)
      /\ landed' = IF chain' # chain THEN landed \cup {r} ELSE landed
      /\ arrived' = IF effects THEN arrived \cup {r}
                    ELSE IF finished THEN arrived \ {r} ELSE arrived
      /\ session' = IF finished THEN Answers(r) ELSE session
      /\ UNCHANGED known

\* GasPoolRpcClient takes the result of the answer, if there is one.
ReceiveAnswer_IgnoresStatus(k) ==
  /\ session[k] # Nil /\ session[k].stage = "answered"
  /\ known' = IF session[k].op = "reserve_gas"
                THEN known \cup {session[k].reservation} ELSE known
  /\ session' = [session EXCEPT ![k] = Nil]
  /\ UNCHANGED <<vars, arrived, landed>>

ReceiveAnswer(k) ==
  /\ session[k] # Nil /\ session[k].stage = "answered"
  /\ known' = IF session[k].op = "reserve_gas" /\ session[k].status = "ok"
                THEN known \cup {session[k].reservation} ELSE known
  /\ session' = [session EXCEPT ![k] = Nil]
  /\ UNCHANGED <<vars, arrived, landed>>

\* The client, or anything between it and the server, gives up.  Without the
\* spawned task the handler, and the execution in it, would end here.
DropConnection_CancelsTask(k) ==
  /\ session[k] # Nil
  /\ session' = [session EXCEPT ![k] = Nil]
  /\ exec' = Restrict(exec, {r \in DOMAIN exec : ~WaitsFor(k, r)})
  /\ UNCHANGED <<storageVars, envVars, granted, unlocker, known, arrived, landed>>

DropConnection(k) ==
  /\ session[k] # Nil
  /\ session' = [session EXCEPT ![k] = Nil]
  /\ UNCHANGED <<vars, known, arrived, landed>>

-----------------------------------------------------------------------------
(* The rest of the pool.  The fullnode does not lag here. *)

\* The connections of a server that dies break.
BrokenBy(s) ==
  [k \in Client |-> IF session[k] # Nil /\ session[k].server = s THEN Nil ELSE session[k]]

ServerCrash(s) ==
  /\ Crash(s)
  /\ session' = BrokenBy(s)
  /\ arrived' = arrived \ ExecsOf(s)
  /\ UNCHANGED <<known, landed>>

LandUnwatched(tx, usage) ==
  /\ LandLate(tx, usage)
  /\ landed' = landed \cup {tx.reservation}
  /\ UNCHANGED <<session, known, arrived>>

ServerInit ==
  /\ Init
  /\ session = [k \in Client |-> Nil]
  /\ known = {} /\ arrived = {} /\ landed = {}

ClientStep(k) ==
  \/ \E s \in Server :
       \/ RefuseReservation(k, s)
       \/ RefuseExecution(k, s)
       \/ \E budget \in Budget :
            \/ \E duration \in Duration : GrantReservation(k, s, budget, duration)
            \/ DenyReservation(k, s, budget)
       \/ \E r \in known : AcceptExecution(k, s, r) \/ DenyExecution(k, s, r)
  \/ ReceiveAnswer(k)
  \/ DropConnection(k)

ServerNext ==
  \/ \E k \in Client : ClientStep(k)
  \/ DebugHealthCheck
  \/ \E r \in DOMAIN exec : TaskStep(r)
  \/ \E s \in Server : ServerCrash(s)
  \/ \E tx \in network, usage \in Usage : LandUnwatched(tx, usage)
  \/ /\ \/ \E s \in Server : UnlockerStep(s) \/ Restart(s)
        \/ \E tx \in network : DropLate(tx)
        \/ PassTime
     /\ UNCHANGED rpcVars

ServerSpec == ServerInit /\ [][ServerNext]_serverVars

-----------------------------------------------------------------------------
(* Properties *)

ServerTypeOK ==
  /\ session \in [Client -> Session \cup {Nil}]
  /\ known \subseteq DOMAIN granted
  /\ arrived \subseteq DOMAIN exec
  /\ landed \subseteq DOMAIN granted

\* What a client is told is true: a result in the answer to execute_tx means that the
\* transaction landed, whichever tasks, crashes and retries came in between.
OkMeansLanded ==
  \A k \in Client :
    session[k] # Nil /\ session[k].op = "execute_tx" /\ session[k].status = "ok"
      => session[k].reservation \in landed

\* A request that waits has a task that will answer it, on the server it asked:
\* no client hangs on a task that ended or died without a word.
WaitersHaveTasks ==
  \A k \in Client :
    session[k] # Nil /\ session[k].stage = "waiting"
      => /\ session[k].reservation \in DOMAIN exec
         /\ exec[session[k].reservation].server = session[k].server

\* A client that lost its answer may send execute_tx again, to any server: no
\* transaction of a reservation is started after one of it landed, and no
\* reservation has a transaction land for it twice.
NeverExecutedTwice ==
  [][/\ \A r \in DOMAIN exec' \ DOMAIN exec : r \notin landed
     /\ chain' # chain => landed' # landed]_serverVars
=============================================================================
