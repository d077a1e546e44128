-------------------------- MODULE InitializerProofs --------------------------
(***************************************************************************)
(* What the initializers of any number of servers keep, for any coins of   *)
(* the sponsor.  That rounds exclude each other needs only that none       *)
(* outlives its lock.  That pool and rounds together give no coin to two   *)
(* holders also needs that no server acts on an old is_initialized, and    *)
(* that the pool's coins stay below what a Refresh looks for.              *)
(***************************************************************************)
EXTENDS GasPoolInitializer, GasPoolProofs

\* Every round ends within MAX_INIT_DURATION_SEC.
RoundsInTime == "slow_round" \notin RoundFaults

RoundStages == {"start", "acquire", "list", "split", "sleep", "dead"}

\* The state of an initializer has its four fields, whatever the coins in it are.
RoundShaped ==
  /\ round = [s \in Server |-> round[s]]
  /\ \A s \in Server :
       round[s] \in [mode : {"init", "refresh"}, stage : RoundStages,
                     tasks : {round[s].tasks}, result : {round[s].result}]

\* As long as a round goes on the lock is not free, so no other round can begin.
RoundInv ==
  /\ RoundShaped
  /\ initLock \in Int
  /\ InRound # {} => initLock >= 0
  /\ OneRoundAtATime

-----------------------------------------------------------------------------

\* One server goes to another stage; what it has in hands does not matter here.
MovesTo(s, stages) ==
  /\ RoundShaped'
  /\ \A t \in Server : t # s => round'[t] = round[t]
  /\ round'[s].stage \in stages

LEMMA SetRoundMoves ==
  ASSUME RoundShaped, NEW s \in Server, NEW state, SetRound(s, state),
         state \in [mode : {"init", "refresh"}, stage : RoundStages,
                    tasks : {state.tasks}, result : {state.result}],
         NEW stages, state.stage \in stages
  PROVE  MovesTo(s, stages)
<1>1. round' = [round EXCEPT ![s] = state] /\ DOMAIN round = Server
  BY DEF SetRound, RoundShaped
<1>2. round'[s] = state /\ \A t \in Server : t # s => round'[t] = round[t]
  BY <1>1
<1>3. round' = [t \in Server |-> round'[t]]
  BY <1>1
<1>4. ASSUME NEW t \in Server
      PROVE  round'[t] \in [mode : {"init", "refresh"}, stage : RoundStages,
                            tasks : {round'[t].tasks}, result : {round'[t].result}]
  BY <1>2 DEF RoundShaped
<1> QED BY <1>2, <1>3, <1>4 DEF MovesTo, RoundShaped

LEMMA AsleepMoves ==
  ASSUME RoundShaped, NEW s \in Server, NEW mode \in {"init", "refresh"}, NEW stage \in RoundStages,
         SetRound(s, Asleep(mode, stage))
  PROVE  MovesTo(s, {stage})
<1>1. PICK state : state = Asleep(mode, stage)
  OBVIOUS
<1>2. state \in [mode : {"init", "refresh"}, stage : RoundStages,
                 tasks : {state.tasks}, result : {state.result}] /\ state.stage \in {stage}
  BY <1>1 DEF Asleep
<1>3. SetRound(s, state)
  BY <1>1
<1> QED BY <1>2, <1>3, SetRoundMoves

\* What a step with more coins in hands does to the stage.
LEMMA EnqueueKeepsStage ==
  ASSUME NEW state, NEW coins,
         state \in [mode : {"init", "refresh"}, stage : RoundStages,
                    tasks : {state.tasks}, result : {state.result}]
  PROVE  LET next == Enqueue(state, coins)
         IN  /\ next.stage = state.stage
             /\ next \in [mode : {"init", "refresh"}, stage : RoundStages,
                          tasks : {next.tasks}, result : {next.result}]
BY DEF Enqueue

\* A server that is in a round or leaves it has no effect on who may begin one.
LEMMA OneServerMoves ==
  ASSUME RoundInv, NEW s \in Server, NEW stages, MovesTo(s, stages),
         \/ /\ initLock' \in Int
            /\ stages \cap {"list", "split"} = {}
            /\ initLock' >= 0 \/ initLock' = initLock \/ InRound \subseteq {s}
         \/ s \in InRound /\ initLock' = initLock
         \/ initLock < 0 /\ initLock' \in Nat
         \/ stages = {round[s].stage} /\ initLock' = initLock
  PROVE  RoundInv'
<1>1. \A t \in InRound' : t = s \/ t \in InRound
  BY DEF MovesTo, InRound
<1>2. CASE /\ initLock' \in Int
           /\ stages \cap {"list", "split"} = {}
           /\ initLock' >= 0 \/ initLock' = initLock \/ InRound \subseteq {s}
  <2>1. s \notin InRound'
    BY <1>2 DEF MovesTo, InRound
  <2>2. \A t \in InRound' : t \in InRound
    BY <1>1, <2>1
  <2>3. InRound' # {} => initLock' >= 0
    BY <1>2, <2>1, <2>2 DEF RoundInv
  <2> QED BY <1>2, <2>2, <2>3 DEF RoundInv, OneRoundAtATime, MovesTo
<1>3. CASE s \in InRound /\ initLock' = initLock
  BY <1>1, <1>3 DEF RoundInv, OneRoundAtATime, MovesTo
<1>4. CASE initLock < 0 /\ initLock' \in Nat
  <2>1. InRound = {}
    BY <1>4 DEF RoundInv
  <2>2. \A t \in InRound' : t = s
    BY <1>1, <2>1
  <2> QED BY <1>4, <2>2 DEF RoundInv, OneRoundAtATime, MovesTo
<1>5. CASE stages = {round[s].stage} /\ initLock' = initLock
  <2>1. \A t \in InRound' : t \in InRound
    BY <1>5 DEF MovesTo, InRound
  <2>2. InRound' # {} => initLock' >= 0
    BY <1>5, <2>1 DEF RoundInv
  <2> QED BY <1>5, <2>1, <2>2 DEF RoundInv, OneRoundAtATime, MovesTo
<1> QED BY <1>2, <1>3, <1>4, <1>5

\* The lock is taken from negative only, kept by the one round there is, and given
\* back when that round ends.
LEMMA RoundStepKeepsInv ==
  ASSUME RoundInv, NEW s \in Server, RoundStep(s)
  PROVE  /\ RoundInv'
         /\ initLock > 0 /\ initLock' < 0 => InRound' = {}
<1>0. /\ RoundShaped
      /\ round[s] \in [mode : {"init", "refresh"}, stage : RoundStages,
                       tasks : {round[s].tasks}, result : {round[s].result}]
      /\ round[s].mode \in {"init", "refresh"} /\ round[s].stage \in RoundStages
  <2>1. RoundShaped
    BY DEF RoundInv
  <2>2. round[s] \in [mode : {"init", "refresh"}, stage : RoundStages,
                      tasks : {round[s].tasks}, result : {round[s].result}]
    BY <2>1 DEF RoundShaped
  <2>3. round[s].mode \in {"init", "refresh"} /\ round[s].stage \in RoundStages
    BY <2>2
  <2> QED BY <2>1, <2>2, <2>3
<1>1. s \in InRound <=> round[s].stage \in {"list", "split"}
  BY DEF InRound
<1>2. ASSUME UNCHANGED initLock PROVE ~(initLock > 0 /\ initLock' < 0)
  BY <1>2 DEF RoundInv
<1>3. CASE CheckInitialized(s)
  <2>1. \/ SetRound(s, Asleep("refresh", "sleep"))
        \/ SetRound(s, Asleep("init", "acquire"))
    BY <1>3 DEF CheckInitialized
  <2>2. MovesTo(s, {"sleep"}) \/ MovesTo(s, {"acquire"})
    BY <1>0, <2>1, AsleepMoves DEF RoundStages
  <2>3. initLock' = initLock /\ initLock \in Int
    BY <1>3 DEF CheckInitialized, RoundInv
  <2> QED BY <1>2, <2>2, <2>3, OneServerMoves
<1>4. CASE WakeUp(s)
  <2>1. MovesTo(s, {"acquire"})
    BY <1>0, <1>4, AsleepMoves DEF WakeUp, RoundStages
  <2>2. initLock' = initLock /\ initLock \in Int
    BY <1>4 DEF WakeUp, RoundInv
  <2> QED BY <1>2, <2>1, <2>2, OneServerMoves
<1>5. CASE AcquireInitLock(s)
  <2>1. CASE initLock < 0
    <3>1. PICK state : state = [round[s] EXCEPT !.stage = "list"]
      OBVIOUS
    <3>2. SetRound(s, state) /\ initLock' = InitDuration
      BY <1>5, <2>1, <3>1 DEF AcquireInitLock
    <3>3. state \in [mode : {"init", "refresh"}, stage : RoundStages,
                     tasks : {state.tasks}, result : {state.result}] /\ state.stage \in {"list"}
      BY <1>0, <3>1 DEF RoundStages
    <3>4. MovesTo(s, {"list"})
      BY <1>0, <3>2, <3>3, SetRoundMoves
    <3>5. initLock' \in Nat
      BY <3>2, InitializerAssumption
    <3> QED BY <2>1, <3>4, <3>5, OneServerMoves DEF RoundInv
  <2>2. CASE ~(initLock < 0)
    <3>1. SetRound(s, Asleep("refresh", "sleep")) /\ initLock' = initLock
      BY <1>5, <2>2 DEF AcquireInitLock
    <3>2. MovesTo(s, {"sleep"})
      BY <1>0, <3>1, AsleepMoves DEF RoundStages
    <3> QED BY <1>2, <3>1, <3>2, OneServerMoves DEF RoundInv
  <2> QED BY <2>1, <2>2
<1>6. CASE ListCoins(s)
  <2>1. PICK state, coins :
          /\ state = [round[s] EXCEPT !.stage = "split"]
          /\ SetRound(s, Enqueue(state, coins))
    BY <1>6, Zenon DEF ListCoins
  <2>2. state \in [mode : {"init", "refresh"}, stage : RoundStages,
                   tasks : {state.tasks}, result : {state.result}] /\ state.stage = "split"
    BY <1>0, <2>1 DEF RoundStages
  <2>3. PICK next : next = Enqueue(state, coins)
    OBVIOUS
  <2>4. next.stage \in {"split"} /\ next \in [mode : {"init", "refresh"}, stage : RoundStages,
                                              tasks : {next.tasks}, result : {next.result}]
    BY <2>2, <2>3, EnqueueKeepsStage
  <2>5. MovesTo(s, {"split"})
    BY <1>0, <2>1, <2>3, <2>4, SetRoundMoves
  <2>6. s \in InRound /\ initLock' = initLock
    BY <1>1, <1>6 DEF ListCoins
  <2> QED BY <1>2, <2>5, <2>6, OneServerMoves
<1>7. ASSUME NEW task, SplitCoin(s, task) \/ SplitUnseen(s, task) \/ LookUpAgain(s, task)
      PROVE  /\ RoundInv'
             /\ initLock > 0 /\ initLock' < 0 => InRound' = {}
  <2>0. initLock' = initLock /\ initLock \in Int
    BY <1>7 DEF SplitCoin, SplitUnseen, LookUpAgain, RoundInv
  <2>1. CASE SplitCoin(s, task)
    <3>1. PICK state, coins :
            /\ state = [round[s] EXCEPT !.tasks = @ \ {task}]
            /\ SetRound(s, Enqueue(state, coins))
      BY <2>1, Zenon DEF SplitCoin
    <3>2. state \in [mode : {"init", "refresh"}, stage : RoundStages,
                     tasks : {state.tasks}, result : {state.result}] /\ state.stage = round[s].stage
      BY <1>0, <3>1
    <3>3. PICK next : next = Enqueue(state, coins)
      OBVIOUS
    <3>4. next.stage \in {round[s].stage}
          /\ next \in [mode : {"init", "refresh"}, stage : RoundStages,
                       tasks : {next.tasks}, result : {next.result}]
      BY <3>2, <3>3, EnqueueKeepsStage
    <3>5. MovesTo(s, {round[s].stage})
      BY <1>0, <3>1, <3>3, <3>4, SetRoundMoves
    <3> QED BY <1>2, <2>0, <3>5, OneServerMoves
  <2>2. CASE SplitUnseen(s, task)
    BY <1>2, <2>0, <2>2 DEF SplitUnseen, RoundInv, RoundShaped, OneRoundAtATime, InRound
  <2>3. CASE LookUpAgain(s, task)
    <3>1. CASE SetRound(s, Asleep(round[s].mode, "dead"))
      <4>1. MovesTo(s, {"dead"})
        BY <1>0, <3>1, AsleepMoves DEF RoundStages
      <4> QED BY <1>2, <2>0, <4>1, OneServerMoves
    <3>2. ASSUME NEW tasks, SetRound(s, [round[s] EXCEPT !.tasks = tasks])
          PROVE  MovesTo(s, {round[s].stage})
      <4>1. PICK state : state = [round[s] EXCEPT !.tasks = tasks]
        OBVIOUS
      <4>2. state \in [mode : {"init", "refresh"}, stage : RoundStages,
                       tasks : {state.tasks}, result : {state.result}]
            /\ state.stage \in {round[s].stage}
        BY <1>0, <4>1
      <4> QED BY <1>0, <3>2, <4>1, <4>2, SetRoundMoves
    <3>3. \/ SetRound(s, Asleep(round[s].mode, "dead"))
          \/ \E tasks : SetRound(s, [round[s] EXCEPT !.tasks = tasks])
      BY <2>3, Zenon DEF LookUpAgain
    <3> QED BY <1>2, <2>0, <3>1, <3>2, <3>3, OneServerMoves
  <2> QED BY <1>7, <2>1, <2>2, <2>3
<1>8. CASE AddChunk(s)
  <2>1. PICK chunk : SetRound(s, [round[s] EXCEPT !.result = @ \ chunk])
    BY <1>8, Zenon DEF AddChunk
  <2>2. PICK state : state = [round[s] EXCEPT !.result = @ \ chunk]
    OBVIOUS
  <2>3. state \in [mode : {"init", "refresh"}, stage : RoundStages,
                   tasks : {state.tasks}, result : {state.result}]
        /\ state.stage \in {round[s].stage}
    BY <1>0, <2>2
  <2>4. MovesTo(s, {round[s].stage})
    BY <1>0, <2>1, <2>2, <2>3, SetRoundMoves
  <2>5. initLock' = initLock
    BY <1>8 DEF AddChunk
  <2> QED BY <1>2, <2>4, <2>5, OneServerMoves
<1>9. ASSUME s \in InRound, MovesTo(s, {"sleep"}) \/ MovesTo(s, {"dead"})
      PROVE  InRound \subseteq {s} /\ InRound' = {}
  BY <1>9 DEF RoundInv, OneRoundAtATime, InRound, MovesTo
<1>10. CASE ReleaseInitLock(s)
  <2>1. MovesTo(s, {"sleep"})
    BY <1>0, <1>10, AsleepMoves DEF ReleaseInitLock, RoundStages
  <2>2. s \in InRound /\ initLock' = -1
    BY <1>1, <1>10 DEF ReleaseInitLock
  <2> QED BY <1>9, <2>1, <2>2, OneServerMoves
<1>11. CASE RedisError(s)
  <2>1. MovesTo(s, {"dead"})
    BY <1>0, <1>11, AsleepMoves DEF RedisError, RoundStages
  <2>2. \/ initLock' = initLock
        \/ initLock < 0 /\ initLock' = InitDuration
        \/ s \in InRound /\ initLock' = -1
    BY <1>1, <1>11 DEF RedisError
  <2>3. CASE initLock' = initLock
    BY <1>2, <2>1, <2>3, OneServerMoves DEF RoundInv
  <2>4. CASE initLock < 0 /\ initLock' = InitDuration
    <3>1. initLock' \in Nat
      BY <2>4, InitializerAssumption
    <3> QED BY <2>1, <2>4, <3>1, OneServerMoves DEF RoundInv
  <2>5. CASE s \in InRound /\ initLock' = -1
    BY <1>9, <2>1, <2>5, OneServerMoves
  <2> QED BY <2>2, <2>3, <2>4, <2>5
<1> QED BY <1>3, <1>4, <1>5, <1>6, <1>7, <1>8, <1>10, <1>11 DEF RoundStep

LEMMA InitializerNextKeepsInv ==
  ASSUME RoundsInTime, RoundInv, [InitializerNext]_initializerVars
  PROVE  /\ RoundInv'
         /\ initLock > 0 /\ initLock' < 0 => InRound' = {}
<1>1. ASSUME UNCHANGED <<initLock, round>>
      PROVE  /\ RoundInv'
             /\ initLock > 0 /\ initLock' < 0 => InRound' = {}
  BY <1>1 DEF RoundInv, RoundShaped, OneRoundAtATime, InRound
<1>2. ASSUME NEW s \in Server, StartServer(s) \/ CrashServer(s)
      PROVE  /\ RoundInv'
             /\ initLock > 0 /\ initLock' < 0 => InRound' = {}
  <2>1. SetRound(s, Asleep("init", "start")) /\ initLock' = initLock
    BY <1>2 DEF StartServer, CrashServer
  <2>2. MovesTo(s, {"start"})
    BY <2>1, AsleepMoves DEF RoundStages, RoundInv
  <2>3. initLock \in Int
    BY DEF RoundInv
  <2> QED BY <2>1, <2>2, <2>3, OneServerMoves
<1>3. CASE InitTick
  <2>1. /\ initLock \in Int /\ UNCHANGED round
        /\ initLock' = IF initLock >= 0 THEN initLock - 1 ELSE initLock
        /\ initLock = 0 => InRound = {}
    BY <1>3 DEF InitTick, RoundInv, RoundsInTime
  <2>2. InRound' = InRound /\ (OneRoundAtATime' <=> OneRoundAtATime) /\ (RoundShaped' <=> RoundShaped)
    BY <2>1 DEF InRound, OneRoundAtATime, RoundShaped
  <2> QED BY <2>1, <2>2 DEF RoundInv
<1>4. CASE PoolStep
  BY <1>1, <1>4 DEF PoolStep
<1>5. ASSUME NEW c, ReceiveDeposit(c) PROVE UNCHANGED <<initLock, round>>
  BY <1>5 DEF ReceiveDeposit
<1>6. CASE UNCHANGED initializerVars
  BY <1>1, <1>6 DEF initializerVars
<1> QED BY <1>1, <1>2, <1>3, <1>4, <1>5, <1>6, RoundStepKeepsInv DEF InitializerNext

LEMMA InitGivesRoundInv ==
  ASSUME InitializerInit
  PROVE  RoundInv
<1>1. round = [s \in Server |-> Asleep("init", "start")] /\ initLock = -1
  BY DEF InitializerInit
<1>2. InRound = {}
  BY <1>1 DEF InRound, Asleep
<1>3. RoundShaped
  BY <1>1 DEF RoundShaped, Asleep, RoundStages
<1> QED BY <1>1, <1>2, <1>3 DEF RoundInv, OneRoundAtATime

-----------------------------------------------------------------------------
(* Theorems *)

\* RoundInv is inductive when rounds end in time.
THEOREM RoundInvariant == RoundsInTime => (InitializerSpec => []RoundInv)
<1> SUFFICES ASSUME RoundsInTime PROVE InitializerSpec => []RoundInv
  OBVIOUS
<1>1. InitializerInit => RoundInv
  BY InitGivesRoundInv
<1>2. RoundInv /\ [InitializerNext]_initializerVars => RoundInv'
  BY InitializerNextKeepsInv
<1> QED BY <1>1, <1>2, PTL DEF InitializerSpec

\* acquire_init_lock.lua excludes: no two servers are ever in a round, whatever
\* crashes, splits that nobody sees landing and errors of Redis do.
THEOREM RoundsExclude == RoundsInTime => (InitializerSpec => []OneRoundAtATime)
<1>1. RoundInv => OneRoundAtATime
  BY DEF RoundInv
<1> QED BY <1>1, RoundInvariant, PTL

\* release_init_lock.lua asks nobody whose lock it is, and needs not: the lock is
\* given back early only by the last round that is in progress.
THEOREM LockIsKept == RoundsInTime => (InitializerSpec => LockKeptUntilExpiry)
<1> SUFFICES ASSUME RoundsInTime PROVE InitializerSpec => LockKeptUntilExpiry
  OBVIOUS
<1>1. RoundInv /\ [InitializerNext]_initializerVars =>
        [initLock > 0 /\ initLock' < 0 => InRound' = {}]_initializerVars
  BY InitializerNextKeepsInv
<1> QED BY <1>1, RoundInvariant, PTL DEF InitializerSpec, LockKeptUntilExpiry

-----------------------------------------------------------------------------
(* The arithmetic of a split *)

LEMMA SubsetOfSize ==
  ASSUME NEW S, IsFiniteSet(S), NEW k \in Nat, k <= Cardinality(S)
  PROVE  \E T \in SUBSET S : Cardinality(T) = k
<1>0. \A T \in SUBSET S : IsFiniteSet(T) /\ Cardinality(T) \in Nat
  BY FS_Subset, FS_CardinalityType
<1> DEFINE Sizes == {n \in Nat : n >= k /\ \E T \in SUBSET S : Cardinality(T) = n}
<1>1. Cardinality(S) \in Sizes
  BY <1>0
<1>2. PICK n \in Sizes : \A m \in Sizes : n <= m
  BY <1>1, NatMinimum
<1>3. PICK T \in SUBSET S : Cardinality(T) = n
  BY <1>2
<1>4. SUFFICES ASSUME n # k PROVE FALSE
  BY <1>3
<1>5. n \in Nat /\ n > k
  BY <1>4
<1>6. T # {}
  BY <1>3, <1>5, FS_EmptySet
<1>7. PICK x : x \in T
  BY <1>6
<1>8. Cardinality(T \ {x}) = n - 1
  BY <1>0, <1>3, <1>7, FS_RemoveElement
<1>9. n - 1 \in Sizes
  BY <1>3, <1>5, <1>8
<1> QED BY <1>2, <1>5, <1>9

\* A split creates ids that no coin ever had.
LEMMA FreshIdsAreUnused ==
  ASSUME NEW count \in Nat \ {0}, HasFreshIds(count)
  PROVE  FreshIds(count) \subseteq ObjectID /\ FreshIds(count) \cap minted = {}
<1>1. IsFiniteSet(Unused)
  BY PoolAssumption, FS_Subset DEF Unused
<1>2. \E T \in SUBSET Unused : Cardinality(T) = count - 1
  BY <1>1, SubsetOfSize DEF HasFreshIds
<1>3. FreshIds(count) \in SUBSET Unused
  BY <1>2 DEF FreshIds
<1> QED BY <1>3 DEF Unused

LEMMA MultipleBelow ==
  ASSUME NEW x \in Nat, NEW n \in Nat \ {0}
  PROVE  x \div n \in Nat /\ (x \div n) * n <= x
OBVIOUS

\* The parts of a split and what is left of the coin that is split are no debts.
LEMMA PartsArePositive ==
  ASSUME NEW balance \in Nat, NEW n \in Nat \ {0}, balance >= GasBudget(n)
  PROVE  LET part == (balance - GasBudget(n)) \div n
         IN  part \in Nat /\ (balance - part * (n - 1)) - GasPerObject * n \in Nat
<1> DEFINE left == balance - GasBudget(n)
           part == left \div n
<1>1. /\ GasPerObject \in Nat \ {0} /\ GasPerObject * n \in Nat
      /\ GasBudget(n) = 2 * (GasPerObject * n)
  BY InitializerAssumption DEF GasBudget, CostPerObject
<1>2. left \in Nat
  BY <1>1
<1> HIDE DEF left
<1>3. part \in Nat /\ part * n <= left /\ part * n \in Nat
  BY <1>2, MultipleBelow
<1> HIDE DEF part
<1>4. part * (n - 1) = part * n - part
  BY <1>3
<1>5. part * (n - 1) \in Int
  BY <1>3, <1>4
<1>6. left = balance - GasBudget(n)
  BY DEF left
<1>7. (balance - part * (n - 1)) - GasPerObject * n \in Nat
  BY <1>1, <1>3, <1>4, <1>6
<1>8. part = (balance - GasBudget(n)) \div n
  BY DEF part, left
<1> QED BY <1>3, <1>7, <1>8

\* A coin worth splitting is split in two at least.
LEMMA SplitCountIsPositive ==
  ASSUME NEW coin \in GasCoin, ~TooSmall(coin)
  PROVE  SplitCount(coin) \in Nat \ {0}
<1> DEFINE each == CostPerObject + TargetBalance
           n    == coin.balance \div each
<1>1. each \in Nat \ {0} /\ MaxSplit \in Nat \ {0} /\ coin.balance \in Nat
  BY InitializerAssumption DEF CostPerObject, GasCoin
<1>2. coin.balance > each * 2
  BY <1>1 DEF TooSmall
<1> HIDE DEF each
<1>3. n \in Nat /\ n # 0
  BY <1>1, <1>2
<1> HIDE DEF n
<1>4. \E x \in {MaxSplit, n} : \A y \in {MaxSplit, n} : x <= y
  BY <1>1, <1>3
<1>5. Min({MaxSplit, n}) \in {MaxSplit, n}
  BY <1>4 DEF Min
<1>6. SplitCount(coin) = Min({MaxSplit, n})
  BY DEF SplitCount, n, each
<1> QED BY <1>1, <1>3, <1>5, <1>6

-----------------------------------------------------------------------------
(* What a round has in hands *)

HeldBy(state) == {task.coin.id : task \in state.tasks} \cup {coin.id : coin \in state.result}

\* A round has each coin once, in a task or in its result.
WellFormed(state) ==
  /\ state.tasks \subseteq [coin : GasCoin, count : Nat \ {0}]
  /\ state.result \subseteq GasCoin
  /\ \A task, other \in state.tasks : task.coin.id = other.coin.id => task = other
  /\ \A coin, other \in state.result : coin.id = other.id => coin = other
  /\ \A task \in state.tasks, coin \in state.result : task.coin.id # coin.id

\* Enqueued coins are in hands, and a new task is one for an enqueued coin.
LEMMA EnqueueTakes ==
  ASSUME NEW state,
         state \in [mode : {"init", "refresh"}, stage : RoundStages,
                    tasks : {state.tasks}, result : {state.result}],
         WellFormed(state),
         NEW coins, coins \subseteq GasCoin,
         \A coin, other \in coins : coin.id = other.id => coin = other,
         \A coin \in coins : coin.id \notin HeldBy(state)
  PROVE  LET next == Enqueue(state, coins)
         IN  /\ WellFormed(next)
             /\ HeldBy(next) = HeldBy(state) \cup {coin.id : coin \in coins}
             /\ \A task \in next.tasks : task \in state.tasks \/ task.coin \in coins
             /\ next.result \subseteq state.result \cup coins
             /\ next.mode = state.mode /\ next.stage = state.stage
<1> DEFINE small == {coin \in coins : TooSmall(coin)}
           new   == {NewTask(coin) : coin \in coins \ small}
           next  == Enqueue(state, coins)
<1>1. /\ next.tasks = state.tasks \cup new /\ next.result = state.result \cup small
      /\ next.mode = state.mode /\ next.stage = state.stage
  BY DEF Enqueue
<1>2. \A coin \in coins \ small : /\ NewTask(coin) \in [coin : GasCoin, count : Nat \ {0}]
                                  /\ NewTask(coin).coin = coin
  BY SplitCountIsPositive DEF NewTask
<1>3. \A task \in new : /\ task \in [coin : GasCoin, count : Nat \ {0}]
                        /\ task.coin \in coins \ small /\ task = NewTask(task.coin)
  BY <1>2
<1>4. \A coin \in coins \ small : \E task \in new : task.coin = coin
  BY <1>2
<1> HIDE DEF new, small
<1>5. small \subseteq coins
  BY DEF small
<1> HIDE DEF next
<1>6. \A task \in state.tasks : task.coin.id \in HeldBy(state)
  BY DEF HeldBy
<1>7. \A coin \in state.result : coin.id \in HeldBy(state)
  BY DEF HeldBy
<1>8. WellFormed(next)
  <2>1. \A task, other \in next.tasks : task.coin.id = other.coin.id => task = other
    <3> SUFFICES ASSUME NEW task \in next.tasks, NEW other \in next.tasks,
                        task.coin.id = other.coin.id
                 PROVE  task = other
      OBVIOUS
    <3>1. CASE task \in state.tasks /\ other \in state.tasks
      BY <3>1 DEF WellFormed
    <3>2. CASE task \in new /\ other \in new
      BY <1>3, <3>2
    <3> QED BY <1>1, <1>3, <1>6, <3>1, <3>2
  <2>2. \A coin, other \in next.result : coin.id = other.id => coin = other
    BY <1>1, <1>5, <1>7 DEF WellFormed
  <2>3. \A task \in next.tasks, coin \in next.result : task.coin.id # coin.id
    <3> SUFFICES ASSUME NEW task \in next.tasks, NEW coin \in next.result,
                        task.coin.id = coin.id
                 PROVE  FALSE
      OBVIOUS
    <3>1. CASE task \in state.tasks
      BY <1>1, <1>5, <1>6, <3>1 DEF WellFormed
    <3>2. CASE task \in new
      BY <1>1, <1>3, <1>5, <1>7, <3>2
    <3> QED BY <1>1, <3>1, <3>2
  <2> QED BY <1>1, <1>3, <1>5, <2>1, <2>2, <2>3 DEF WellFormed
<1>9. HeldBy(next) = HeldBy(state) \cup {coin.id : coin \in coins}
  <2>1. \A coin \in coins : coin.id \in HeldBy(next)
    BY <1>1, <1>4 DEF HeldBy
  <2>2. HeldBy(state) \subseteq HeldBy(next)
    BY <1>1 DEF HeldBy
  <2>3. \A task \in next.tasks : task.coin.id \in HeldBy(state) \cup {coin.id : coin \in coins}
    BY <1>1, <1>3, <1>6
  <2>4. \A coin \in next.result : coin.id \in HeldBy(state) \cup {c.id : c \in coins}
    BY <1>1, <1>5, <1>7
  <2>5. HeldBy(next) \subseteq HeldBy(state) \cup {coin.id : coin \in coins}
    BY <2>3, <2>4 DEF HeldBy
  <2> QED BY <2>1, <2>2, <2>5
<1>10. \A task \in next.tasks : task \in state.tasks \/ task.coin \in coins
  BY <1>1, <1>3
<1> QED BY <1>1, <1>5, <1>8, <1>9, <1>10 DEF next

-----------------------------------------------------------------------------
(* What a step of the pool does to the chain and to the keys a round reads *)

\* A version of a coin that is not ahead of the chain.
Behind(coin) ==
  \/ chain[coin.id] = Nil
  \/ chain[coin.id] = coin
  \/ coin.version < chain[coin.id].version

\* A coin that is there was there before, as it is or in an earlier version.
OnlyGrows(c) ==
  chain'[c] # Nil => /\ chain[c] # Nil
                     /\ chain'[c] = chain[c] \/ chain[c].version < chain'[c].version

LEMMA BehindStays ==
  ASSUME ChainTypeOK, ChainTypeOK', NEW coin \in GasCoin, OnlyGrows(coin.id), Behind(coin)
  PROVE  Behind(coin)'
<1>1. coin.id \in ObjectID /\ coin.version \in Nat
  BY DEF GasCoin
<1>2. chain[coin.id] # Nil => chain[coin.id].version \in Nat
  BY <1>1 DEF ChainTypeOK, GasCoin
<1>3. chain'[coin.id] # Nil => chain'[coin.id].version \in Nat
  BY <1>1 DEF ChainTypeOK, GasCoin
<1> QED BY <1>1, <1>2, <1>3 DEF Behind, OnlyGrows

LEMMA LandGrows ==
  ASSUME ChainTypeOK, ChainFiled, NEW payment \in Seq(ObjectRef), NEW usage \in Usage,
         Land(payment, usage)
  PROVE  \A c \in ObjectID : OnlyGrows(c)
<1>1. /\ payment # <<>> /\ payment[1].id \in Ids(payment)
      /\ \A c \in Ids(payment) : chain[c] # Nil /\ (chain'[c] # Nil => c = payment[1].id)
      /\ \A c \in ObjectID \ Ids(payment) : chain'[c] = chain[c]
  BY LandChanges
<1>2. 1 \in 1..Len(payment)
  BY <1>1, EmptySeq, LenProperties
<1>3. payment[1].version < NextVersion(payment)
  BY <1>1, <1>2, NextVersionIsNext
<1>4. chain[payment[1].id].version = payment[1].version
  BY <1>2 DEF Land, RefsCurrent
<1>5. payment[1].id \in ObjectID
  BY <1>1, IdsOfRefs
<1>6. chain'[payment[1].id].version = NextVersion(payment)
  BY <1>5 DEF Land
<1> QED BY <1>1, <1>3, <1>4, <1>6 DEF OnlyGrows

LEMMA PoolOnlyGrows ==
  ASSUME PoolInv, [Next]_vars
  PROVE  /\ \A c \in ObjectID : OnlyGrows(c)
         /\ fullnode' = fullnode \/ fullnode' = chain'
<1>1. ASSUME UNCHANGED chain PROVE \A c \in ObjectID : OnlyGrows(c)
  BY <1>1 DEF OnlyGrows
<1>2. ASSUME NEW payment \in Seq(ObjectRef), NEW usage \in Usage, Land(payment, usage)
      PROVE  /\ \A c \in ObjectID : OnlyGrows(c)
             /\ fullnode' = fullnode \/ fullnode' = chain'
  <2>1. fullnode' = fullnode \/ fullnode' = chain'
    BY <1>2 DEF Land
  <2> QED BY <1>2, <2>1, LandGrows DEF PoolInv
<1>3. ASSUME NEW r \in DOMAIN exec, ExecStep(r)
      PROVE  /\ \A c \in ObjectID : OnlyGrows(c)
             /\ fullnode' = fullnode \/ fullnode' = chain'
  <2>1. exec[r].payment \in Seq(ObjectRef)
    BY DEF PoolInv, TasksTypeOK, ExecTask
  <2>2. \/ UNCHANGED <<chain, fullnode>>
        \/ \E usage \in Usage : Land(exec[r].payment, usage)
    BY <1>3 DEF ExecStep, ReadTotalBalance, FailExecution, ExecuteTransaction, SubmitTimeout,
       QueryLatest, ReleaseCoins, ReleaseReplyLost, envVars
  <2> QED BY <1>1, <1>2, <2>1, <2>2
<1>4. ASSUME Environment
      PROVE  /\ \A c \in ObjectID : OnlyGrows(c)
             /\ fullnode' = fullnode \/ fullnode' = chain'
  <2>1. ASSUME NEW tx \in network, NEW usage \in Usage, LandLate(tx, usage)
        PROVE  /\ \A c \in ObjectID : OnlyGrows(c)
               /\ fullnode' = fullnode \/ fullnode' = chain'
    <3>1. tx.payment \in Seq(ObjectRef)
      BY DEF PoolInv, TasksTypeOK
    <3> QED BY <1>2, <2>1, <3>1 DEF LandLate
  <2>2. ASSUME ~\E tx \in network : \E usage \in Usage : LandLate(tx, usage)
        PROVE  UNCHANGED chain /\ (fullnode' = fullnode \/ fullnode' = chain')
    BY <1>4, <2>2 DEF Environment, DropLate, FullnodeCatchUp, Crash, Restart, PassTime, envVars
  <2> QED BY <1>1, <2>1, <2>2
<1>5. ASSUME ClientRequest PROVE UNCHANGED <<chain, fullnode>>
  BY <1>5 DEF ClientRequest, ReserveGas, StartExecution, StartReplyLost, envVars
<1>6. ASSUME NEW s \in Server, UnlockerStep(s) PROVE UNCHANGED <<chain, fullnode>>
  BY <1>6 DEF UnlockerStep, UnlockerExpire, ExpireReplyLost, UnlockerQuery, UnlockerRelease,
     UnlockerReplyLost, envVars
<1>7. ASSUME UNCHANGED vars PROVE UNCHANGED <<chain, fullnode>>
  BY <1>7 DEF vars, envVars
<1> QED BY <1>1, <1>3, <1>4, <1>5, <1>6, <1>7 DEF Next

\* The pool changes the coins it has, or those of a transaction that was left to the
\* network; what it leaves to the network pays with coins it has.
LEMMA NextTouches ==
  ASSUME PoolInv, [Next]_vars
  PROVE  /\ "fullnode_lag" \notin Faults /\ fullnode = chain => fullnode' = chain'
         /\ \A c \in ObjectID :
              \/ chain'[c] = chain[c]
              \/ c \in Owned /\ network' = network
              \/ \E tx \in network :
                   c \in Ids(tx.payment) /\ chain[c] # Nil /\ network' = network \ {tx}
         /\ \A tx \in network' \ network : Ids(tx.payment) \subseteq Owned
<1> DEFINE Sees == "fullnode_lag" \notin Faults /\ fullnode = chain => fullnode' = chain'
           Touches == \A c \in ObjectID :
                        \/ chain'[c] = chain[c]
                        \/ c \in Owned /\ network' = network
                        \/ \E tx \in network :
                             c \in Ids(tx.payment) /\ chain[c] # Nil /\ network' = network \ {tx}
           Leaves == \A tx \in network' \ network : Ids(tx.payment) \subseteq Owned
<1>1. ASSUME UNCHANGED chain, fullnode' = fullnode \/ fullnode' = chain' PROVE Sees /\ Touches
  BY <1>1
<1>2. ASSUME network' \subseteq network PROVE Leaves
  BY <1>2
<1>3. ASSUME NEW payment \in Seq(ObjectRef), NEW usage \in Usage, Land(payment, usage)
      PROVE  /\ Sees /\ \A c \in Ids(payment) : chain[c] # Nil
             /\ \A c \in ObjectID \ Ids(payment) : chain'[c] = chain[c]
  <2>1. Sees
    BY <1>3 DEF Land
  <2> QED BY <1>3, <2>1, LandChanges DEF PoolInv
<1>4. ASSUME NEW r \in DOMAIN exec, ExecStep(r) PROVE Sees /\ Touches /\ Leaves
  <2>1. HeldByExec(r) \subseteq Owned
    BY DEF Owned, HeldByTasks
  <2>2. CASE SubmitTimeout(r)
    <3>1. /\ UNCHANGED <<chain, fullnode>> /\ network' = network \cup {Sent(r)}
          /\ HeldByExec(r) = Ids(exec[r].payment)
      BY <2>2 DEF SubmitTimeout, HeldByExec
    <3>2. Ids(Sent(r).payment) = Ids(exec[r].payment)
      BY DEF Sent, Ids
    <3> QED BY <1>1, <2>1, <3>1, <3>2
  <2>3. ASSUME NEW usage \in Usage, ExecuteTransaction(r, usage) PROVE Sees /\ Touches /\ Leaves
    <3>1. /\ Land(exec[r].payment, usage) /\ network' = network
          /\ HeldByExec(r) = Ids(exec[r].payment)
      BY <2>3 DEF ExecuteTransaction, HeldByExec
    <3>2. exec[r].payment \in Seq(ObjectRef)
      BY DEF PoolInv, TasksTypeOK, ExecTask
    <3>3. Sees /\ \A c \in ObjectID \ Ids(exec[r].payment) : chain'[c] = chain[c]
      BY <1>3, <3>1, <3>2
    <3> QED BY <2>1, <3>1, <3>3
  <2>4. ASSUME ~SubmitTimeout(r), ~\E usage \in Usage : ExecuteTransaction(r, usage)
        PROVE  UNCHANGED <<chain, fullnode, network>>
    BY <1>4, <2>4 DEF ExecStep, ReadTotalBalance, FailExecution, QueryLatest, ReleaseCoins,
       ReleaseReplyLost, envVars
  <2> QED BY <1>1, <1>2, <2>2, <2>3, <2>4
<1>5. ASSUME NEW tx \in network, NEW usage \in Usage, LandLate(tx, usage)
      PROVE  Sees /\ Touches /\ Leaves
  <2>1. tx.payment \in Seq(ObjectRef)
    BY DEF PoolInv, TasksTypeOK
  <2>2. Land(tx.payment, usage) /\ network' = network \ {tx}
    BY <1>5 DEF LandLate
  <2>3. /\ Sees /\ \A c \in Ids(tx.payment) : chain[c] # Nil
        /\ \A c \in ObjectID \ Ids(tx.payment) : chain'[c] = chain[c]
    BY <1>3, <2>1, <2>2
  <2> QED BY <2>2, <2>3
<1>6. ASSUME NEW s \in Server, Crash(s) PROVE Sees /\ Touches /\ Leaves
  <2>1. /\ UNCHANGED <<chain, fullnode>>
        /\ network' = network \cup {Sent(r) : r \in {q \in ExecsOf(s) : exec[q].stage = "funded"}}
    BY <1>6 DEF Crash
  <2>2. ASSUME NEW r \in DOMAIN exec, exec[r].stage = "funded"
        PROVE  Ids(Sent(r).payment) \subseteq Owned
    BY <2>2 DEF Sent, Ids, HeldByExec, Owned, HeldByTasks
  <2> QED BY <1>1, <2>1, <2>2 DEF ExecsOf
<1>7. ASSUME Environment, ~\E s \in Server : Crash(s),
             ~\E tx \in network : \E usage \in Usage : LandLate(tx, usage)
      PROVE  /\ UNCHANGED chain /\ (fullnode' = fullnode \/ fullnode' = chain')
             /\ network' \subseteq network
  BY <1>7 DEF Environment, DropLate, FullnodeCatchUp, Restart, PassTime, envVars
<1>8. CASE Environment
  BY <1>1, <1>2, <1>5, <1>6, <1>7, <1>8
<1>9. ASSUME ClientRequest PROVE UNCHANGED <<chain, fullnode, network>>
  BY <1>9 DEF ClientRequest, ReserveGas, StartExecution, StartReplyLost, envVars
<1>10. ASSUME NEW s \in Server, UnlockerStep(s) PROVE UNCHANGED <<chain, fullnode, network>>
  BY <1>10 DEF UnlockerStep, UnlockerExpire, ExpireReplyLost, UnlockerQuery, UnlockerRelease,
     UnlockerReplyLost, envVars
<1>11. ASSUME UNCHANGED vars PROVE UNCHANGED <<chain, fullnode, network>>
  BY <1>11 DEF vars, envVars
<1> QED BY <1>1, <1>2, <1>4, <1>8, <1>9, <1>10, <1>11 DEF Next

\* The pool is initialised by coins only, and never again uninitialised.
LEMMA CoinsInitialize ==
  ASSUME CoinsTracked, PoolInv, [Next]_vars
  PROVE  initialized' = initialized \/ (initialized' /\ Owned # {})
<1>1. ASSUME NEW coins \in Seq(GasCoin), AddNewCoins(coins), Ids(coins) \subseteq Owned
      PROVE  initialized' = initialized \/ (initialized' /\ Owned # {})
  <2>1. initialized' = (initialized \/ Len(coins) > 0) /\ initialized \in BOOLEAN
    BY <1>1 DEF AddNewCoins, PoolInv, StorageInv, StorageTypeOK
  <2>2. Len(coins) > 0 => coins[1].id \in Ids(coins)
    BY LenProperties DEF Ids
  <2> QED BY <1>1, <2>1, <2>2
<1>2. ASSUME NEW r \in DOMAIN exec, ExecStep(r)
      PROVE  initialized' = initialized \/ (initialized' /\ Owned # {})
  <2>1. ~ReleaseReplyLost(r)
    BY DEF CoinsTracked, ReleaseReplyLost
  <2>2. CASE ReleaseCoins(r)
    <3>1. exec[r].coins \in Seq(GasCoin) /\ HeldByExec(r) = Ids(exec[r].coins)
      BY <2>2 DEF ReleaseCoins, HeldByExec, PoolInv, TasksTypeOK, ExecTask
    <3>2. HeldByExec(r) \subseteq Owned
      BY DEF Owned, HeldByTasks
    <3> QED BY <1>1, <2>2, <3>1, <3>2 DEF ReleaseCoins
  <2>3. CASE ~ReleaseCoins(r)
    BY <1>2, <2>1, <2>3 DEF ExecStep, ReadTotalBalance, FailExecution, ExecuteTransaction,
       SubmitTimeout, QueryLatest, storageVars
  <2> QED BY <2>2, <2>3
<1>3. ASSUME NEW s \in Server, UnlockerStep(s)
      PROVE  initialized' = initialized \/ (initialized' /\ Owned # {})
  <2>1. ~UnlockerReplyLost(s)
    BY DEF CoinsTracked, UnlockerReplyLost
  <2>2. CASE UnlockerRelease(s)
    <3>1. unlocker[s].coins \in Seq(GasCoin) /\ HeldByUnlocker(s) = Ids(unlocker[s].coins)
      BY <2>2 DEF UnlockerRelease, HeldByUnlocker, PoolInv, TasksTypeOK, UnlockTask
    <3>2. HeldByUnlocker(s) \subseteq Owned
      BY DEF Owned, HeldByTasks
    <3> QED BY <1>1, <2>2, <3>1, <3>2 DEF UnlockerRelease
  <2>3. CASE ~UnlockerRelease(s)
    BY <1>3, <2>1, <2>3 DEF UnlockerStep, UnlockerExpire, ExpireReplyLost, UnlockerQuery,
       ExpireCoins, storageVars
  <2> QED BY <2>2, <2>3
<1>4. ASSUME ClientRequest PROVE UNCHANGED initialized
  BY <1>4 DEF ClientRequest, ReserveGas, ReserveGasCoins, StartExecution, StartReplyLost,
     ReadyForExecution
<1>5. ASSUME Environment PROVE UNCHANGED initialized
  BY <1>5 DEF Environment, LandLate, DropLate, FullnodeCatchUp, Crash, Disconnect, Restart,
     ConnectStorage, PassTime, Tick, storageVars
<1>6. ASSUME UNCHANGED vars PROVE UNCHANGED initialized
  BY <1>6 DEF vars, storageVars
<1> QED BY <1>2, <1>3, <1>4, <1>5, <1>6 DEF Next

-----------------------------------------------------------------------------
(* The invariant of pool and rounds *)

\* No lock becomes free between a server's check and its request for the lock.
ChecksAreFresh == "stale_check" \notin RoundFaults

\* Coins that anybody has were minted, and no view of a coin is ahead of the chain.
MintedInv ==
  /\ minted \subseteq ObjectID
  /\ Owned \subseteq minted
  /\ \A c \in ObjectID : chain[c] # Nil \/ fullnode[c] # Nil => c \in minted
  /\ \A c \in ObjectID : fullnode[c] # Nil => Behind(fullnode[c])

\* Only a round that splits has coins in hands, each once, and none of the pool's.
RoundKnown(s) ==
  /\ WellFormed(round[s])
  /\ round[s].stage # "split" => round[s].tasks = {} /\ round[s].result = {}
  /\ s \notin connected => round[s] = Asleep("init", "start")
  /\ HeldByRound(s) \subseteq minted
  /\ HeldByRound(s) \cap Owned = {}
  /\ \A task \in round[s].tasks : Behind(task.coin)

\* A pool that nobody initialised is empty, and so is the one of which every coin is
\* going to be listed.
EmptyFirst ==
  /\ ~initialized => Owned = {}
  /\ initLock < 0 /\ CheckPending => ~initialized
  /\ \A s \in Server : round[s].mode = "init" /\ round[s].stage = "list" => ~initialized

CoinsInv ==
  /\ PoolInv
  /\ MintedInv
  /\ \A s \in Server : RoundKnown(s)
  /\ EmptyFirst

InitializerInv == RoundInv /\ CoinsInv

LEMMA HeldByRoundIs == \A s : HeldByRound(s) = HeldBy(round[s]) /\ HeldByRound(s)' = HeldBy(round'[s])
BY DEF HeldByRound, HeldBy

LEMMA WellFormedHeld ==
  ASSUME NEW state, WellFormed(state)
  PROVE  /\ HeldBy(state) \subseteq ObjectID
         /\ \A task \in state.tasks : task.coin \in GasCoin /\ task.coin.id \in HeldBy(state)
BY DEF WellFormed, HeldBy, GasCoin

\* A round that does not move stays as it is known, whatever coins the pool loses and
\* whatever lands.
LEMMA RoundStaysKnown ==
  ASSUME ChainTypeOK, ChainTypeOK', NEW t \in Server, RoundKnown(t),
         round'[t] = round[t], minted \subseteq minted', t \in connected => t \in connected',
         \A c \in HeldByRound(t) : c \notin Owned' /\ OnlyGrows(c)
  PROVE  RoundKnown(t)'
<1>1. HeldByRound(t)' = HeldByRound(t)
  BY DEF HeldByRound
<1>2. ASSUME NEW task \in round[t].tasks PROVE Behind(task.coin)'
  <2>1. task.coin \in GasCoin /\ task.coin.id \in HeldByRound(t) /\ Behind(task.coin)
    BY <1>2, WellFormedHeld, HeldByRoundIs DEF RoundKnown
  <2> QED BY <2>1, BehindStays
<1>3. WellFormed(round[t])'
  BY DEF RoundKnown, WellFormed
<1>4. HeldByRound(t)' \subseteq minted' /\ HeldByRound(t)' \cap Owned' = {}
  BY <1>1 DEF RoundKnown
<1> QED BY <1>2, <1>3, <1>4 DEF RoundKnown, Asleep

\* Rounds have no coins but while they split, and one round splits at a time.
LEMMA InvGivesOneHolderWithRounds == InitializerInv => OneHolderWithRounds
<1> SUFFICES ASSUME InitializerInv PROVE OneHolderWithRounds
  OBVIOUS
<1>1. OneHolder
  BY InvGivesOneHolder DEF InitializerInv, CoinsInv
<1>2. \A s \in Server : HeldByRound(s) # {} => s \in InRound
  BY DEF InitializerInv, CoinsInv, RoundKnown, HeldByRound, InRound
<1>3. \A s, t \in InRound : s = t
  BY DEF InitializerInv, CoinsInv, RoundInv, OneRoundAtATime
<1>4. \A s, t \in Server : HeldByRound(s) \cap HeldByRound(t) # {} => s = t
  BY <1>2, <1>3
<1>5. \A s \in Server : HeldByRound(s) \cap (InRedis \cup HeldByTasks) = {}
  BY DEF InitializerInv, CoinsInv, RoundKnown, Owned
<1> QED BY <1>1, <1>4, <1>5 DEF OneHolderWithRounds

-----------------------------------------------------------------------------
(* Steps of the pool under the rounds *)

\* MintedInv after a step of the pool.
LEMMA PoolKeepsMinted ==
  ASSUME CoinsTracked, PoolInv, PoolInv', MintedInv, [Next]_vars, minted' = minted
  PROVE  MintedInv'
<1>1. /\ \A c \in ObjectID : OnlyGrows(c)
      /\ fullnode' = fullnode \/ fullnode' = chain'
  BY PoolOnlyGrows
<1>2. Owned' \subseteq minted'
  BY NextShrinksOwned DEF MintedInv
<1>3. \A c \in ObjectID : chain'[c] # Nil \/ fullnode'[c] # Nil => c \in minted'
  BY <1>1 DEF MintedInv, OnlyGrows
<1>4. ASSUME NEW c \in ObjectID, fullnode'[c] # Nil PROVE Behind(fullnode[c])'
  <2>1. CASE fullnode' = chain'
    <3>1. chain'[c].id = c
      BY <1>4, <2>1 DEF PoolInv, ChainFiled
    <3> QED BY <2>1, <3>1 DEF Behind
  <2>2. CASE fullnode' = fullnode
    <3>1. fullnode[c] \in GasCoin /\ fullnode[c].id = c /\ Behind(fullnode[c])
      BY <1>4, <2>2 DEF PoolInv, ChainTypeOK, ChainFiled, MintedInv
    <3>2. ChainTypeOK /\ ChainTypeOK' /\ OnlyGrows(fullnode[c].id)
      BY <1>1, <3>1 DEF PoolInv
    <3>3. Behind(fullnode[c]) => Behind(fullnode[c])'
      <4>1. PICK coin : coin = fullnode[c]
        OBVIOUS
      <4>2. Behind(coin)'
        BY <3>1, <3>2, <4>1, BehindStays
      <4> QED BY <2>2, <4>1, <4>2 DEF Behind
    <3> QED BY <3>1, <3>3
  <2> QED BY <1>1, <2>1, <2>2
<1> QED BY <1>2, <1>3, <1>4 DEF MintedInv

\* A step of the pool, with the rounds of all servers but s left alone.
LEMMA PoolKeepsRounds ==
  ASSUME CoinsTracked, InitializerInv, [Next]_vars, minted' = minted,
         NEW S \in SUBSET Server, \A t \in S : round'[t] = round[t],
         \A t \in S : t \in connected => t \in connected'
  PROVE  PoolInv' /\ MintedInv' /\ \A t \in S : RoundKnown(t)'
<1>1. PoolInv /\ PoolInv'
  BY NextKeepsInv DEF InitializerInv, CoinsInv
<1>2. MintedInv'
  BY <1>1, PoolKeepsMinted DEF InitializerInv, CoinsInv
<1>3. ASSUME NEW t \in S PROVE RoundKnown(t)'
  <2>1. RoundKnown(t)
    BY DEF InitializerInv, CoinsInv
  <2>2. \A c \in HeldByRound(t) : c \in ObjectID /\ c \notin Owned
    BY <2>1, HeldByRoundIs, WellFormedHeld DEF RoundKnown
  <2>3. \A c \in HeldByRound(t) : c \notin Owned' /\ OnlyGrows(c)
    BY <1>1, <2>2, NextShrinksOwned, PoolOnlyGrows
  <2>4. ChainTypeOK /\ ChainTypeOK' /\ minted \subseteq minted'
    BY <1>1 DEF PoolInv
  <2> QED BY <2>1, <2>3, <2>4, RoundStaysKnown
<1> QED BY <1>1, <1>2, <1>3

LEMMA SetRoundSets ==
  ASSUME RoundInv, NEW s \in Server, NEW state, SetRound(s, state)
  PROVE  round'[s] = state /\ \A t \in Server : t # s => round'[t] = round[t]
<1>1. round' = [round EXCEPT ![s] = state] /\ DOMAIN round = Server
  BY DEF SetRound, RoundInv, RoundShaped
<1> QED BY <1>1

LEMMA RoundIsRecord ==
  ASSUME RoundInv, NEW s \in Server
  PROVE  /\ round[s] \in [mode : {"init", "refresh"}, stage : RoundStages,
                          tasks : {round[s].tasks}, result : {round[s].result}]
         /\ round[s].mode \in {"init", "refresh"} /\ round[s].stage \in RoundStages
<1>1. round[s] \in [mode : {"init", "refresh"}, stage : RoundStages,
                    tasks : {round[s].tasks}, result : {round[s].result}]
  BY DEF RoundInv, RoundShaped
<1> QED BY <1>1

\* A server without coins in hands is easily known.
LEMMA AsleepIsKnown ==
  ASSUME NEW s \in Server, NEW mode, NEW stage, round'[s] = Asleep(mode, stage),
         stage # "split", s \in connected' \/ (mode = "init" /\ stage = "start")
  PROVE  RoundKnown(s)'
<1>1. /\ round'[s].tasks = {} /\ round'[s].result = {} /\ round'[s].stage = stage
  BY DEF Asleep
<1>2. HeldByRound(s)' = {}
  BY <1>1 DEF HeldByRound
<1>3. WellFormed(round[s])'
  BY <1>1 DEF WellFormed
<1> QED BY <1>1, <1>2, <1>3 DEF RoundKnown, Asleep

\* Of a server that went past its start it is known that it is connected.
LEMMA StartedIsConnected ==
  ASSUME InitializerInv, NEW s \in Server, round[s].stage # "start"
  PROVE  s \in connected
BY DEF InitializerInv, CoinsInv, RoundKnown, Asleep

\* One server takes a step while the pool does, or does not, take one.
LEMMA ServerMoves ==
  ASSUME CoinsTracked, InitializerInv, [Next]_vars, minted' = minted,
         NEW s \in Server, NEW state, SetRound(s, state), RoundKnown(s)',
         \A t \in Server \ {s} : t \in connected => t \in connected',
         state.mode = "init" /\ state.stage = "list" => ~initialized,
         initLock' < 0 /\ (CheckPending \/ state = Asleep("init", "acquire")) => ~initialized
  PROVE  CoinsInv'
<1>1. round'[s] = state /\ \A t \in Server : t # s => round'[t] = round[t]
  BY SetRoundSets DEF InitializerInv
<1>2. PoolInv' /\ MintedInv' /\ \A t \in Server \ {s} : RoundKnown(t)'
  BY <1>1, PoolKeepsRounds
<1>3. initialized' = initialized \/ (initialized' /\ Owned # {})
  BY CoinsInitialize DEF InitializerInv, CoinsInv
<1>4. Owned' \subseteq Owned
  BY NextShrinksOwned DEF InitializerInv, CoinsInv
<1>5. ~initialized => ~initialized' /\ Owned = {}
  BY <1>3 DEF InitializerInv, CoinsInv, EmptyFirst
<1>6. ~initialized' => ~initialized
  BY <1>3
<1>7. CheckPending' => CheckPending \/ state = Asleep("init", "acquire")
  BY <1>1 DEF CheckPending, Asleep
<1>8. \A t \in Server : round'[t].mode = "init" /\ round'[t].stage = "list" => ~initialized
  BY <1>1 DEF InitializerInv, CoinsInv, EmptyFirst
<1>9. EmptyFirst'
  BY <1>4, <1>5, <1>6, <1>7, <1>8 DEF EmptyFirst
<1> QED BY <1>2, <1>9 DEF CoinsInv

\* No server takes a step of its round.
LEMMA NobodyMoves ==
  ASSUME CoinsTracked, InitializerInv, [Next]_vars, UNCHANGED <<round, minted>>,
         connected \subseteq connected',
         initLock' < 0 /\ CheckPending => ~initialized
  PROVE  CoinsInv'
<1>1. PoolInv' /\ MintedInv' /\ \A t \in Server : RoundKnown(t)'
  BY PoolKeepsRounds
<1>2. initialized' = initialized \/ (initialized' /\ Owned # {})
  BY CoinsInitialize DEF InitializerInv, CoinsInv
<1>3. Owned' \subseteq Owned
  BY NextShrinksOwned DEF InitializerInv, CoinsInv
<1>4. ~initialized => ~initialized' /\ Owned = {}
  BY <1>2 DEF InitializerInv, CoinsInv, EmptyFirst
<1>5. CheckPending' => CheckPending
  BY DEF CheckPending, Asleep
<1>6. \A t \in Server : round'[t].mode = "init" /\ round'[t].stage = "list" => ~initialized
  BY DEF InitializerInv, CoinsInv, EmptyFirst
<1>7. EmptyFirst'
  BY <1>2, <1>3, <1>4, <1>5, <1>6 DEF EmptyFirst
<1> QED BY <1>1, <1>7 DEF CoinsInv

-----------------------------------------------------------------------------
(* Steps of a round that leave the chain and the pool alone *)

LEMMA CheckInitializedKeepsCoins ==
  ASSUME CoinsTracked, InitializerInv, NEW s \in Server, CheckInitialized(s)
  PROVE  CoinsInv'
<1>1. UNCHANGED vars /\ UNCHANGED <<initLock, minted, connected>> /\ s \in connected
  BY DEF CheckInitialized, poolUnchanged, vars, storageVars
<1>2. PICK mode, stage :
        /\ SetRound(s, Asleep(mode, stage)) /\ stage \in {"sleep", "acquire"}
        /\ mode = "init" /\ stage = "acquire" => ~initialized
  BY DEF CheckInitialized
<1>3. round'[s] = Asleep(mode, stage)
  BY <1>2, SetRoundSets DEF InitializerInv
<1>4. RoundKnown(s)'
  BY <1>1, <1>2, <1>3, AsleepIsKnown
<1>5. /\ Asleep(mode, stage).stage # "list"
      /\ Asleep(mode, stage) = Asleep("init", "acquire") => ~initialized
  BY <1>2 DEF Asleep
<1>6. initLock' < 0 /\ CheckPending => ~initialized
  BY <1>1 DEF InitializerInv, CoinsInv, EmptyFirst
<1> QED BY <1>1, <1>2, <1>4, <1>5, <1>6, ServerMoves

\* A server that stops its round, as it is to be or not, or starts another one.
LEMMA RestKeepsCoins ==
  ASSUME CoinsTracked, InitializerInv, NEW s \in Server, NEW mode, NEW stage,
         SetRound(s, Asleep(mode, stage)), round[s].stage # "start",
         stage \in {"sleep", "acquire", "dead"}, mode = "refresh" \/ stage = "dead",
         UNCHANGED vars, minted' = minted,
         initLock' \in Nat \/ initLock' = initLock \/ ~CheckPending
  PROVE  CoinsInv'
<1>1. s \in connected /\ connected' = connected
  BY StartedIsConnected DEF vars, storageVars
<1>2. round'[s] = Asleep(mode, stage)
  BY SetRoundSets DEF InitializerInv
<1>3. RoundKnown(s)'
  BY <1>1, <1>2, AsleepIsKnown
<1>4. /\ Asleep(mode, stage).stage # "list"
      /\ Asleep(mode, stage) # Asleep("init", "acquire")
  BY DEF Asleep
<1>5. initLock' < 0 /\ CheckPending => ~initialized
  BY DEF InitializerInv, CoinsInv, EmptyFirst, RoundInv
<1> QED BY <1>1, <1>3, <1>4, <1>5, ServerMoves

LEMMA AcquireKeepsCoins ==
  ASSUME CoinsTracked, InitializerInv, NEW s \in Server, AcquireInitLock(s)
  PROVE  CoinsInv'
<1>1. UNCHANGED vars /\ minted' = minted /\ connected' = connected /\ round[s].stage = "acquire"
  BY DEF AcquireInitLock, poolUnchanged, vars, storageVars
<1>2. s \in connected
  BY <1>1, StartedIsConnected
<1>3. CASE initLock < 0
  <2>1. PICK state : state = [round[s] EXCEPT !.stage = "list"]
    OBVIOUS
  <2>2. SetRound(s, state) /\ initLock' = InitDuration
    BY <1>3, <2>1 DEF AcquireInitLock
  <2>3. /\ round[s] \in [mode : {"init", "refresh"}, stage : RoundStages,
                         tasks : {round[s].tasks}, result : {round[s].result}]
        /\ round[s].tasks = {} /\ round[s].result = {}
    BY <1>1, RoundIsRecord DEF InitializerInv, CoinsInv, RoundKnown
  <2>4. state = Asleep(round[s].mode, "list") /\ round[s] = Asleep(round[s].mode, "acquire")
    BY <1>1, <2>1, <2>3 DEF Asleep
  <2>5. RoundKnown(s)'
    <3>1. round'[s] = state
      BY <2>2, SetRoundSets DEF InitializerInv
    <3> QED BY <1>1, <1>2, <2>4, <3>1, AsleepIsKnown
  <2>6. state.mode = round[s].mode /\ state # Asleep("init", "acquire")
    BY <2>4 DEF Asleep
  <2>7. state.mode = "init" => ~initialized
    BY <1>3, <2>4, <2>6 DEF CheckPending, InitializerInv, CoinsInv, EmptyFirst
  <2>8. ~(initLock' < 0)
    BY <2>2, InitializerAssumption
  <2> QED BY <1>1, <2>2, <2>5, <2>6, <2>7, <2>8, ServerMoves
<1>4. CASE ~(initLock < 0)
  <2>1. SetRound(s, Asleep("refresh", "sleep")) /\ initLock' = initLock
    BY <1>4 DEF AcquireInitLock
  <2> QED BY <1>1, <2>1, RestKeepsCoins
<1> QED BY <1>3, <1>4

\* The coins that are listed are in nobody's hands: there are none in the pool yet, or
\* they are too large for the pool.
LEMMA ListedCoinsAreFree ==
  ASSUME InitializerInv, PoolCoinsStaySmall, NEW s \in Server, round[s].stage = "list",
         NEW c \in ObjectID, fullnode[c] # Nil, fullnode[c].balance >= BalanceThreshold(round[s].mode)
  PROVE  c \notin Owned /\ c \in minted /\ Behind(fullnode[c])
<1>1. c \in minted /\ Behind(fullnode[c])
  BY DEF InitializerInv, CoinsInv, MintedInv
<1>2. CASE round[s].mode = "init"
  BY <1>1, <1>2 DEF InitializerInv, CoinsInv, EmptyFirst
<1>3. CASE round[s].mode = "refresh"
  <2>1. fullnode[c].balance \in Nat
    BY DEF InitializerInv, CoinsInv, PoolInv, ChainTypeOK, GasCoin
  <2>2. BalanceThreshold("refresh") \in Nat
    BY InitializerAssumption DEF BalanceThreshold
  <2>3. c \in Owned => fullnode[c].balance < BalanceThreshold("refresh")
    BY DEF PoolCoinsStaySmall, Owned
  <2> QED BY <1>1, <1>3, <2>1, <2>2, <2>3
<1> QED BY <1>2, <1>3, RoundIsRecord DEF InitializerInv

\* The coins get_all_owned_sui_coins_above_balance_threshold returns.
Listed(mode) ==
  {fullnode[c] : c \in {d \in ObjectID :
     fullnode[d] # Nil /\ fullnode[d].balance >= BalanceThreshold(mode)}}

LEMMA ListedAre ==
  ASSUME ChainTypeOK, ChainFiled, NEW mode
  PROVE  /\ Listed(mode) \subseteq GasCoin
         /\ \A coin, other \in Listed(mode) : coin.id = other.id => coin = other
         /\ \A coin \in Listed(mode) :
              /\ coin.id \in ObjectID /\ coin = fullnode[coin.id] /\ fullnode[coin.id] # Nil
              /\ coin.balance >= BalanceThreshold(mode)
BY DEF Listed, ChainTypeOK, ChainFiled

LEMMA ListCoinsKeepsCoins ==
  ASSUME CoinsTracked, InitializerInv, PoolCoinsStaySmall, NEW s \in Server, ListCoins(s)
  PROVE  CoinsInv'
<1>1. /\ UNCHANGED vars /\ minted' = minted /\ connected' = connected /\ initLock' = initLock
      /\ UNCHANGED <<chain, fullnode>> /\ round[s].stage = "list"
  BY DEF ListCoins, poolUnchanged, vars, storageVars, envVars
<1>2. PICK coins : coins = Listed(round[s].mode)
  OBVIOUS
<1>3. PICK state : state = [round[s] EXCEPT !.stage = "split"]
  OBVIOUS
<1>4. PICK next : next = Enqueue(state, coins)
  OBVIOUS
<1>5. SetRound(s, next)
  BY <1>2, <1>3, <1>4 DEF ListCoins, Listed
<1>6. /\ round[s] \in [mode : {"init", "refresh"}, stage : RoundStages,
                       tasks : {round[s].tasks}, result : {round[s].result}]
      /\ round[s].tasks = {} /\ round[s].result = {}
  BY <1>1, RoundIsRecord DEF InitializerInv, CoinsInv, RoundKnown
<1>7. /\ state \in [mode : {"init", "refresh"}, stage : RoundStages,
                    tasks : {state.tasks}, result : {state.result}]
      /\ state.stage = "split" /\ state.tasks = {} /\ state.result = {}
  BY <1>3, <1>6 DEF RoundStages
<1>8. WellFormed(state) /\ HeldBy(state) = {}
  BY <1>7 DEF WellFormed, HeldBy
<1>9. /\ coins \subseteq GasCoin
      /\ \A coin, other \in coins : coin.id = other.id => coin = other
      /\ \A coin \in coins :
           /\ coin.id \in ObjectID /\ coin = fullnode[coin.id] /\ fullnode[coin.id] # Nil
           /\ coin.balance >= BalanceThreshold(round[s].mode)
  BY <1>2, ListedAre DEF InitializerInv, CoinsInv, PoolInv
<1>10. /\ WellFormed(next) /\ HeldBy(next) = {coin.id : coin \in coins}
       /\ \A task \in next.tasks : task.coin \in coins
       /\ next.stage = "split"
  BY <1>4, <1>7, <1>8, <1>9, EnqueueTakes
<1>11. \A coin \in coins : coin.id \notin Owned /\ coin.id \in minted /\ Behind(coin)
  <2> SUFFICES ASSUME NEW coin \in coins
               PROVE  coin.id \notin Owned /\ coin.id \in minted /\ Behind(coin)
    OBVIOUS
  <2>1. PICK c : c = coin.id
    OBVIOUS
  <2>2. c \notin Owned /\ c \in minted /\ Behind(fullnode[c])
    BY <1>1, <1>9, <2>1, ListedCoinsAreFree
  <2> QED BY <1>9, <2>1, <2>2
<1>12. Owned' \subseteq Owned
  BY <1>1, NextShrinksOwned DEF InitializerInv, CoinsInv
<1>13. round'[s] = next
  BY <1>5, SetRoundSets DEF InitializerInv
<1>14. RoundKnown(s)'
  <2>1. s \in connected'
    BY <1>1, StartedIsConnected
  <2>2. HeldByRound(s)' = {coin.id : coin \in coins}
    BY <1>10, <1>13, HeldByRoundIs
  <2>3. \A task \in next.tasks : Behind(task.coin)'
    BY <1>1, <1>10, <1>11 DEF Behind
  <2>4. WellFormed(round[s])'
    BY <1>10, <1>13 DEF WellFormed
  <2> QED BY <1>1, <1>10, <1>11, <1>12, <1>13, <2>1, <2>2, <2>3, <2>4 DEF RoundKnown
<1>15. initLock' < 0 /\ (CheckPending \/ next = Asleep("init", "acquire")) => ~initialized
  BY <1>1, <1>10 DEF InitializerInv, CoinsInv, EmptyFirst, Asleep
<1> QED BY <1>1, <1>5, <1>10, <1>14, <1>15, ServerMoves

\* The coin of a task is replaced by what the fullnode has under its id.
LEMMA LookUpAgainKeepsCoins ==
  ASSUME CoinsTracked, InitializerInv, NEW s \in Server, NEW task \in round[s].tasks,
         LookUpAgain(s, task)
  PROVE  CoinsInv'
<1> DEFINE latest == fullnode[task.coin.id]
<1>1. /\ UNCHANGED vars /\ minted' = minted /\ connected' = connected /\ initLock' = initLock
      /\ UNCHANGED <<chain, fullnode>>
  BY DEF LookUpAgain, poolUnchanged, vars, storageVars, envVars
<1>2. /\ RoundKnown(s) /\ round[s].stage = "split"
  BY DEF InitializerInv, CoinsInv, RoundKnown
<1>3. CASE latest = Nil
  <2>1. SetRound(s, Asleep(round[s].mode, "dead"))
    BY <1>3 DEF LookUpAgain
  <2> QED BY <1>1, <1>2, <2>1, RestKeepsCoins
<1>4. CASE latest # Nil
  <2>1. task \in [coin : GasCoin, count : Nat \ {0}] /\ task.coin.id \in ObjectID
    BY <1>2 DEF RoundKnown, WellFormed, GasCoin
  <2>2. latest \in GasCoin /\ latest.id = task.coin.id
    BY <1>4, <2>1 DEF InitializerInv, CoinsInv, PoolInv, ChainTypeOK, ChainFiled
  <2>3. Behind(latest)
    BY <1>4, <2>1 DEF InitializerInv, CoinsInv, MintedInv
  <2>4. PICK again : again = [task EXCEPT !.coin = latest]
    OBVIOUS
  <2>5. /\ again \in [coin : GasCoin, count : Nat \ {0}]
        /\ again.coin = latest /\ again.coin.id = task.coin.id
    BY <2>1, <2>2, <2>4
  <2>6. PICK tasks : tasks = (round[s].tasks \ {task}) \cup {again}
    OBVIOUS
  <2>7. PICK next : next = [round[s] EXCEPT !.tasks = tasks]
    OBVIOUS
  <2>8. SetRound(s, next)
    BY <1>4, <2>4, <2>6, <2>7 DEF LookUpAgain
  <2>9. round'[s] = next
    BY <2>8, SetRoundSets DEF InitializerInv
  <2>10. next.tasks = tasks /\ next.result = round[s].result /\ next.stage = "split"
    BY <1>2, <2>7, RoundIsRecord DEF InitializerInv
  <2> HIDE DEF latest
  <2>11. WellFormed(next)
    <3>1. tasks \subseteq [coin : GasCoin, count : Nat \ {0}]
      BY <1>2, <2>5, <2>6 DEF RoundKnown, WellFormed
    <3>2. \A t, u \in tasks : t.coin.id = u.coin.id => t = u
      BY <1>2, <2>5, <2>6 DEF RoundKnown, WellFormed
    <3>3. \A t \in tasks, coin \in round[s].result : t.coin.id # coin.id
      BY <1>2, <2>5, <2>6 DEF RoundKnown, WellFormed
    <3> QED BY <1>2, <2>10, <3>1, <3>2, <3>3 DEF RoundKnown, WellFormed
  <2>12. HeldBy(next) = HeldBy(round[s])
    <3>1. \A t \in tasks : t.coin.id \in HeldBy(round[s])
      BY <2>5, <2>6 DEF HeldBy
    <3>2. \A t \in round[s].tasks : \E u \in tasks : u.coin.id = t.coin.id
      BY <2>5, <2>6
    <3> QED BY <2>10, <3>1, <3>2 DEF HeldBy
  <2>13. RoundKnown(s)'
    <3>1. s \in connected'
      BY <1>1, <1>2, StartedIsConnected
    <3>2. HeldByRound(s)' = HeldByRound(s)
      BY <2>9, <2>12, HeldByRoundIs
    <3>3. Owned' \subseteq Owned
      BY <1>1, NextShrinksOwned DEF InitializerInv, CoinsInv
    <3>4. \A t \in tasks : Behind(t.coin)'
      BY <1>1, <1>2, <2>3, <2>5, <2>6 DEF Behind, RoundKnown
    <3>5. WellFormed(round[s])'
      BY <2>9, <2>11 DEF WellFormed
    <3> QED BY <1>1, <1>2, <2>9, <2>10, <3>1, <3>2, <3>3, <3>4, <3>5 DEF RoundKnown
  <2>14. initLock' < 0 /\ (CheckPending \/ next = Asleep("init", "acquire")) => ~initialized
    BY <1>1, <2>10 DEF InitializerInv, CoinsInv, EmptyFirst, Asleep
  <2> QED BY <1>1, <2>8, <2>10, <2>13, <2>14, ServerMoves
<1> QED BY <1>3, <1>4

-----------------------------------------------------------------------------
(* Steps that mint *)

\* Coins are minted on chain while the pool rests; the rounds of S do not move.
LEMMA MintKeepsCoins ==
  ASSUME InitializerInv, UNCHANGED <<storageVars, taskVars, network>>,
         fullnode' = chain', ChainTypeOK', ChainFiled',
         \A c \in minted : OnlyGrows(c),
         minted \subseteq minted', minted' \subseteq ObjectID,
         \A c \in ObjectID : chain'[c] # Nil => c \in minted',
         NEW S \in SUBSET Server, \A t \in S : round'[t] = round[t]
  PROVE  /\ PoolInv' /\ MintedInv' /\ \A t \in S : RoundKnown(t)'
         /\ Owned' = Owned /\ UNCHANGED <<initialized, connected>>
<1>1. PoolInv' /\ UNCHANGED <<available, reservation, exec, unlocker, initialized, connected>>
  BY EnvironmentKeepsInv DEF InitializerInv, CoinsInv, storageVars, taskVars
<1>2. Owned' = Owned
  BY <1>1 DEF Owned, InRedis, ReservedIds, HeldByTasks, HeldByExec, HeldByUnlocker, Ids
<1>3. MintedInv'
  <2>1. \A c \in ObjectID : fullnode'[c] # Nil => fullnode'[c].id = c
    BY DEF ChainFiled
  <2>2. \A c \in ObjectID : fullnode'[c] # Nil => Behind(fullnode[c])'
    BY <2>1 DEF Behind
  <2> QED BY <1>2, <2>2 DEF MintedInv, InitializerInv, CoinsInv
<1>4. ASSUME NEW t \in S PROVE RoundKnown(t)'
  <2>1. RoundKnown(t)
    BY DEF InitializerInv, CoinsInv
  <2>2. \A c \in HeldByRound(t) : c \notin Owned' /\ OnlyGrows(c)
    BY <1>2, <2>1 DEF RoundKnown
  <2>3. ChainTypeOK
    BY DEF InitializerInv, CoinsInv, PoolInv
  <2> QED BY <1>1, <2>1, <2>2, <2>3, RoundStaysKnown
<1> QED BY <1>1, <1>2, <1>3, <1>4

LEMMA ReceiveDepositKeepsCoins ==
  ASSUME InitializerInv, NEW c \in DOMAIN Deposit, ReceiveDeposit(c)
  PROVE  CoinsInv'
<1>1. /\ c \notin minted /\ minted' = minted \cup {c} /\ fullnode' = chain'
      /\ UNCHANGED <<storageVars, taskVars, network, initLock, round>>
      /\ chain' = [chain EXCEPT ![c] = [id |-> c, version |-> 1, balance |-> Deposit[c]]]
  BY DEF ReceiveDeposit
<1>2. c \in ObjectID /\ Deposit[c] \in Nat
  BY InitializerAssumption
<1>3. /\ chain \in [ObjectID -> GasCoin \cup {Nil}]
      /\ \A d \in ObjectID : chain[d] # Nil => chain[d].id = d /\ d \in minted
      /\ minted \subseteq ObjectID
  BY DEF InitializerInv, CoinsInv, PoolInv, ChainTypeOK, ChainFiled, MintedInv
<1>4. /\ chain'[c] \in GasCoin /\ chain'[c].id = c
      /\ \A d \in ObjectID \ {c} : chain'[d] = chain[d]
  BY <1>1, <1>2, <1>3 DEF GasCoin
<1>5. chain' \in [ObjectID -> GasCoin \cup {Nil}]
  BY <1>1, <1>2, <1>3, <1>4
<1>6. ChainTypeOK' /\ ChainFiled'
  BY <1>1, <1>3, <1>4, <1>5 DEF ChainTypeOK, ChainFiled
<1>7. \A d \in minted : OnlyGrows(d)
  BY <1>1, <1>3, <1>4 DEF OnlyGrows
<1>8. /\ PoolInv' /\ MintedInv' /\ \A t \in Server : RoundKnown(t)'
      /\ Owned' = Owned /\ UNCHANGED <<initialized, connected>>
  BY <1>1, <1>2, <1>3, <1>4, <1>6, <1>7, MintKeepsCoins
<1>9. EmptyFirst'
  BY <1>1, <1>8 DEF EmptyFirst, CheckPending, Asleep, InitializerInv, CoinsInv
<1> QED BY <1>8, <1>9 DEF CoinsInv

\* A split that lands was one of the coin its task has in mind, and the balances derived
\* from it are those on chain.
LEMMA SplitLandsChanges ==
  ASSUME InitializerInv, NEW task \in [coin : GasCoin, count : Nat \ {0}], Behind(task.coin),
         task.coin.id \in minted,
         NEW created \in SUBSET ObjectID, created \cap minted = {}, SplitLands(task, created)
  PROVE  /\ \A c \in created \cup {task.coin.id} :
              /\ chain'[c] = [id |-> c, version |-> task.coin.version + 1,
                              balance |-> DerivedBalance(task, c = task.coin.id)]
              /\ chain'[c] \in GasCoin
         /\ \A c \in ObjectID \ (created \cup {task.coin.id}) : chain'[c] = chain[c]
         /\ ChainTypeOK' /\ ChainFiled'
         /\ fullnode' = chain' /\ minted' = minted \cup created
         /\ UNCHANGED <<storageVars, taskVars, network>>
         /\ \A c \in minted : OnlyGrows(c)
         /\ \A c \in ObjectID : chain'[c] # Nil => c \in minted'
<1> DEFINE coin == task.coin
           n    == task.count
           part == (coin.balance - GasBudget(n)) \div n
           rest == (coin.balance - part * (n - 1)) - GasPerObject * n
<1>1. coin \in GasCoin /\ coin.id \in ObjectID /\ coin.version \in Nat /\ coin.balance \in Nat
      /\ n \in Nat \ {0}
  BY DEF GasCoin
<1>2. chain[coin.id] # Nil /\ chain[coin.id].version = coin.version
  BY DEF SplitLands
<1>3. chain[coin.id] = coin
  BY <1>1, <1>2 DEF Behind
<1>4. coin.balance >= GasBudget(n)
  BY <1>3 DEF SplitLands
<1>5. /\ chain' = [c \in ObjectID |->
                     IF c = coin.id THEN [coin EXCEPT !.version = @ + 1, !.balance = rest]
                     ELSE IF c \in created
                       THEN [id |-> c, version |-> coin.version + 1, balance |-> part]
                     ELSE chain[c]]
      /\ fullnode' = chain' /\ minted' = minted \cup created
      /\ UNCHANGED <<storageVars, taskVars, network>>
  BY <1>3, Zenon DEF SplitLands
<1>6. part \in Nat /\ rest \in Nat
  BY <1>1, <1>4, PartsArePositive
<1>8. coin.id \notin created
  OBVIOUS
<1> HIDE DEF part, rest, n, coin
<1>9. ASSUME NEW c \in created \cup {coin.id}
      PROVE  /\ chain'[c] = [id |-> c, version |-> coin.version + 1,
                             balance |-> DerivedBalance(task, c = coin.id)]
             /\ chain'[c] \in GasCoin
             /\ chain'[c].id = c /\ chain'[c].version = coin.version + 1
  <2>1. c \in ObjectID
    BY <1>1
  <2>2. CASE c = coin.id
    <3>1. chain'[c] = [coin EXCEPT !.version = @ + 1, !.balance = rest]
      BY <1>5, <2>1, <2>2
    <3>2. chain'[c] = [id |-> c, version |-> coin.version + 1, balance |-> rest]
      BY <1>1, <2>2, <3>1 DEF GasCoin
    <3>3. DerivedBalance(task, c = coin.id) = rest
      BY <2>2 DEF DerivedBalance, rest, part, n, coin
    <3>4. chain'[c] \in GasCoin
      BY <1>1, <1>6, <2>1, <3>2 DEF GasCoin
    <3> QED BY <3>2, <3>3, <3>4
  <2>3. CASE c # coin.id
    <3>1. chain'[c] = [id |-> c, version |-> coin.version + 1, balance |-> part]
      BY <1>5, <2>1, <2>3
    <3>2. DerivedBalance(task, c = coin.id) = part
      BY <2>3 DEF DerivedBalance, part, n, coin
    <3>3. chain'[c] \in GasCoin
      BY <1>1, <1>6, <2>1, <3>1 DEF GasCoin
    <3> QED BY <3>1, <3>2, <3>3
  <2> QED BY <2>2, <2>3
<1>10. \A c \in ObjectID \ (created \cup {coin.id}) : chain'[c] = chain[c]
  BY <1>5
<1>11. /\ chain \in [ObjectID -> GasCoin \cup {Nil}]
       /\ \A c \in ObjectID : chain[c] # Nil => chain[c].id = c /\ c \in minted
  BY DEF InitializerInv, CoinsInv, PoolInv, ChainTypeOK, ChainFiled, MintedInv
<1>12. \A c \in ObjectID : chain'[c] \in GasCoin \cup {Nil} /\ (chain'[c] # Nil => chain'[c].id = c)
  <2> SUFFICES ASSUME NEW c \in ObjectID
               PROVE  chain'[c] \in GasCoin \cup {Nil} /\ (chain'[c] # Nil => chain'[c].id = c)
    OBVIOUS
  <2>1. CASE c \in created \cup {coin.id}
    BY <1>9, <2>1
  <2>2. CASE c \notin created \cup {coin.id}
    BY <1>10, <1>11, <2>2
  <2> QED BY <2>1, <2>2
<1>13. ChainTypeOK' /\ ChainFiled'
  <2>1. chain' \in [ObjectID -> GasCoin \cup {Nil}]
    BY <1>5, <1>12
  <2> QED BY <1>5, <1>12, <2>1 DEF ChainTypeOK, ChainFiled
<1>14. ASSUME NEW c \in minted PROVE OnlyGrows(c)
  <2>1. c \in ObjectID /\ c \notin created
    BY DEF InitializerInv, CoinsInv, MintedInv
  <2>2. CASE c = coin.id
    <3>1. chain'[c].version = coin.version + 1
      BY <1>9, <2>2
    <3> QED BY <1>1, <1>2, <2>2, <3>1 DEF OnlyGrows
  <2>3. CASE c # coin.id
    BY <1>10, <2>1, <2>3 DEF OnlyGrows
  <2> QED BY <2>2, <2>3
<1>15. \A c \in ObjectID : chain'[c] # Nil => c \in minted'
  <2>1. coin.id \in minted
    BY DEF coin
  <2> QED BY <1>5, <1>10, <1>11, <2>1
<1> QED BY <1>5, <1>9, <1>10, <1>13, <1>14, <1>15 DEF coin

\* A split task in hands: what SplitLandsChanges asks of it.
LEMMA TaskInHands ==
  ASSUME InitializerInv, NEW s \in Server, NEW task \in round[s].tasks
  PROVE  /\ task \in [coin : GasCoin, count : Nat \ {0}] /\ Behind(task.coin)
         /\ task.coin.id \in minted /\ task.coin.id \in HeldByRound(s)
         /\ task.coin.id \in ObjectID /\ task.coin.version \in Nat
         /\ round[s].stage = "split" /\ s \in connected
<1>1. RoundKnown(s)
  BY DEF InitializerInv, CoinsInv
<1>2. task.coin.id \in HeldByRound(s)
  BY DEF HeldByRound
<1>3. task \in [coin : GasCoin, count : Nat \ {0}]
  BY <1>1 DEF RoundKnown, WellFormed
<1>4. round[s].stage = "split"
  BY <1>1 DEF RoundKnown
<1>5. s \in connected
  BY <1>4, StartedIsConnected
<1> QED BY <1>1, <1>2, <1>3, <1>4, <1>5 DEF RoundKnown, GasCoin

\* A landed split, as the rounds of S see it: from outside.
LEMMA SplitKeepsOthers ==
  ASSUME InitializerInv, NEW s \in Server, NEW task \in round[s].tasks,
         HasFreshIds(task.count), SplitLands(task, FreshIds(task.count)),
         NEW S \in SUBSET Server, \A t \in S : round'[t] = round[t]
  PROVE  /\ PoolInv' /\ MintedInv' /\ \A t \in S : RoundKnown(t)'
         /\ Owned' = Owned /\ UNCHANGED <<initialized, connected>>
<1>1. FreshIds(task.count) \subseteq ObjectID /\ FreshIds(task.count) \cap minted = {}
  BY TaskInHands, FreshIdsAreUnused
<1> DEFINE created == FreshIds(task.count)
<1> HIDE DEF created
<1>2. created \in SUBSET ObjectID /\ created \cap minted = {} /\ SplitLands(task, created)
  BY <1>1 DEF created
<1>3. /\ ChainTypeOK' /\ ChainFiled'
      /\ fullnode' = chain' /\ minted' = minted \cup created
      /\ UNCHANGED <<storageVars, taskVars, network>>
      /\ \A c \in minted : OnlyGrows(c)
      /\ \A c \in ObjectID : chain'[c] # Nil => c \in minted'
  BY <1>2, TaskInHands, SplitLandsChanges
<1>4. minted' \subseteq ObjectID
  BY <1>2, <1>3 DEF InitializerInv, CoinsInv, MintedInv
<1> QED BY <1>3, <1>4, MintKeepsCoins

LEMMA SplitUnseenKeepsCoins ==
  ASSUME InitializerInv, NEW s \in Server, NEW task \in round[s].tasks, SplitUnseen(s, task)
  PROVE  CoinsInv'
<1>1. /\ HasFreshIds(task.count) /\ SplitLands(task, FreshIds(task.count))
      /\ UNCHANGED <<initLock, round>>
  BY DEF SplitUnseen
<1>2. /\ PoolInv' /\ MintedInv' /\ \A t \in Server : RoundKnown(t)'
      /\ Owned' = Owned /\ UNCHANGED <<initialized, connected>>
  BY <1>1, SplitKeepsOthers
<1>3. EmptyFirst'
  BY <1>1, <1>2 DEF EmptyFirst, CheckPending, Asleep, InitializerInv, CoinsInv
<1> QED BY <1>2, <1>3 DEF CoinsInv

\* A round of which the coin of a task is split: the task goes, its coin and the created
\* ones are enqueued as the chain has them.
LEMMA SplitCoinMoves ==
  ASSUME InitializerInv, NEW s \in Server, NEW task \in round[s].tasks, SplitCoin(s, task)
  PROVE  LET created == FreshIds(task.count)
         IN  /\ WellFormed(round'[s])
             /\ HeldBy(round'[s]) = HeldByRound(s) \cup created
             /\ created \cap minted = {}
             /\ minted' = minted \cup created
             /\ \A other \in round'[s].tasks :
                  \/ other \in round[s].tasks /\ other # task
                  \/ chain'[other.coin.id] = other.coin /\ other.coin.id \in created \cup {task.coin.id}
             /\ \A coin \in round'[s].result :
                  \/ coin \in round[s].result
                  \/ chain'[coin.id] = coin /\ coin.id \in created \cup {task.coin.id}
             /\ round'[s].mode = round[s].mode /\ round'[s].stage = "split"
             /\ \A t \in Server \ {s} : round'[t] = round[t]
             /\ \A c \in created \cup {task.coin.id} : chain'[c] \in GasCoin
             /\ \A c \in ObjectID \ (created \cup {task.coin.id}) : chain'[c] = chain[c]
<1> DEFINE Derived(c) == [id |-> c, version |-> task.coin.version + 1,
                          balance |-> DerivedBalance(task, c = task.coin.id)]
<1>1. PICK created : created = FreshIds(task.count)
  OBVIOUS
<1>2. PICK coins : coins = {Derived(c) : c \in created \cup {task.coin.id}}
  OBVIOUS
<1>3. PICK state : state = [round[s] EXCEPT !.tasks = @ \ {task}]
  OBVIOUS
<1>4. PICK next : next = Enqueue(state, coins)
  OBVIOUS
<1>5. HasFreshIds(task.count) /\ SplitLands(task, created) /\ SetRound(s, next)
  BY <1>1, <1>2, <1>3, <1>4 DEF SplitCoin
<1>6. created \in SUBSET ObjectID /\ created \cap minted = {}
  BY <1>1, <1>5, TaskInHands, FreshIdsAreUnused
<1>7. /\ \A c \in created \cup {task.coin.id} : chain'[c] = Derived(c) /\ chain'[c] \in GasCoin
      /\ \A c \in ObjectID \ (created \cup {task.coin.id}) : chain'[c] = chain[c]
      /\ minted' = minted \cup created
  BY <1>5, <1>6, TaskInHands, SplitLandsChanges
<1>8. \A c : Derived(c).id = c
  OBVIOUS
<1> HIDE DEF Derived
<1>9. \A coin \in coins :
        coin.id \in created \cup {task.coin.id} /\ coin = chain'[coin.id] /\ coin \in GasCoin
  BY <1>2, <1>7, <1>8
<1>10. \A c \in created \cup {task.coin.id} : \E coin \in coins : coin.id = c
  BY <1>2, <1>8
<1>11. {coin.id : coin \in coins} = created \cup {task.coin.id}
  BY <1>9, <1>10
<1>12. WellFormed(round[s]) /\ HeldBy(round[s]) \subseteq minted /\ HeldBy(round[s]) = HeldByRound(s)
  BY HeldByRoundIs DEF InitializerInv, CoinsInv, RoundKnown
<1>13. /\ state \in [mode : {"init", "refresh"}, stage : RoundStages,
                     tasks : {state.tasks}, result : {state.result}]
       /\ state.tasks = round[s].tasks \ {task} /\ state.result = round[s].result
       /\ state.mode = round[s].mode /\ state.stage = "split"
  BY <1>3, RoundIsRecord, TaskInHands DEF InitializerInv
<1>14. WellFormed(state)
  BY <1>12, <1>13 DEF WellFormed
<1>15. HeldBy(state) \subseteq HeldBy(round[s]) /\ task.coin.id \notin HeldBy(state)
       /\ HeldBy(round[s]) \subseteq HeldBy(state) \cup {task.coin.id}
       /\ task.coin.id \in HeldBy(round[s])
  BY <1>12, <1>13 DEF HeldBy, WellFormed
<1>16. \A coin \in coins : coin.id \notin HeldBy(state)
  BY <1>6, <1>9, <1>12, <1>15
<1>17. coins \subseteq GasCoin /\ \A coin, other \in coins : coin.id = other.id => coin = other
  BY <1>9
<1>18. /\ WellFormed(next)
       /\ HeldBy(next) = HeldBy(state) \cup {coin.id : coin \in coins}
       /\ \A other \in next.tasks : other \in state.tasks \/ other.coin \in coins
       /\ next.result \subseteq state.result \cup coins
       /\ next.mode = state.mode /\ next.stage = state.stage
  BY <1>4, <1>13, <1>14, <1>16, <1>17, EnqueueTakes
<1>19. round'[s] = next /\ \A t \in Server \ {s} : round'[t] = round[t]
  BY <1>5, SetRoundSets DEF InitializerInv
<1>20. HeldBy(next) = HeldByRound(s) \cup created
  BY <1>11, <1>12, <1>15, <1>18
<1>21. \A other \in next.tasks :
         \/ other \in round[s].tasks /\ other # task
         \/ chain'[other.coin.id] = other.coin /\ other.coin.id \in created \cup {task.coin.id}
  BY <1>9, <1>13, <1>18
<1>22. \A coin \in next.result :
         \/ coin \in round[s].result
         \/ chain'[coin.id] = coin /\ coin.id \in created \cup {task.coin.id}
  BY <1>9, <1>13, <1>18
<1> QED BY <1>1, <1>6, <1>7, <1>13, <1>18, <1>19, <1>20, <1>21, <1>22

LEMMA SplitCoinKeepsCoins ==
  ASSUME InitializerInv, NEW s \in Server, NEW task \in round[s].tasks, SplitCoin(s, task)
  PROVE  CoinsInv'
<1>1. /\ HasFreshIds(task.count) /\ SplitLands(task, FreshIds(task.count))
      /\ initLock' = initLock
  BY DEF SplitCoin
<1>2. PICK created : created = FreshIds(task.count)
  OBVIOUS
<1>3. /\ WellFormed(round'[s])
      /\ HeldBy(round'[s]) = HeldByRound(s) \cup created
      /\ created \cap minted = {}
      /\ minted' = minted \cup created
      /\ \A other \in round'[s].tasks :
           \/ other \in round[s].tasks /\ other # task
           \/ chain'[other.coin.id] = other.coin /\ other.coin.id \in created \cup {task.coin.id}
      /\ round'[s].mode = round[s].mode /\ round'[s].stage = "split"
      /\ \A t \in Server \ {s} : round'[t] = round[t]
      /\ \A c \in ObjectID \ (created \cup {task.coin.id}) : chain'[c] = chain[c]
  BY <1>2, SplitCoinMoves
<1>4. /\ PoolInv' /\ MintedInv' /\ \A t \in Server \ {s} : RoundKnown(t)'
      /\ Owned' = Owned /\ UNCHANGED <<initialized, connected>>
  BY <1>1, <1>3, SplitKeepsOthers
<1>5. RoundKnown(s)'
  <2>1. RoundKnown(s) /\ s \in connected' /\ Owned \subseteq minted
    BY <1>4, TaskInHands DEF InitializerInv, CoinsInv, MintedInv
  <2>2. HeldByRound(s)' = HeldByRound(s) \cup created
    BY <1>3, HeldByRoundIs
  <2>3. ASSUME NEW other \in round'[s].tasks PROVE Behind(other.coin)'
    <3>1. CASE chain'[other.coin.id] = other.coin
      BY <3>1 DEF Behind
    <3>2. CASE other \in round[s].tasks /\ other # task
      <4>1. other.coin.id \in minted /\ other.coin.id \in ObjectID /\ Behind(other.coin)
        BY <3>2, TaskInHands
      <4>2. other.coin.id # task.coin.id
        BY <2>1, <3>2 DEF RoundKnown, WellFormed
      <4>3. chain'[other.coin.id] = chain[other.coin.id]
        BY <1>3, <4>1, <4>2
      <4> QED BY <4>1, <4>3 DEF Behind
    <3> QED BY <1>3, <3>1, <3>2
  <2>4. WellFormed(round[s])'
    BY <1>3 DEF WellFormed
  <2>5. HeldByRound(s)' \subseteq minted' /\ HeldByRound(s)' \cap Owned' = {}
    BY <1>3, <1>4, <2>1, <2>2 DEF RoundKnown
  <2> QED BY <1>3, <2>1, <2>3, <2>4, <2>5 DEF RoundKnown
<1>6. EmptyFirst'
  <2>1. CheckPending' => CheckPending
    BY <1>3 DEF CheckPending, Asleep
  <2>2. \A t \in Server : round'[t].mode = "init" /\ round'[t].stage = "list" => ~initialized
    BY <1>3 DEF InitializerInv, CoinsInv, EmptyFirst
  <2> QED BY <1>1, <1>4, <2>1, <2>2 DEF EmptyFirst, InitializerInv, CoinsInv
<1>7. \A t \in Server : RoundKnown(t)'
  BY <1>4, <1>5
<1> QED BY <1>4, <1>6, <1>7 DEF CoinsInv

-----------------------------------------------------------------------------
(* Steps by which a round adds coins *)

\* add_new_coins is called with each coin of a chunk once.
LEMMA ChunkIsLegal ==
  ASSUME NEW chunk, chunk \subseteq GasCoin,
         \A coin, other \in chunk : coin.id = other.id => coin = other,
         NEW coins \in SetToSeqs(chunk)
  PROVE  /\ coins \in Seq(GasCoin) /\ DistinctIds(coins)
         /\ Ids(coins) = {coin.id : coin \in chunk}
         /\ \A i \in 1..Len(coins) : coins[i] \in chunk
<1> DEFINE n == Cardinality(chunk)
           id == [coin \in chunk |-> coin.id]
<1>1. IsFiniteSet(chunk)
  <2>1. id \in Injection(chunk, ObjectID)
    BY DEF Injection, IsInjective, GasCoin
  <2> QED BY <2>1, PoolAssumption, FS_Injection
<1>2. n \in Nat
  BY <1>1, FS_CardinalityType
<1> HIDE DEF n
<1>3. coins \in [1..n -> chunk] /\ \A i, j \in 1..n : i # j => coins[i] # coins[j]
  BY DEF SetToSeqs, n
<1>4. coins \in Seq(GasCoin) /\ Len(coins) = n
  <2>1. coins \in [1..n -> GasCoin]
    BY <1>3
  <2> QED BY <1>2, <2>1, SeqDef, LenProperties
<1>5. DistinctIds(coins)
  BY <1>3, <1>4 DEF DistinctIds
<1>6. \A coin \in chunk : \E i \in 1..n : coins[i] = coin
  <2>1. coins \in Injection(1..n, chunk)
    BY <1>3 DEF Injection, IsInjective
  <2>2. Cardinality(1..n) = n
    BY <1>2, FS_Interval
  <2>3. coins \in Surjection(1..n, chunk)
    BY <1>1, <2>1, <2>2, FS_Injection DEF n
  <2> QED BY <2>3 DEF Surjection
<1>7. Ids(coins) = {coin.id : coin \in chunk}
  BY <1>3, <1>4, <1>6 DEF Ids
<1> QED BY <1>3, <1>4, <1>5, <1>7

\* Coins that nobody of the pool has are added to it.
LEMMA PoolTakesCoins ==
  ASSUME PoolInv, connected # {}, NEW coins \in Seq(GasCoin), DistinctIds(coins),
         Ids(coins) \cap Owned = {}, AddNewCoins(coins), UNCHANGED <<envVars, taskVars>>
  PROVE  PoolInv' /\ Owned' = Owned \cup Ids(coins)
<1>1. Ids(coins) \cap InRedis = {} /\ Ids(coins) \cap HeldByTasks = {}
  BY DEF Owned
<1>2. StorageInv'
  BY <1>1, AddKeepsInv DEF PoolInv
<1>3. /\ InRedis' = InRedis \cup Ids(coins)
      /\ UNCHANGED <<reservation, nextReservationId, connected>>
  BY AddBringsIn DEF PoolInv
<1>4. UNCHANGED <<granted, exec, unlocker, chain, fullnode, network>>
  BY DEF envVars, taskVars
<1>5. TasksTypeOK' /\ ChainTypeOK' /\ ChainFiled'
  BY <1>3, <1>4 DEF PoolInv, TasksTypeOK, ChainTypeOK, ChainFiled
<1>6. /\ \A r \in DOMAIN exec : HeldByExec(r)' = HeldByExec(r)
      /\ \A s \in Server : HeldByUnlocker(s)' = HeldByUnlocker(s)
  BY <1>4 DEF HeldByExec, HeldByUnlocker, Ids
<1>7. HeldByTasks' = HeldByTasks
  BY <1>4, <1>6 DEF HeldByTasks
<1>8. HoldersApart'
  <2>1. \A r \in DOMAIN exec : HeldByExec(r) \cap Ids(coins) = {}
    BY <1>1 DEF HeldByTasks
  <2>2. \A s \in Server : HeldByUnlocker(s) \cap Ids(coins) = {}
    BY <1>1 DEF HeldByTasks
  <2> QED BY <1>3, <1>4, <1>6, <2>1, <2>2 DEF PoolInv, HoldersApart
<1>9. TasksMatch'
  <2>1. \A q \in DOMAIN granted : Ids(granted[q])' = Ids(granted[q])
    BY <1>4 DEF Ids
  <2> QED BY <1>3, <1>4, <2>1 DEF PoolInv, TasksMatch
<1>10. ReturnsDistinct'
  BY <1>4 DEF PoolInv, ReturnsDistinct, DistinctIds
<1>11. Owned' = Owned \cup Ids(coins)
  BY <1>3, <1>7 DEF Owned
<1> QED BY <1>2, <1>5, <1>8, <1>9, <1>10, <1>11 DEF PoolInv

\* While a round splits or adds, other servers have nothing in hands and the lock is held.
LEMMA OnlyOneHolds ==
  ASSUME InitializerInv, NEW s \in InRound
  PROVE  /\ initLock >= 0
         /\ \A t \in Server \ {s} : HeldByRound(t) = {} /\ round[t].stage # "list"
<1>1. initLock >= 0 /\ \A t \in Server \ {s} : t \notin InRound
  BY DEF InitializerInv, RoundInv, OneRoundAtATime
<1>2. \A t \in Server \ {s} : round[t].tasks = {} /\ round[t].result = {}
  BY <1>1 DEF InRound, InitializerInv, CoinsInv, RoundKnown
<1>3. \A t \in Server \ {s} : HeldByRound(t) = {}
  BY <1>2 DEF HeldByRound
<1> QED BY <1>1, <1>3 DEF InRound

\* A round hands coins over to the pool; what it keeps does not matter here.
LEMMA RoundAdds ==
  ASSUME InitializerInv, NEW s \in Server, round[s].stage = "split",
         NEW chunk \in SUBSET round[s].result, chunk # {},
         NEW coins \in SetToSeqs(chunk), AddNewCoins(coins),
         UNCHANGED <<envVars, taskVars, initLock, minted>>,
         \A t \in Server \ {s} : round'[t] = round[t], round'[s].stage # "list"
  PROVE  /\ PoolInv' /\ MintedInv' /\ \A t \in Server \ {s} : RoundKnown(t)'
         /\ EmptyFirst'
         /\ Owned' = Owned \cup {coin.id : coin \in chunk}
         /\ initialized' = TRUE /\ connected' = connected /\ s \in connected
<1>1. RoundKnown(s) /\ s \in connected
  BY StartedIsConnected DEF InitializerInv, CoinsInv
<1>2. s \in InRound
  BY DEF InRound
<1>3. /\ coins \in Seq(GasCoin) /\ DistinctIds(coins)
      /\ Ids(coins) = {coin.id : coin \in chunk}
  <2>1. chunk \subseteq GasCoin /\ \A coin, other \in chunk : coin.id = other.id => coin = other
    BY <1>1 DEF RoundKnown, WellFormed
  <2> QED BY <2>1, ChunkIsLegal
<1>4. Ids(coins) \subseteq HeldByRound(s)
  BY <1>3 DEF HeldByRound
<1>5. Ids(coins) \cap Owned = {} /\ Ids(coins) \subseteq minted
  BY <1>1, <1>4 DEF RoundKnown
<1>6. PoolInv' /\ Owned' = Owned \cup Ids(coins)
  BY <1>1, <1>3, <1>5, PoolTakesCoins DEF InitializerInv, CoinsInv
<1>7. UNCHANGED <<chain, fullnode, connected>>
  BY DEF AddNewCoins, envVars
<1>8. MintedInv'
  BY <1>5, <1>6, <1>7 DEF MintedInv, Behind, InitializerInv, CoinsInv
<1>9. ASSUME NEW t \in Server \ {s} PROVE RoundKnown(t)'
  <2>1. RoundKnown(t) /\ HeldByRound(t) = {}
    BY <1>2, OnlyOneHolds DEF InitializerInv, CoinsInv
  <2>2. ChainTypeOK /\ ChainTypeOK'
    BY <1>6 DEF InitializerInv, CoinsInv, PoolInv
  <2> QED BY <1>7, <2>1, <2>2, RoundStaysKnown
<1>10. initialized' = TRUE
  <2>1. PICK coin : coin \in chunk
    OBVIOUS
  <2>2. coin.id \in Ids(coins)
    BY <1>3, <2>1
  <2>3. Len(coins) > 0
    BY <1>3, <2>2, LenProperties DEF Ids
  <2> QED BY <2>3 DEF AddNewCoins
<1>11. initLock' >= 0 /\ initLock \in Int /\ \A t \in Server : round'[t].stage # "list"
  BY <1>2, OnlyOneHolds DEF InitializerInv, RoundInv
<1>12. EmptyFirst'
  BY <1>10, <1>11 DEF EmptyFirst
<1> QED BY <1>1, <1>3, <1>6, <1>7, <1>8, <1>9, <1>10, <1>12

LEMMA AddChunkKeepsCoins ==
  ASSUME InitializerInv, NEW s \in Server, AddChunk(s)
  PROVE  CoinsInv'
<1>1. PICK chunk \in Chunks(s) :
        /\ \E coins \in SetToSeqs(chunk) : AddNewCoins(coins)
        /\ SetRound(s, [round[s] EXCEPT !.result = @ \ chunk])
  BY Zenon DEF AddChunk
<1>2. PICK coins \in SetToSeqs(chunk) : AddNewCoins(coins)
  BY <1>1
<1>3. /\ round[s].stage = "split" /\ round[s].tasks = {}
      /\ UNCHANGED <<envVars, taskVars, initLock, minted>>
      /\ chunk \in SUBSET round[s].result /\ chunk # {}
  BY DEF AddChunk, Chunks
<1>4. PICK next : next = [round[s] EXCEPT !.result = @ \ chunk]
  OBVIOUS
<1>5. round'[s] = next /\ \A t \in Server \ {s} : round'[t] = round[t]
  BY <1>1, <1>4, SetRoundSets DEF InitializerInv
<1>6. next.tasks = {} /\ next.result = round[s].result \ chunk /\ next.stage = "split"
  BY <1>3, <1>4, RoundIsRecord DEF InitializerInv
<1>7. /\ PoolInv' /\ MintedInv' /\ \A t \in Server \ {s} : RoundKnown(t)'
      /\ EmptyFirst'
      /\ Owned' = Owned \cup {coin.id : coin \in chunk}
      /\ connected' = connected /\ s \in connected
  BY <1>2, <1>3, <1>5, <1>6, RoundAdds
<1>8. RoundKnown(s)'
  <2>1. RoundKnown(s)
    BY DEF InitializerInv, CoinsInv
  <2>2. HeldBy(next) = {coin.id : coin \in round[s].result \ chunk}
    BY <1>6 DEF HeldBy
  <2>3. HeldBy(next) \subseteq HeldByRound(s)
    BY <2>2 DEF HeldByRound
  <2>4. \A coin \in round[s].result \ chunk, other \in chunk : coin.id # other.id
    BY <1>3, <2>1 DEF RoundKnown, WellFormed
  <2>5. HeldBy(next) \cap {coin.id : coin \in chunk} = {}
    BY <2>2, <2>4
  <2>6. HeldByRound(s)' \subseteq minted' /\ HeldByRound(s)' \cap Owned' = {}
    BY <1>3, <1>5, <1>7, <2>1, <2>3, <2>5, HeldByRoundIs DEF RoundKnown
  <2>7. WellFormed(round[s])'
    BY <1>5, <1>6, <2>1 DEF RoundKnown, WellFormed
  <2> QED BY <1>5, <1>6, <1>7, <2>6, <2>7 DEF RoundKnown
<1>9. \A t \in Server : RoundKnown(t)'
  BY <1>7, <1>8
<1> QED BY <1>7, <1>9 DEF CoinsInv

LEMMA RedisErrorKeepsCoins ==
  ASSUME CoinsTracked, ChecksAreFresh, InitializerInv, NEW s \in Server, RedisError(s)
  PROVE  CoinsInv'
<1>1. /\ round[s].stage \in {"acquire", "split"}
      /\ SetRound(s, Asleep(round[s].mode, "dead")) /\ minted' = minted
  BY DEF RedisError
<1>2. CASE poolUnchanged /\ UNCHANGED initLock
  BY <1>1, <1>2, RestKeepsCoins DEF poolUnchanged
<1>3. CASE initLock' = InitDuration /\ poolUnchanged
  BY <1>1, <1>3, RestKeepsCoins, InitializerAssumption DEF poolUnchanged
<1>4. CASE /\ round[s].stage = "split"
           /\ \E chunk \in Chunks(s) : \E coins \in SetToSeqs(chunk) : AddNewCoins(coins)
           /\ UNCHANGED <<envVars, taskVars, initLock>>
  <2>1. PICK chunk \in Chunks(s) : \E coins \in SetToSeqs(chunk) : AddNewCoins(coins)
    BY <1>4
  <2>2. PICK coins \in SetToSeqs(chunk) : AddNewCoins(coins)
    BY <2>1
  <2>3. chunk \in SUBSET round[s].result /\ chunk # {}
    BY DEF Chunks
  <2>4. /\ round'[s] = Asleep(round[s].mode, "dead")
        /\ \A t \in Server \ {s} : round'[t] = round[t]
    BY <1>1, SetRoundSets DEF InitializerInv
  <2>5. round'[s].stage # "list"
    BY <2>4 DEF Asleep
  <2>6. /\ PoolInv' /\ MintedInv' /\ \A t \in Server \ {s} : RoundKnown(t)'
        /\ EmptyFirst' /\ connected' = connected /\ s \in connected
    BY <1>1, <1>4, <2>2, <2>3, <2>4, <2>5, RoundAdds
  <2>7. RoundKnown(s)'
    BY <2>4, <2>6, AsleepIsKnown
  <2>8. \A t \in Server : RoundKnown(t)'
    BY <2>6, <2>7
  <2> QED BY <2>6, <2>8 DEF CoinsInv
<1>5. CASE ~CheckPending /\ poolUnchanged
  BY <1>1, <1>5, RestKeepsCoins DEF poolUnchanged
<1> QED BY <1>2, <1>3, <1>4, <1>5 DEF RedisError, ChecksAreFresh

-----------------------------------------------------------------------------
(* InitializerInv is inductive *)

LEMMA RoundStepKeepsCoins ==
  ASSUME CoinsTracked, ChecksAreFresh, PoolCoinsStaySmall, InitializerInv,
         NEW s \in Server, RoundStep(s)
  PROVE  CoinsInv'
<1>1. CASE WakeUp(s)
  BY <1>1, RestKeepsCoins DEF WakeUp, poolUnchanged
<1>2. CASE ReleaseInitLock(s)
  <2>1. ~CheckPending /\ UNCHANGED vars /\ minted' = minted /\ round[s].stage = "split"
        /\ SetRound(s, Asleep("refresh", "sleep"))
    BY <1>2 DEF ReleaseInitLock, ChecksAreFresh, poolUnchanged
  <2> QED BY <2>1, RestKeepsCoins
<1>3. ASSUME NEW task \in round[s].tasks,
             SplitCoin(s, task) \/ SplitUnseen(s, task) \/ LookUpAgain(s, task)
      PROVE  CoinsInv'
  BY <1>3, SplitCoinKeepsCoins, SplitUnseenKeepsCoins, LookUpAgainKeepsCoins
<1> QED BY <1>1, <1>2, <1>3, CheckInitializedKeepsCoins, AcquireKeepsCoins, ListCoinsKeepsCoins,
           AddChunkKeepsCoins, RedisErrorKeepsCoins DEF RoundStep

LEMMA ServerUpOrDownKeepsCoins ==
  ASSUME CoinsTracked, InitializerInv, NEW s \in Server, StartServer(s) \/ CrashServer(s)
  PROVE  CoinsInv'
<1>1. /\ SetRound(s, Asleep("init", "start")) /\ initLock' = initLock /\ minted' = minted
      /\ Restart(s) \/ Crash(s)
  BY DEF StartServer, CrashServer
<1>2. [Next]_vars
  BY <1>1 DEF Next, Environment
<1>3. round'[s] = Asleep("init", "start")
  BY <1>1, SetRoundSets DEF InitializerInv
<1>4. RoundKnown(s)'
  BY <1>3, AsleepIsKnown
<1>5. \A t \in Server \ {s} : t \in connected => t \in connected'
  BY <1>1 DEF Restart, ConnectStorage, Crash, Disconnect
<1>6. Asleep("init", "start").stage # "list" /\ Asleep("init", "start") # Asleep("init", "acquire")
  BY DEF Asleep
<1>7. initLock' < 0 /\ CheckPending => ~initialized
  BY <1>1 DEF InitializerInv, CoinsInv, EmptyFirst
<1> QED BY <1>1, <1>2, <1>4, <1>5, <1>6, <1>7, ServerMoves

LEMMA InitTickKeepsCoins ==
  ASSUME CoinsTracked, ChecksAreFresh, InitializerInv, InitTick
  PROVE  CoinsInv'
<1>1. UNCHANGED <<envVars, taskVars, round, minted>> /\ (Tick \/ UNCHANGED storageVars)
  BY DEF InitTick
<1>2. [Next]_vars
  BY <1>1 DEF Next, Environment, PassTime, vars
<1>3. connected \subseteq connected'
  BY <1>1 DEF Tick, storageVars
<1>4. initLock \in Int /\ (initLock < 0 /\ CheckPending => ~initialized)
  BY DEF InitializerInv, RoundInv, CoinsInv, EmptyFirst
<1>5. initLock' < 0 /\ CheckPending => ~initialized
  BY <1>4 DEF InitTick, ChecksAreFresh
<1> QED BY <1>1, <1>2, <1>3, <1>5, NobodyMoves

\* A step of the pool that serves is one of the pool alone, and no server stops in it.
LEMMA PoolStepIsNext ==
  ASSUME PoolInv, PoolStep
  PROVE  Next /\ connected' = connected
<1>1. Serving \subseteq Server
  BY DEF Serving, PoolInv, StorageInv, StorageTypeOK
<1>2. ASSUME NEW budget \in Budget, NEW duration \in Duration, ReserveGas(budget, duration)
      PROVE  Next /\ connected' = connected
  BY <1>2 DEF Next, ClientRequest, ReserveGas, ReserveGasCoins
<1>3. ASSUME NEW s \in Serving, NEW r \in DOMAIN reservation, NEW payment \in Payments(r),
             StartExecution(s, r, payment)
      PROVE  Next /\ connected' = connected
  BY <1>1, <1>3 DEF Next, ClientRequest, StartExecution, ReadyForExecution
<1>4. ASSUME NEW s \in Serving, UnlockerStep(s)
      PROVE  Next /\ connected' = connected
  BY <1>1, <1>4 DEF Next, UnlockerStep, UnlockerExpire, ExpireReplyLost, UnlockerQuery,
     UnlockerRelease, UnlockerReplyLost, ExpireCoins, AddNewCoins, storageVars
<1>5. ASSUME NEW r \in DOMAIN exec, ExecStep(r)
      PROVE  Next /\ connected' = connected
  BY <1>5 DEF Next, ExecStep, ReadTotalBalance, FailExecution, ExecuteTransaction,
     SubmitTimeout, QueryLatest, ReleaseCoins, ReleaseReplyLost, AddNewCoins, storageVars
<1>6. ASSUME NEW tx \in network, (\E usage \in Usage : LandLate(tx, usage)) \/ DropLate(tx)
      PROVE  Next /\ connected' = connected
  <2>1. Environment
    BY <1>6 DEF Environment
  <2>2. connected' = connected
    BY <1>6 DEF LandLate, DropLate, storageVars
  <2> QED BY <2>1, <2>2 DEF Next
<1> QED BY <1>2, <1>3, <1>4, <1>5, <1>6 DEF PoolStep

LEMMA PoolStepKeepsCoins ==
  ASSUME CoinsTracked, InitializerInv, PoolStep
  PROVE  CoinsInv'
<1>1. Next /\ connected' = connected
  BY PoolStepIsNext DEF InitializerInv, CoinsInv
<1>2. UNCHANGED <<initLock, round, minted>>
  BY DEF PoolStep
<1>3. initLock' < 0 /\ CheckPending => ~initialized
  BY <1>2 DEF InitializerInv, CoinsInv, EmptyFirst
<1> QED BY <1>1, <1>2, <1>3, NobodyMoves

LEMMA InitializerKeepsInv ==
  ASSUME CoinsTracked, RoundsInTime, ChecksAreFresh, PoolCoinsStaySmall, InitializerInv,
         [InitializerNext]_initializerVars
  PROVE  InitializerInv'
<1>1. RoundInv'
  BY InitializerNextKeepsInv DEF InitializerInv
<1>2. CASE UNCHANGED initializerVars
  <2>1. UNCHANGED <<vars, round, initLock, minted, connected>>
    BY <1>2 DEF initializerVars, vars, storageVars
  <2>2. initLock' < 0 /\ CheckPending => ~initialized
    BY <2>1 DEF InitializerInv, CoinsInv, EmptyFirst
  <2> QED BY <1>1, <2>1, <2>2, NobodyMoves DEF InitializerInv
<1> QED BY <1>1, <1>2, RoundStepKeepsCoins, ServerUpOrDownKeepsCoins, ReceiveDepositKeepsCoins,
           InitTickKeepsCoins, PoolStepKeepsCoins DEF InitializerNext, InitializerInv

\* An empty Redis.
LEMMA EmptyPoolInv ==
  ASSUME InitializerInit
  PROVE  PoolInv /\ Owned = {}
<1>1. /\ available = <<>> /\ coinCount = Nil /\ totalBalance = Nil
      /\ nextReservationId = 0 /\ initialized = FALSE /\ connected = {}
      /\ network = {} /\ unlocker = [s \in Server |-> Idle] /\ fullnode = chain
      /\ chain = [c \in ObjectID |->
                    IF c \in DOMAIN Genesis THEN [id |-> c, version |-> 1, balance |-> Genesis[c]]
                    ELSE Nil]
  BY DEF InitializerInit, StorageInit
<1>2. /\ reservation = [r \in {} |-> {}] /\ expirationQueue = [r \in {} |-> 0]
      /\ granted = [r \in {} |-> <<>>]
      /\ exec = [r \in {} |-> <<>>]
  <2>1. 1..0 = {} /\ <<>> = [r \in {} |-> {}] /\ <<>> = [r \in {} |-> 0] /\ <<>> = [r \in {} |-> <<>>]
    OBVIOUS
  <2> QED BY <2>1 DEF InitializerInit, StorageInit
<1>3. available \in Seq(GasCoin) /\ Len(available) = 0
  BY <1>1, EmptySeq
<1>4. Ids(available) = {} /\ ReservedIds = {} /\ InRedis = {}
  BY <1>2, <1>3 DEF Ids, ReservedIds, InRedis
<1>5. StorageTypeOK
  <2>1. /\ reservation \in [DOMAIN reservation -> SUBSET ObjectID] /\ DOMAIN reservation = {}
        /\ expirationQueue \in [DOMAIN expirationQueue -> Nat] /\ DOMAIN expirationQueue = {}
    BY <1>2
  <2>2. nextReservationId \in 0..MaxReservations
    BY <1>1, StorageAssumption
  <2> QED BY <1>1, <1>3, <2>1, <2>2, Zenon DEF StorageTypeOK
<1>6. StorageInv
  <2>1. CountMatchesList /\ BalanceMatchesList
    BY <1>1 DEF CountMatchesList, BalanceMatchesList
  <2>2. NoCoinInTwoPlaces
    BY <1>2, <1>3, <1>4 DEF NoCoinInTwoPlaces, CoinToOneCaller
  <2>3. LiveReservationScheduled
    BY <1>2 DEF LiveReservationScheduled
  <2> QED BY <1>5, <2>1, <2>2, <2>3 DEF StorageInv
<1>7. \A c \in ObjectID : chain[c] \in GasCoin \cup {Nil} /\ (chain[c] # Nil => chain[c].id = c)
  BY <1>1, InitializerAssumption DEF GasCoin
<1>8. ChainTypeOK /\ ChainFiled
  <2>1. chain \in [ObjectID -> GasCoin \cup {Nil}]
    BY <1>1, <1>7
  <2> QED BY <1>1, <1>7, <2>1 DEF ChainTypeOK, ChainFiled
<1>9. /\ DOMAIN granted = {} /\ granted \in [DOMAIN granted -> Seq(ObjectRef)]
      /\ DOMAIN exec = {} /\ exec \in [DOMAIN exec -> ExecTask]
  BY <1>2
<1>10. /\ Idle \in UnlockTask /\ Idle.stage = "idle" /\ Idle.ids = {}
       /\ unlocker \in [Server -> UnlockTask]
  <2>1. Idle \in UnlockTask
    BY EmptySeq DEF Idle, UnlockTask
  <2> QED BY <1>1, <2>1 DEF Idle
<1>11. TasksTypeOK
  BY <1>1, <1>9, <1>10 DEF TasksTypeOK
<1>12. \A s \in Server : unlocker[s] = Idle /\ HeldByUnlocker(s) = {}
  BY <1>1, <1>10 DEF HeldByUnlocker
<1>13. HoldersApart /\ TasksMatch /\ ReturnsDistinct
  BY <1>9, <1>10, <1>12 DEF HoldersApart, TasksMatch, ReturnsDistinct
<1>14. Owned = {}
  BY <1>4, <1>9, <1>12 DEF Owned, HeldByTasks
<1> QED BY <1>6, <1>8, <1>11, <1>13, <1>14 DEF PoolInv

LEMMA InitializerInitGivesInv ==
  ASSUME InitializerInit
  PROVE  InitializerInv
<1>1. /\ round = [s \in Server |-> Asleep("init", "start")] /\ initLock = -1
      /\ minted = DOMAIN Genesis /\ initialized = FALSE /\ fullnode = chain
      /\ \A c \in ObjectID : chain[c] # Nil => c \in DOMAIN Genesis
  BY DEF InitializerInit, StorageInit
<1>2. PoolInv /\ Owned = {}
  BY EmptyPoolInv
<1>3. RoundInv
  BY InitGivesRoundInv
<1>4. MintedInv
  <2>1. \A c \in ObjectID : fullnode[c] # Nil => fullnode[c].id = c
    BY <1>2 DEF PoolInv, ChainFiled
  <2>2. \A c \in ObjectID : fullnode[c] # Nil => Behind(fullnode[c])
    BY <1>1, <2>1 DEF Behind
  <2> QED BY <1>1, <1>2, <2>2, InitializerAssumption DEF MintedInv
<1>5. ASSUME NEW s \in Server PROVE RoundKnown(s)
  <2>1. round[s] = Asleep("init", "start") /\ round[s].tasks = {} /\ round[s].result = {}
        /\ round[s].stage = "start"
    BY <1>1 DEF Asleep
  <2>2. HeldByRound(s) = {} /\ WellFormed(round[s])
    BY <2>1 DEF HeldByRound, WellFormed
  <2> QED BY <2>1, <2>2 DEF RoundKnown
<1>6. EmptyFirst
  BY <1>1, <1>2 DEF EmptyFirst
<1> QED BY <1>2, <1>3, <1>4, <1>5, <1>6 DEF InitializerInv, CoinsInv

\* InitializerInv is inductive as long as what the pool has is too small for a Refresh:
\* pool and rounds of any number of servers, with crashes, unknown outcomes, unseen splits
\* and errors of Redis.
THEOREM InitializerInvariant ==
  CoinsTracked /\ RoundsInTime /\ ChecksAreFresh
    => (InitializerSpec /\ []PoolCoinsStaySmall => []InitializerInv)
<1> SUFFICES ASSUME CoinsTracked, RoundsInTime, ChecksAreFresh
             PROVE  InitializerSpec /\ []PoolCoinsStaySmall => []InitializerInv
  OBVIOUS
<1>1. InitializerInit => InitializerInv
  BY InitializerInitGivesInv
<1>2. PoolCoinsStaySmall /\ InitializerInv /\ [InitializerNext]_initializerVars => InitializerInv'
  BY InitializerKeepsInv
<1> QED BY <1>1, <1>2, PTL DEF InitializerSpec

\* No coin is split or added by a round while the pool, a client, a task or another round
\* has it: what is listed during an Init round was in no pool, and what is listed during a
\* Refresh round is larger than anything in it.
THEOREM OneHolderEvenInRounds ==
  CoinsTracked /\ RoundsInTime /\ ChecksAreFresh
    => (InitializerSpec /\ []PoolCoinsStaySmall => []OneHolderWithRounds)
BY InitializerInvariant, InvGivesOneHolderWithRounds, PTL

-----------------------------------------------------------------------------
(* Nothing is forgotten *)

\* Servers do not die, replies arrive, the fullnode does not lag and no round goes wrong,
\* while submissions may time out and land late.  A coin that the sponsor receives later
\* is one a Refresh looks for.
RoundsComplete ==
  /\ Faults \subseteq {"timeout"} /\ RoundFaults = {}
  /\ \A c \in DOMAIN Deposit : Deposit[c] >= BalanceThreshold("refresh")

InRounds == UNION {HeldByRound(s) : s \in Server}

\* A coin is in the pool, in hands, or large enough for the next Refresh.
EveryCoinKept ==
  \A c \in Live : chain[c].balance >= BalanceThreshold("refresh") \/ c \in Owned \cup InRounds

\* Until the first coins are listed no round splits, and a server that gave up its Init
\* round did so for one of another server that is about to list.
NotListedYet ==
  /\ ~initialized
  /\ \A s \in Server :
       \/ round[s].mode = "init" /\ round[s].stage \in {"start", "acquire", "list"}
       \/ /\ round[s].mode = "refresh" /\ round[s].stage \in {"sleep", "acquire"}
          /\ \E t \in Server : round[t].mode = "init" /\ round[t].stage = "list"

\* Without faults a held lock is somebody's.
LockIsRound == initLock >= 0 => InRound # {}

\* A round has no coin that is gone.
RoundsHoldLive == \A s \in Server : HeldByRound(s) \subseteq Live

\* A late transaction pays with coins of the pool, or with one that is gone and never lands.
NetworkOwned ==
  \A tx \in network : \A c \in Ids(tx.payment) : c \in minted /\ (c \in Owned \/ chain[c] = Nil)

KeepInv ==
  /\ fullnode = chain
  /\ NetworkOwned /\ LockIsRound /\ RoundsHoldLive
  /\ EveryCoinKept \/ NotListedYet

LEMMA KeptMeansNotForgotten == KeepInv => NothingForgotten
BY DEF KeepInv, EveryCoinKept, NotListedYet, NothingForgotten, Owned, InRounds

LEMMA OwnedStays ==
  ASSUME UNCHANGED <<available, reservation, exec, unlocker>>
  PROVE  Owned' = Owned
BY DEF Owned, InRedis, ReservedIds, HeldByTasks, HeldByExec, HeldByUnlocker, Ids

\* A step of a round that leaves chain and pool alone, and keeps the coins in hands.
LEMMA QuietRoundKeeps ==
  ASSUME InitializerInv, KeepInv, UNCHANGED vars, minted' = minted,
         NEW s \in Server, \A t \in Server \ {s} : round'[t] = round[t],
         HeldBy(round'[s]) = HeldBy(round[s]), LockIsRound',
         NotListedYet => EveryCoinKept' \/ NotListedYet'
  PROVE  KeepInv'
<1>1. UNCHANGED <<chain, fullnode, network, available, reservation, exec, unlocker>>
  BY DEF vars, storageVars, envVars, taskVars
<1>2. Owned' = Owned
  BY <1>1, OwnedStays
<1>3. \A t \in Server : HeldByRound(t)' = HeldByRound(t)
  BY HeldByRoundIs
<1>4. InRounds' = InRounds /\ Live' = Live
  BY <1>1, <1>3 DEF InRounds, Live
<1>5. NetworkOwned'
  BY <1>1, <1>2 DEF KeepInv, NetworkOwned, Ids
<1>6. RoundsHoldLive'
  BY <1>3, <1>4 DEF KeepInv, RoundsHoldLive
<1>7. EveryCoinKept => EveryCoinKept'
  BY <1>1, <1>2, <1>4 DEF EveryCoinKept
<1> QED BY <1>1, <1>5, <1>6, <1>7 DEF KeepInv

\* A server in or after "sleep" before the listing has seen another one that lists.
LEMMA SomebodyLists ==
  ASSUME NotListedYet, NEW s \in Server, round[s].stage \notin {"start", "acquire", "list"}
  PROVE  /\ round[s].mode = "refresh" /\ round[s].stage = "sleep"
         /\ \E t \in Server : round[t].mode = "init" /\ round[t].stage = "list"
BY DEF NotListedYet

\* A round that splits has everything listed before it.
LEMMA SplittingIsAfterListing ==
  ASSUME KeepInv, NEW s \in Server, round[s].stage = "split"
  PROVE  EveryCoinKept
BY DEF KeepInv, NotListedYet

\* A server that goes to sleep as it finds the pool initialised, the lock taken or its
\* round done; or wakes up.
LEMMA StageMoves ==
  ASSUME InitializerInv, KeepInv, UNCHANGED vars, UNCHANGED <<minted, initLock>>,
         NEW s \in Server, NEW mode, NEW stage, SetRound(s, Asleep(mode, stage)),
         s \notin InRound, stage \notin {"list", "split"},
         NotListedYet =>
           \/ mode = "init" /\ stage \in {"start", "acquire", "list"}
           \/ /\ mode = "refresh" /\ stage \in {"sleep", "acquire"}
              /\ \E t \in Server : round[t].mode = "init" /\ round[t].stage = "list"
  PROVE  KeepInv'
<1>1. round'[s] = Asleep(mode, stage) /\ \A t \in Server \ {s} : round'[t] = round[t]
  BY SetRoundSets DEF InitializerInv
<1>2. /\ round'[s].mode = mode /\ round'[s].stage = stage
      /\ round'[s].tasks = {} /\ round'[s].result = {}
  BY <1>1 DEF Asleep
<1>3. round[s].tasks = {} /\ round[s].result = {}
  BY DEF InRound, InitializerInv, CoinsInv, RoundKnown
<1>4. HeldBy(round'[s]) = HeldBy(round[s])
  BY <1>2, <1>3 DEF HeldBy
<1>5. LockIsRound'
  <2>1. InRound' = InRound
    BY <1>1, <1>2 DEF InRound
  <2> QED BY <2>1 DEF KeepInv, LockIsRound
<1>6. initialized' = initialized
  BY DEF vars, storageVars
<1>7. ASSUME NotListedYet PROVE NotListedYet'
  <2>1. \A t \in Server : round[t].stage = "list" => t # s
    BY DEF InRound
  <2>2. (\E t \in Server : round[t].mode = "init" /\ round[t].stage = "list")
          => \E t \in Server : round'[t].mode = "init" /\ round'[t].stage = "list"
    BY <1>1, <2>1
  <2> QED BY <1>1, <1>2, <1>6, <1>7, <2>2 DEF NotListedYet
<1> QED BY <1>1, <1>4, <1>5, <1>7, QuietRoundKeeps

LEMMA CheckInitializedKeeps ==
  ASSUME InitializerInv, KeepInv, NEW s \in Server, CheckInitialized(s)
  PROVE  KeepInv'
<1>1. UNCHANGED vars /\ UNCHANGED <<minted, initLock>> /\ s \notin InRound
  BY DEF CheckInitialized, poolUnchanged, InRound
<1>2. CASE initialized
  <2>1. SetRound(s, Asleep("refresh", "sleep")) /\ ~NotListedYet
    BY <1>2 DEF CheckInitialized, NotListedYet
  <2> QED BY <1>1, <2>1, StageMoves
<1>3. CASE ~initialized
  <2>1. SetRound(s, Asleep("init", "acquire"))
    BY <1>3 DEF CheckInitialized
  <2> QED BY <1>1, <2>1, StageMoves
<1> QED BY <1>2, <1>3

LEMMA WakeUpKeeps ==
  ASSUME InitializerInv, KeepInv, NEW s \in Server, WakeUp(s)
  PROVE  KeepInv'
<1>1. /\ UNCHANGED vars /\ UNCHANGED <<minted, initLock>> /\ s \notin InRound
      /\ SetRound(s, Asleep("refresh", "acquire")) /\ round[s].stage = "sleep"
  BY DEF WakeUp, poolUnchanged, InRound
<1>2. NotListedYet => \E t \in Server : round[t].mode = "init" /\ round[t].stage = "list"
  BY <1>1, SomebodyLists
<1> QED BY <1>1, <1>2, StageMoves

\* Before the listing the lock goes to an Init round: who comes for a Refresh finds it
\* taken by the round that is about to list.
LEMMA AcquireKeeps ==
  ASSUME InitializerInv, KeepInv, NEW s \in Server, AcquireInitLock(s)
  PROVE  KeepInv'
<1>1. UNCHANGED vars /\ minted' = minted /\ round[s].stage = "acquire" /\ s \notin InRound
  BY DEF AcquireInitLock, poolUnchanged, InRound
<1>2. CASE initLock < 0
  <2>1. PICK state : state = [round[s] EXCEPT !.stage = "list"]
    OBVIOUS
  <2>2. SetRound(s, state)
    BY <1>2, <2>1 DEF AcquireInitLock
  <2>3. /\ state.stage = "list" /\ state.mode = round[s].mode
        /\ state.tasks = round[s].tasks /\ state.result = round[s].result
    BY <2>1, RoundIsRecord DEF InitializerInv
  <2>4. round'[s] = state /\ \A t \in Server \ {s} : round'[t] = round[t]
    BY <2>2, SetRoundSets DEF InitializerInv
  <2>5. HeldBy(round'[s]) = HeldBy(round[s])
    BY <2>3, <2>4 DEF HeldBy
  <2>6. LockIsRound'
    BY <2>3, <2>4 DEF LockIsRound, InRound
  <2>7. ASSUME NotListedYet PROVE NotListedYet'
    <3>1. InRound = {}
      BY <1>2 DEF InitializerInv, RoundInv
    <3>2. \A t \in Server : round[t].mode = "init"
      BY <2>7, <3>1 DEF NotListedYet, InRound
    <3>3. initialized' = initialized
      BY <1>1 DEF vars, storageVars
    <3> QED BY <2>3, <2>4, <2>7, <3>2, <3>3 DEF NotListedYet
  <2> QED BY <1>1, <2>4, <2>5, <2>6, <2>7, QuietRoundKeeps
<1>3. CASE ~(initLock < 0)
  <2>1. SetRound(s, Asleep("refresh", "sleep")) /\ initLock' = initLock
    BY <1>3 DEF AcquireInitLock
  <2>2. PICK t \in Server : round[t].stage \in {"list", "split"}
    BY <1>3 DEF KeepInv, LockIsRound, InRound, InitializerInv, RoundInv
  <2>3. NotListedYet => \E u \in Server : round[u].mode = "init" /\ round[u].stage = "list"
    BY <2>2 DEF NotListedYet
  <2> QED BY <1>1, <2>1, <2>3, StageMoves
<1> QED BY <1>2, <1>3

\* An Init round lists every coin there is; a Refresh round keeps what was kept.
LEMMA ListCoinsKeeps ==
  ASSUME InitializerInv, KeepInv, NEW s \in Server, ListCoins(s)
  PROVE  KeepInv'
<1>1. /\ UNCHANGED vars /\ minted' = minted /\ initLock' = initLock
      /\ UNCHANGED <<chain, fullnode, network, available, reservation, exec, unlocker>>
      /\ round[s].stage = "list"
  BY DEF ListCoins, poolUnchanged, vars, storageVars, envVars, taskVars
<1>2. PICK coins : coins = Listed(round[s].mode)
  OBVIOUS
<1>3. PICK state : state = [round[s] EXCEPT !.stage = "split"]
  OBVIOUS
<1>4. PICK next : next = Enqueue(state, coins)
  OBVIOUS
<1>5. SetRound(s, next)
  BY <1>2, <1>3, <1>4 DEF ListCoins, Listed
<1>6. round'[s] = next /\ \A t \in Server \ {s} : round'[t] = round[t]
  BY <1>5, SetRoundSets DEF InitializerInv
<1>7. /\ round[s] \in [mode : {"init", "refresh"}, stage : RoundStages,
                       tasks : {round[s].tasks}, result : {round[s].result}]
      /\ round[s].tasks = {} /\ round[s].result = {}
  BY <1>1, RoundIsRecord DEF InitializerInv, CoinsInv, RoundKnown
<1>8. /\ state \in [mode : {"init", "refresh"}, stage : RoundStages,
                    tasks : {state.tasks}, result : {state.result}]
      /\ state.stage = "split" /\ state.tasks = {} /\ state.result = {}
  BY <1>3, <1>7 DEF RoundStages
<1>9. WellFormed(state) /\ HeldBy(state) = {}
  BY <1>8 DEF WellFormed, HeldBy
<1>10. /\ coins \subseteq GasCoin
       /\ \A coin, other \in coins : coin.id = other.id => coin = other
       /\ \A coin \in coins :
            /\ coin.id \in ObjectID /\ coin = fullnode[coin.id] /\ fullnode[coin.id] # Nil
            /\ coin.balance >= BalanceThreshold(round[s].mode)
  BY <1>2, ListedAre DEF InitializerInv, CoinsInv, PoolInv
<1>11. HeldBy(next) = {coin.id : coin \in coins} /\ next.stage = "split"
  BY <1>4, <1>8, <1>9, <1>10, EnqueueTakes
<1>12. HeldByRound(s)' = {coin.id : coin \in coins} /\ HeldByRound(s) = {}
  BY <1>6, <1>7, <1>11, HeldByRoundIs DEF HeldByRound
<1>13. \A t \in Server \ {s} : HeldByRound(t)' = HeldByRound(t)
  BY <1>6, HeldByRoundIs
<1>14. Owned' = Owned /\ Live' = Live
  BY <1>1, OwnedStays DEF Live
<1>15. RoundsHoldLive'
  <2>1. \A coin \in coins : coin.id \in Live
    BY <1>10 DEF KeepInv, Live
  <2> QED BY <1>12, <1>13, <1>14, <2>1 DEF KeepInv, RoundsHoldLive
<1>16. InRounds \subseteq InRounds'
  BY <1>12, <1>13 DEF InRounds
<1>17. EveryCoinKept'
  <2>1. CASE EveryCoinKept
    BY <1>1, <1>14, <1>16, <2>1 DEF EveryCoinKept
  <2>2. CASE NotListedYet
    <3>1. round[s].mode = "init"
      BY <1>1, <2>2 DEF NotListedYet
    <3>2. \A c \in Live : c \in ObjectID /\ fullnode[c] \in GasCoin /\ fullnode[c] # Nil
                          /\ fullnode[c].id = c
      BY DEF Live, KeepInv, InitializerInv, CoinsInv, PoolInv, ChainTypeOK, ChainFiled
    <3>3. \A c \in Live : fullnode[c].balance >= BalanceThreshold("init")
      BY <3>2 DEF GasCoin, BalanceThreshold
    <3>4. \A c \in Live : fullnode[c] \in coins
      BY <1>2, <3>1, <3>2, <3>3 DEF Listed
    <3>5. \A c \in Live : c \in HeldByRound(s)'
      BY <1>12, <3>2, <3>4
    <3> QED BY <1>14, <3>5 DEF EveryCoinKept, InRounds
  <2> QED BY <2>1, <2>2 DEF KeepInv
<1>18. LockIsRound'
  BY <1>6, <1>11 DEF LockIsRound, InRound
<1>19. NetworkOwned'
  BY <1>1, <1>14 DEF KeepInv, NetworkOwned, Ids
<1> QED BY <1>1, <1>15, <1>17, <1>18, <1>19 DEF KeepInv

\* The parts of a coin and the coin itself are enqueued again.
LEMMA SplitCoinKeeps ==
  ASSUME InitializerInv, KeepInv, NEW s \in Server, NEW task \in round[s].tasks,
         SplitCoin(s, task)
  PROVE  KeepInv'
<1>1. /\ HasFreshIds(task.count) /\ SplitLands(task, FreshIds(task.count))
      /\ initLock' = initLock
  BY DEF SplitCoin
<1>2. PICK created : created = FreshIds(task.count)
  OBVIOUS
<1>3. /\ HeldBy(round'[s]) = HeldByRound(s) \cup created
      /\ created \cap minted = {}
      /\ minted' = minted \cup created
      /\ round'[s].stage = "split"
      /\ \A t \in Server \ {s} : round'[t] = round[t]
      /\ \A c \in created \cup {task.coin.id} : chain'[c] \in GasCoin
      /\ \A c \in ObjectID \ (created \cup {task.coin.id}) : chain'[c] = chain[c]
  BY <1>2, SplitCoinMoves
<1>4. created \subseteq ObjectID
  BY <1>1, <1>2, TaskInHands, FreshIdsAreUnused
<1>5. /\ fullnode' = chain'
      /\ UNCHANGED <<available, reservation, exec, unlocker, network>>
  BY <1>1 DEF SplitLands, storageVars, taskVars
<1>6. Owned' = Owned
  BY <1>5, OwnedStays
<1>7. task.coin.id \in HeldByRound(s) /\ task.coin.id \in ObjectID /\ round[s].stage = "split"
  BY TaskInHands
<1>8. /\ HeldByRound(s)' = HeldByRound(s) \cup created
      /\ \A t \in Server \ {s} : HeldByRound(t)' = HeldByRound(t)
  BY <1>3, HeldByRoundIs
<1>9. InRounds' = InRounds \cup created
  BY <1>8 DEF InRounds
<1>10. Nil \notin GasCoin
  BY PoolAssumption
<1>11. Live' = Live \cup created \cup {task.coin.id}
  <2>1. \A c \in created \cup {task.coin.id} : c \in Live'
    BY <1>3, <1>4, <1>7, <1>10 DEF Live
  <2>2. \A c \in ObjectID \ (created \cup {task.coin.id}) : c \in Live' <=> c \in Live
    BY <1>3 DEF Live
  <2> QED BY <2>1, <2>2 DEF Live
<1>12. RoundsHoldLive'
  BY <1>8, <1>11 DEF KeepInv, RoundsHoldLive
<1>13. EveryCoinKept'
  <2>1. EveryCoinKept
    BY <1>7, SplittingIsAfterListing
  <2>2. ASSUME NEW c \in Live'
        PROVE  chain'[c].balance >= BalanceThreshold("refresh") \/ c \in Owned' \cup InRounds'
    <3>1. CASE c \in created \cup {task.coin.id}
      BY <1>7, <1>9, <3>1 DEF InRounds
    <3>2. CASE c \notin created \cup {task.coin.id}
      <4>1. c \in Live /\ chain'[c] = chain[c]
        BY <1>3, <1>11, <3>2 DEF Live
      <4> QED BY <1>6, <1>9, <2>1, <4>1 DEF EveryCoinKept
    <3> QED BY <3>1, <3>2
  <2> QED BY <2>2 DEF EveryCoinKept
<1>14. LockIsRound'
  BY <1>3 DEF LockIsRound, InRound
<1>15. NetworkOwned'
  <2> SUFFICES ASSUME NEW tx \in network, NEW c \in Ids(tx.payment)
               PROVE  c \in minted' /\ (c \in Owned' \/ chain'[c] = Nil)
    BY <1>5 DEF NetworkOwned, Ids
  <2>1. c \in minted /\ (c \in Owned \/ chain[c] = Nil)
    BY DEF KeepInv, NetworkOwned
  <2>2. c \in ObjectID /\ c \notin created
    BY <1>3, <2>1 DEF InitializerInv, CoinsInv, MintedInv
  <2>3. task.coin.id \in Live
    BY <1>7 DEF KeepInv, RoundsHoldLive
  <2>4. chain[c] = Nil => chain'[c] = Nil
    BY <1>3, <2>2, <2>3 DEF Live
  <2> QED BY <1>3, <1>6, <2>1, <2>4
<1> QED BY <1>5, <1>12, <1>13, <1>14, <1>15 DEF KeepInv

\* The coin of a task is still there, so it is replaced and no round dies.
LEMMA LookUpAgainKeeps ==
  ASSUME InitializerInv, KeepInv, NEW s \in Server, NEW task \in round[s].tasks,
         LookUpAgain(s, task)
  PROVE  KeepInv'
<1> DEFINE latest == fullnode[task.coin.id]
<1>1. UNCHANGED vars /\ minted' = minted
  BY DEF LookUpAgain, poolUnchanged
<1>2. /\ task \in [coin : GasCoin, count : Nat \ {0}] /\ round[s].stage = "split"
      /\ task.coin.id \in ObjectID /\ task.coin.id \in HeldByRound(s)
  BY TaskInHands
<1>3. latest # Nil
  BY <1>2 DEF KeepInv, RoundsHoldLive, Live
<1>4. latest.id = task.coin.id
  BY <1>2, <1>3 DEF InitializerInv, CoinsInv, PoolInv, ChainFiled
<1>5. PICK again : again = [task EXCEPT !.coin = latest]
  OBVIOUS
<1>6. again.coin.id = task.coin.id
  BY <1>2, <1>4, <1>5
<1>7. PICK tasks : tasks = (round[s].tasks \ {task}) \cup {again}
  OBVIOUS
<1>8. PICK next : next = [round[s] EXCEPT !.tasks = tasks]
  OBVIOUS
<1>9. SetRound(s, next)
  BY <1>3, <1>5, <1>7, <1>8 DEF LookUpAgain
<1> HIDE DEF latest
<1>10. round'[s] = next /\ \A t \in Server \ {s} : round'[t] = round[t]
  BY <1>9, SetRoundSets DEF InitializerInv
<1>11. next.tasks = tasks /\ next.result = round[s].result /\ next.stage = "split"
  BY <1>2, <1>8, RoundIsRecord DEF InitializerInv
<1>12. HeldBy(next) = HeldBy(round[s])
  <2>1. \A t \in tasks : t.coin.id \in HeldBy(round[s])
    BY <1>6, <1>7 DEF HeldBy
  <2>2. \A t \in round[s].tasks : \E u \in tasks : u.coin.id = t.coin.id
    BY <1>6, <1>7
  <2> QED BY <1>11, <2>1, <2>2 DEF HeldBy
<1>13. LockIsRound'
  BY <1>10, <1>11 DEF LockIsRound, InRound
<1>14. ~NotListedYet
  BY <1>2 DEF NotListedYet
<1> QED BY <1>1, <1>10, <1>12, <1>13, <1>14, QuietRoundKeeps

\* A chunk goes from the hands of the round to the pool.
LEMMA AddChunkKeeps ==
  ASSUME InitializerInv, KeepInv, NEW s \in Server, AddChunk(s)
  PROVE  KeepInv'
<1>1. PICK chunk \in Chunks(s) :
        /\ \E coins \in SetToSeqs(chunk) : AddNewCoins(coins)
        /\ SetRound(s, [round[s] EXCEPT !.result = @ \ chunk])
  BY Zenon DEF AddChunk
<1>2. PICK coins \in SetToSeqs(chunk) : AddNewCoins(coins)
  BY <1>1
<1>3. /\ round[s].stage = "split" /\ round[s].tasks = {}
      /\ UNCHANGED <<envVars, taskVars, initLock, minted>>
      /\ UNCHANGED <<chain, fullnode, network>>
      /\ chunk \in SUBSET round[s].result /\ chunk # {}
  BY DEF AddChunk, Chunks, envVars
<1>4. PICK next : next = [round[s] EXCEPT !.result = @ \ chunk]
  OBVIOUS
<1>5. round'[s] = next /\ \A t \in Server \ {s} : round'[t] = round[t]
  BY <1>1, <1>4, SetRoundSets DEF InitializerInv
<1>6. next.tasks = {} /\ next.result = round[s].result \ chunk /\ next.stage = "split"
  BY <1>3, <1>4, RoundIsRecord DEF InitializerInv
<1>7. Owned' = Owned \cup {coin.id : coin \in chunk}
  BY <1>2, <1>3, <1>5, <1>6, RoundAdds
<1>8. HeldByRound(s) = HeldByRound(s)' \cup {coin.id : coin \in chunk}
  <2>1. HeldByRound(s)' = {coin.id : coin \in round[s].result \ chunk}
    BY <1>5, <1>6, HeldByRoundIs DEF HeldBy
  <2>2. HeldByRound(s) = {coin.id : coin \in round[s].result}
    BY <1>3 DEF HeldByRound
  <2> QED BY <1>3, <2>1, <2>2
<1>9. \A t \in Server \ {s} : HeldByRound(t)' = HeldByRound(t)
  BY <1>5, HeldByRoundIs
<1>10. Owned \cup InRounds \subseteq Owned' \cup InRounds'
  BY <1>7, <1>8, <1>9 DEF InRounds
<1>11. Live' = Live
  BY <1>3 DEF Live
<1>12. RoundsHoldLive'
  BY <1>8, <1>9, <1>11 DEF KeepInv, RoundsHoldLive
<1>13. EveryCoinKept'
  <2>1. EveryCoinKept
    BY <1>3, SplittingIsAfterListing
  <2> QED BY <1>3, <1>10, <1>11, <2>1 DEF EveryCoinKept
<1>14. LockIsRound'
  BY <1>5, <1>6 DEF LockIsRound, InRound
<1>15. NetworkOwned'
  BY <1>3, <1>7 DEF KeepInv, NetworkOwned, Ids
<1> QED BY <1>3, <1>12, <1>13, <1>14, <1>15 DEF KeepInv

\* A round ends with empty hands.
LEMMA ReleaseKeeps ==
  ASSUME InitializerInv, KeepInv, NEW s \in Server, ReleaseInitLock(s)
  PROVE  KeepInv'
<1>1. /\ UNCHANGED vars /\ minted' = minted /\ initLock' = -1
      /\ round[s].stage = "split" /\ round[s].tasks = {} /\ round[s].result = {}
      /\ SetRound(s, Asleep("refresh", "sleep"))
  BY DEF ReleaseInitLock, poolUnchanged
<1>2. /\ round'[s] = Asleep("refresh", "sleep") /\ \A t \in Server \ {s} : round'[t] = round[t]
  BY <1>1, SetRoundSets DEF InitializerInv
<1>3. HeldBy(round'[s]) = HeldBy(round[s])
  BY <1>1, <1>2 DEF HeldBy, Asleep
<1>4. LockIsRound' /\ ~NotListedYet
  BY <1>1 DEF LockIsRound, NotListedYet
<1> QED BY <1>1, <1>2, <1>3, <1>4, QuietRoundKeeps

\* While nobody dies the pool drops no coin that is there.
LEMMA PoolStepKeeps ==
  ASSUME RoundsComplete, InitializerInv, KeepInv, PoolStep
  PROVE  KeepInv'
<1>1. /\ PoolInv /\ MintedInv /\ Next /\ connected' = connected
      /\ UNCHANGED <<initLock, round, minted>>
  BY PoolStepIsNext DEF InitializerInv, CoinsInv, PoolStep
<1>2. CoinsTracked /\ RepliesArrive
  BY DEF RoundsComplete, CoinsTracked, RepliesArrive
<1>3. /\ fullnode' = chain'
      /\ \A c \in ObjectID \ Owned : chain'[c] = chain[c]
      /\ \A tx \in network' \ network : Ids(tx.payment) \subseteq Owned
  BY <1>1, NextTouches DEF RoundsComplete, KeepInv, NetworkOwned
<1>4. Stranded' \subseteq Stranded
  BY <1>1, <1>2, StepLosesByCrash DEF LosesByCrash
<1>5. \A c \in Owned : c \in Owned' \/ chain'[c] = Nil
  <2>1. Owned \subseteq ObjectID
    BY <1>1 DEF MintedInv
  <2> QED BY <1>4, <2>1 DEF Stranded, Live, Owned
<1>6. \A c \in ObjectID : chain[c] = Nil => chain'[c] = Nil
  BY <1>1, PoolOnlyGrows DEF OnlyGrows
<1>7. NetworkOwned'
  <2> SUFFICES ASSUME NEW tx \in network', NEW c \in Ids(tx.payment)
               PROVE  c \in minted /\ (c \in Owned' \/ chain'[c] = Nil)
    BY <1>1 DEF NetworkOwned, Ids
  <2>1. c \in minted /\ (c \in Owned \/ chain[c] = Nil)
    BY <1>1, <1>3 DEF KeepInv, NetworkOwned, MintedInv
  <2>2. c \in ObjectID
    BY <1>1, <2>1 DEF MintedInv
  <2> QED BY <1>5, <1>6, <2>1, <2>2
<1>8. LockIsRound' /\ InRounds' = InRounds
  BY <1>1 DEF KeepInv, LockIsRound, InRound, InRounds, HeldByRound
<1>9. RoundsHoldLive'
  <2> SUFFICES ASSUME NEW s \in Server, NEW c \in HeldByRound(s)
               PROVE  c \in Live'
    BY <1>1 DEF RoundsHoldLive, HeldByRound
  <2>1. c \in ObjectID /\ c \notin Owned /\ chain[c] # Nil
    BY DEF KeepInv, RoundsHoldLive, Live, InitializerInv, CoinsInv, RoundKnown
  <2> QED BY <1>3, <2>1 DEF Live
<1>10. EveryCoinKept => EveryCoinKept'
  <2> SUFFICES ASSUME EveryCoinKept, NEW c \in Live', c \notin Owned'
               PROVE  chain'[c].balance >= BalanceThreshold("refresh") \/ c \in InRounds'
    BY DEF EveryCoinKept
  <2>1. c \in ObjectID /\ chain'[c] # Nil /\ c \notin Owned
    BY <1>5 DEF Live
  <2>2. chain'[c] = chain[c] /\ c \in Live
    BY <1>3, <2>1 DEF Live
  <2> QED BY <1>8, <2>1, <2>2 DEF EveryCoinKept
<1>11. NotListedYet => NotListedYet'
  <2>1. initialized' = initialized \/ Owned # {}
    BY <1>1, <1>2, CoinsInitialize
  <2>2. ~initialized => ~initialized'
    BY <2>1 DEF InitializerInv, CoinsInv, EmptyFirst
  <2> QED BY <1>1, <2>2 DEF NotListedYet
<1> QED BY <1>3, <1>7, <1>8, <1>9, <1>10, <1>11 DEF KeepInv

\* A server that was down had nothing in hands.
LEMMA StartServerKeeps ==
  ASSUME InitializerInv, KeepInv, NEW s \in Server, StartServer(s)
  PROVE  KeepInv'
<1>1. /\ UNCHANGED <<available, reservation, exec, unlocker, chain, fullnode, network>>
      /\ UNCHANGED <<initialized, initLock, minted>> /\ s \notin connected
      /\ SetRound(s, Asleep("init", "start"))
  BY DEF StartServer, Restart, ConnectStorage, envVars, taskVars
<1>2. round[s] = Asleep("init", "start")
  BY <1>1 DEF InitializerInv, CoinsInv, RoundKnown
<1>3. \A t \in Server : round'[t] = round[t]
  BY <1>1, <1>2, SetRoundSets DEF InitializerInv
<1>4. Owned' = Owned
  BY <1>1, OwnedStays
<1>5. \A t \in Server : HeldByRound(t)' = HeldByRound(t)
  BY <1>3 DEF HeldByRound
<1>6. InRounds' = InRounds /\ Live' = Live /\ InRound' = InRound
  BY <1>1, <1>3, <1>5 DEF InRounds, Live, InRound
<1>7. NetworkOwned' /\ LockIsRound' /\ RoundsHoldLive'
  BY <1>1, <1>4, <1>5, <1>6 DEF KeepInv, NetworkOwned, LockIsRound, RoundsHoldLive, Ids
<1>8. EveryCoinKept => EveryCoinKept'
  BY <1>1, <1>4, <1>6 DEF EveryCoinKept
<1>9. NotListedYet => NotListedYet'
  BY <1>1, <1>3 DEF NotListedYet
<1> QED BY <1>1, <1>7, <1>8, <1>9 DEF KeepInv

\* A new coin is one for the next Refresh, or for the Init round that has not listed yet.
LEMMA DepositKeeps ==
  ASSUME RoundsComplete, InitializerInv, KeepInv, NEW c \in DOMAIN Deposit, ReceiveDeposit(c)
  PROVE  KeepInv'
<1>1. /\ UNCHANGED <<available, reservation, exec, unlocker, network>>
      /\ UNCHANGED <<initialized, initLock, round>>
      /\ fullnode' = chain' /\ minted' = minted \cup {c} /\ c \notin minted
      /\ chain' = [chain EXCEPT ![c] = [id |-> c, version |-> 1, balance |-> Deposit[c]]]
  BY DEF ReceiveDeposit, storageVars, taskVars
<1>2. chain = [d \in ObjectID |-> chain[d]] /\ c \in ObjectID
  BY InitializerAssumption DEF InitializerInv, CoinsInv, PoolInv, ChainTypeOK
<1>3. /\ chain'[c] = [id |-> c, version |-> 1, balance |-> Deposit[c]]
      /\ \A d \in ObjectID : d # c => chain'[d] = chain[d]
  BY <1>1, <1>2
<1>4. chain'[c].balance >= BalanceThreshold("refresh")
  BY <1>3 DEF RoundsComplete
<1>5. Owned' = Owned
  BY <1>1, OwnedStays
<1>6. \A t \in Server : HeldByRound(t)' = HeldByRound(t)
  BY <1>1 DEF HeldByRound
<1>7. InRounds' = InRounds /\ InRound' = InRound
  BY <1>1, <1>6 DEF InRounds, InRound
<1>8. \A d \in Live : d # c => d \in Live'
  BY <1>3 DEF Live
<1>9. RoundsHoldLive'
  <2>1. \A s \in Server : c \notin HeldByRound(s)
    BY <1>1 DEF InitializerInv, CoinsInv, RoundKnown
  <2> QED BY <1>6, <1>8, <2>1 DEF KeepInv, RoundsHoldLive
<1>10. NetworkOwned'
  <2> SUFFICES ASSUME NEW tx \in network, NEW d \in Ids(tx.payment)
               PROVE  d \in minted' /\ (d \in Owned' \/ chain'[d] = Nil)
    BY <1>1 DEF NetworkOwned, Ids
  <2>1. d \in minted /\ (d \in Owned \/ chain[d] = Nil)
    BY DEF KeepInv, NetworkOwned
  <2>2. d \in ObjectID /\ d # c
    BY <1>1, <2>1 DEF InitializerInv, CoinsInv, MintedInv
  <2> QED BY <1>1, <1>3, <1>5, <2>1, <2>2
<1>11. EveryCoinKept => EveryCoinKept'
  <2> SUFFICES ASSUME EveryCoinKept, NEW d \in Live'
               PROVE  chain'[d].balance >= BalanceThreshold("refresh") \/ d \in Owned' \cup InRounds'
    BY DEF EveryCoinKept
  <2>1. CASE d = c
    BY <1>4, <2>1
  <2>2. CASE d # c
    <3>1. d \in Live /\ chain'[d] = chain[d]
      BY <1>3, <2>2 DEF Live
    <3> QED BY <1>5, <1>7, <3>1 DEF EveryCoinKept
  <2> QED BY <2>1, <2>2
<1>12. LockIsRound' /\ (NotListedYet => NotListedYet')
  BY <1>1, <1>7 DEF KeepInv, LockIsRound, NotListedYet
<1> QED BY <1>1, <1>9, <1>10, <1>11, <1>12 DEF KeepInv

LEMMA RestKeeps ==
  ASSUME InitializerInv, KeepInv, UNCHANGED <<envVars, taskVars, round, minted, initialized>>,
         UNCHANGED <<available, reservation>>, initLock' >= 0 => initLock >= 0
  PROVE  KeepInv'
<1>1. UNCHANGED <<available, reservation, exec, unlocker, chain, fullnode, network>>
  BY DEF envVars, taskVars
<1>2. Owned' = Owned
  BY <1>1, OwnedStays
<1>3. \A t \in Server : HeldByRound(t)' = HeldByRound(t)
  BY DEF HeldByRound
<1>4. InRounds' = InRounds /\ Live' = Live /\ InRound' = InRound
  BY <1>1, <1>3 DEF InRounds, Live, InRound
<1>5. NetworkOwned' /\ LockIsRound' /\ RoundsHoldLive'
  BY <1>1, <1>2, <1>3, <1>4 DEF KeepInv, NetworkOwned, LockIsRound, RoundsHoldLive, Ids
<1>6. EveryCoinKept => EveryCoinKept'
  BY <1>1, <1>2, <1>4 DEF EveryCoinKept
<1>7. NotListedYet => NotListedYet'
  BY <1>1 DEF NotListedYet
<1> QED BY <1>1, <1>5, <1>6, <1>7 DEF KeepInv

LEMMA TickKeeps ==
  ASSUME InitializerInv, KeepInv, InitTick
  PROVE  KeepInv'
<1>1. /\ UNCHANGED <<envVars, taskVars, round, minted>>
      /\ UNCHANGED <<available, reservation, initialized>>
  BY DEF InitTick, Tick, storageVars
<1>2. initLock \in Int /\ initLock' = IF initLock >= 0 THEN initLock - 1 ELSE initLock
  BY DEF InitTick, InitializerInv, RoundInv
<1>3. initLock' >= 0 => initLock >= 0
  BY <1>2
<1> QED BY <1>1, <1>3, RestKeeps

\* Without faults of rounds or servers KeepInv is inductive.
LEMMA InitializerKeeps ==
  ASSUME RoundsComplete, InitializerInv, KeepInv, [InitializerNext]_initializerVars
  PROVE  KeepInv'
<1>1. CASE UNCHANGED initializerVars
  <2>1. UNCHANGED <<vars, round, initLock, minted>>
    BY <1>1 DEF initializerVars
  <2>2. /\ UNCHANGED <<envVars, taskVars, round, minted, initialized>>
        /\ UNCHANGED <<available, reservation>> /\ initLock' = initLock
    BY <2>1 DEF vars, storageVars
  <2> QED BY <2>2, RestKeeps
<1>2. ASSUME NEW s \in Server, RoundStep(s) PROVE KeepInv'
  <2>1. \A task : ~SplitUnseen(s, task)
    BY DEF SplitUnseen, RoundsComplete
  <2>2. ~RedisError(s)
    BY DEF RedisError, RoundsComplete
  <2> QED BY <1>2, <2>1, <2>2, CheckInitializedKeeps, WakeUpKeeps, AcquireKeeps, ListCoinsKeeps,
             SplitCoinKeeps, LookUpAgainKeeps, AddChunkKeeps, ReleaseKeeps DEF RoundStep
<1>3. ASSUME NEW s \in Server PROVE ~CrashServer(s)
  BY DEF CrashServer, Crash, RoundsComplete
<1> QED BY <1>1, <1>2, <1>3, StartServerKeeps, DepositKeeps, TickKeeps, PoolStepKeeps
        DEF InitializerNext

LEMMA InitializerInitKeeps ==
  ASSUME InitializerInit
  PROVE  KeepInv
<1>1. /\ initLock = -1 /\ initialized = FALSE /\ network = {} /\ fullnode = chain
      /\ \A s \in Server : round[s] = Asleep("init", "start")
  BY DEF InitializerInit, StorageInit
<1>2. \A s \in Server : HeldByRound(s) = {}
  BY <1>1 DEF HeldByRound, Asleep
<1>3. NotListedYet
  BY <1>1 DEF NotListedYet, Asleep
<1>4. NetworkOwned /\ LockIsRound /\ RoundsHoldLive
  BY <1>1, <1>2 DEF NetworkOwned, LockIsRound, RoundsHoldLive
<1> QED BY <1>1, <1>3, <1>4 DEF KeepInv

\* Once the pool counts as initialised every coin of the sponsor that is too small for a
\* Refresh is in the pool or in hands, also those a timed out submission left in doubt.
THEOREM NoSmallCoinForgotten ==
  RoundsComplete => (InitializerSpec /\ []PoolCoinsStaySmall => []NothingForgotten)
<1> SUFFICES ASSUME RoundsComplete
             PROVE  InitializerSpec /\ []PoolCoinsStaySmall => []NothingForgotten
  OBVIOUS
<1>1. InitializerInit => KeepInv
  BY InitializerInitKeeps
<1>2. InitializerInv /\ KeepInv /\ [InitializerNext]_initializerVars => KeepInv'
  BY InitializerKeeps
<1>3. CoinsTracked /\ RoundsInTime /\ ChecksAreFresh
  BY DEF RoundsComplete, CoinsTracked, RoundsInTime, ChecksAreFresh
<1>4. InitializerSpec /\ []PoolCoinsStaySmall => []InitializerInv
  BY <1>3, InitializerInvariant
<1> QED BY <1>1, <1>2, <1>4, KeptMeansNotForgotten, PTL DEF InitializerSpec

-----------------------------------------------------------------------------
(* Transactions of dead servers, and the balances of what is split *)

\* The coins a round is done with are as the chain has them.
ResultsTrue == \A s \in Server : \A coin \in round[s].result : chain[coin.id] = coin

\* What only a dead server had sent pays with coins that no round takes: an Init round is
\* over, and a Refresh looks for larger ones.
NetworkFree ==
  \A tx \in network : \A c \in Ids(tx.payment) :
    /\ c \in minted /\ initialized
    /\ chain[c] # Nil => chain[c].balance < BalanceThreshold("refresh")
    /\ c \notin InRounds

\* Answers of the fullnode are current, and a submission that ends without an answer is
\* that of a server that died.
AnswersCurrent == OutcomesKnown /\ "fullnode_lag" \notin Faults

ApartInv == fullnode = chain /\ NetworkApart /\ NetworkFree /\ ResultsTrue

\* A step keeps what the queue and the tasks know of balances.
MatchKept == BalancesKnown /\ MatchInv /\ ChainBalancesFit' => MatchInv'

\* A step of the pool, a server or a round that takes no more coins in hands.
LEMMA NextKeepsTrue ==
  ASSUME AnswersCurrent, InitializerInv, PoolCoinsStaySmall, ApartInv,
         [Next]_vars, minted' = minted, InRounds' \subseteq InRounds,
         \A s \in Server : round'[s].result \subseteq round[s].result
  PROVE  ApartInv' /\ MatchKept
<1>1. /\ PoolInv /\ MintedInv /\ NetworkApart /\ CoinsTracked /\ OutcomesKnown
      /\ fullnode = chain /\ "fullnode_lag" \notin Faults
  BY DEF InitializerInv, CoinsInv, ApartInv, AnswersCurrent, OutcomesKnown
<1>2. NetworkApart' /\ MatchKept
  BY <1>1, NetworkStaysApart, NextKeepsMatch DEF MatchKept
<1>3. /\ fullnode' = chain'
      /\ \A c \in ObjectID :
           \/ chain'[c] = chain[c]
           \/ c \in Owned /\ network' = network
           \/ \E tx \in network :
                c \in Ids(tx.payment) /\ chain[c] # Nil /\ network' = network \ {tx}
      /\ \A tx \in network' \ network : Ids(tx.payment) \subseteq Owned
  BY <1>1, NextTouches
<1>4. initialized' = initialized \/ initialized'
  BY <1>1, CoinsInitialize
<1>5. ASSUME NEW c \in Owned
      PROVE  c \in minted /\ c \in ObjectID /\ initialized /\ c \notin InRounds
  BY <1>1, <1>5 DEF MintedInv, InitializerInv, CoinsInv, EmptyFirst, RoundKnown, InRounds
<1>6. NetworkFree'
  <2> SUFFICES ASSUME NEW tx \in network', NEW c \in Ids(tx.payment)
               PROVE  /\ c \in minted' /\ initialized' /\ c \notin InRounds'
                      /\ chain'[c] # Nil => chain'[c].balance < BalanceThreshold("refresh")
    BY DEF NetworkFree, Ids
  <2>1. CASE tx \in network
    <3>1. /\ c \in minted /\ initialized /\ c \notin InRounds
          /\ chain[c] # Nil => chain[c].balance < BalanceThreshold("refresh")
      BY <2>1 DEF ApartInv, NetworkFree
    <3>2. c \in ObjectID /\ c \notin Owned
      BY <1>1, <2>1, <3>1 DEF MintedInv, NetworkApart
    <3>3. \A other \in network : c \in Ids(other.payment) => other = tx
      BY <1>1, <2>1 DEF NetworkApart
    <3>4. chain'[c] = chain[c]
      BY <1>3, <3>2, <3>3
    <3> QED BY <1>4, <3>1, <3>4
  <2>2. CASE tx \notin network
    <3>1. c \in Owned
      BY <1>3, <2>2
    <3>2. c \in minted /\ c \in ObjectID /\ initialized /\ c \notin InRounds
      BY <1>5, <3>1
    <3>3. chain[c] # Nil => chain[c].balance < BalanceThreshold("refresh")
      BY <1>1, <3>1 DEF PoolCoinsStaySmall, Owned
    <3>4. chain'[c] = chain[c]
      BY <1>3, <2>2, <3>2
    <3> QED BY <1>4, <3>2, <3>3, <3>4
  <2> QED BY <2>1, <2>2
<1>7. ResultsTrue'
  <2> SUFFICES ASSUME NEW s \in Server, NEW coin \in round[s].result
               PROVE  chain'[coin.id] = coin
    BY DEF ResultsTrue
  <2>1. RoundKnown(s) /\ coin.id \in HeldByRound(s)
    BY DEF InitializerInv, CoinsInv, HeldByRound
  <2>2. coin.id \in ObjectID /\ coin.id \notin Owned /\ coin.id \in InRounds
    BY <1>1, <2>1 DEF RoundKnown, InRounds, MintedInv
  <2>3. \A tx \in network : coin.id \notin Ids(tx.payment)
    BY <2>2 DEF ApartInv, NetworkFree
  <2>4. chain'[coin.id] = chain[coin.id]
    BY <1>3, <2>2, <2>3
  <2> QED BY <2>4 DEF ApartInv, ResultsTrue
<1> QED BY <1>2, <1>3, <1>6, <1>7 DEF ApartInv

\* A step that changes on chain what only rounds have, or creates coins.
LEMMA MintKeepsTrue ==
  ASSUME InitializerInv, ApartInv, UNCHANGED <<storageVars, taskVars, network>>,
         fullnode' = chain', \A c \in minted : chain'[c] = chain[c] \/ c \in InRounds,
         minted \subseteq minted', \A c \in InRounds' : c \in InRounds \/ c \notin minted,
         ResultsTrue'
  PROVE  ApartInv' /\ MatchKept
<1>1. UNCHANGED <<available, reservation, exec, unlocker, initialized>>
  BY DEF storageVars, taskVars
<1>2. Owned' = Owned
  BY <1>1, OwnedStays
<1>3. \A c \in Owned : chain'[c] = chain[c]
  BY DEF InitializerInv, CoinsInv, MintedInv, RoundKnown, InRounds
<1>4. MatchKept
  BY <1>1, <1>3, OthersStayTrue DEF InitializerInv, CoinsInv, MatchKept
<1>5. NetworkApart'
  BY <1>2 DEF ApartInv, NetworkApart, Ids
<1>6. NetworkFree'
  <2> SUFFICES ASSUME NEW tx \in network, NEW c \in Ids(tx.payment)
               PROVE  /\ c \in minted' /\ initialized' /\ c \notin InRounds'
                      /\ chain'[c] # Nil => chain'[c].balance < BalanceThreshold("refresh")
    BY DEF NetworkFree, Ids
  <2>1. /\ c \in minted /\ initialized /\ c \notin InRounds
        /\ chain[c] # Nil => chain[c].balance < BalanceThreshold("refresh")
    BY DEF ApartInv, NetworkFree
  <2>2. chain'[c] = chain[c]
    BY <2>1
  <2> QED BY <1>1, <2>1, <2>2
<1> QED BY <1>4, <1>5, <1>6 DEF ApartInv

\* A result stays true while no coin of it is split.
LEMMA ResultsStayTrue ==
  ASSUME InitializerInv, ResultsTrue, NEW c, \A d \in minted : d # c => chain'[d] = chain[d],
         NEW S \in SUBSET Server, \A t \in S : round'[t] = round[t],
         \A t \in S : \A coin \in round[t].result : coin.id # c
  PROVE  \A t \in S : \A coin \in round'[t].result : chain'[coin.id] = coin
<1> SUFFICES ASSUME NEW t \in S, NEW coin \in round[t].result
             PROVE  chain'[coin.id] = coin
  OBVIOUS
<1>1. coin.id \in minted /\ coin.id # c
  BY DEF InitializerInv, CoinsInv, RoundKnown, HeldByRound
<1> QED BY <1>1 DEF ResultsTrue

\* A split changes the coin of one task, which is in no result.
LEMMA SplitKeepsTrue ==
  ASSUME InitializerInv, ApartInv, NEW s \in Server, NEW task \in round[s].tasks,
         SplitCoin(s, task) \/ SplitUnseen(s, task)
  PROVE  ApartInv' /\ MatchKept
<1>1. HasFreshIds(task.count) /\ SplitLands(task, FreshIds(task.count))
  BY DEF SplitCoin, SplitUnseen
<1>2. PICK created : created = FreshIds(task.count)
  OBVIOUS
<1>3. created \subseteq ObjectID /\ created \cap minted = {}
  BY <1>1, <1>2, TaskInHands, FreshIdsAreUnused
<1>4. /\ fullnode' = chain' /\ minted' = minted \cup created
      /\ UNCHANGED <<storageVars, taskVars, network>>
      /\ \A c \in ObjectID \ (created \cup {task.coin.id}) : chain'[c] = chain[c]
  BY <1>1, <1>2, <1>3, TaskInHands, SplitLandsChanges
<1>5. task.coin.id \in HeldByRound(s) /\ round[s].stage = "split"
  BY TaskInHands
<1>6. \A c \in minted : c # task.coin.id => chain'[c] = chain[c]
  BY <1>3, <1>4 DEF InitializerInv, CoinsInv, MintedInv
<1>7. \A c \in minted : chain'[c] = chain[c] \/ c \in InRounds
  BY <1>5, <1>6 DEF InRounds
<1>8. /\ \A coin \in round[s].result : coin.id # task.coin.id
      /\ \A t \in Server \ {s} : round[t].result = {}
  <2>1. \A coin \in round[s].result : coin.id # task.coin.id
    BY DEF InitializerInv, CoinsInv, RoundKnown, WellFormed
  <2>2. s \in InRound
    BY <1>5 DEF InRound
  <2>3. \A t \in Server \ {s} : t \notin InRound
    BY <2>2 DEF InitializerInv, RoundInv, OneRoundAtATime
  <2> QED BY <2>1, <2>3 DEF InRound, InitializerInv, CoinsInv, RoundKnown
<1>9. CASE SplitUnseen(s, task)
  <2>1. round' = round
    BY <1>9 DEF SplitUnseen
  <2>2. ResultsTrue'
    <3>1. \A t \in Server : \A coin \in round'[t].result : chain'[coin.id] = coin
      BY <1>6, <1>8, <2>1, ResultsStayTrue DEF ApartInv
    <3> QED BY <3>1 DEF ResultsTrue
  <2>3. InRounds' = InRounds
    BY <2>1 DEF InRounds, HeldByRound
  <2> QED BY <1>4, <1>7, <2>2, <2>3, MintKeepsTrue
<1>10. CASE SplitCoin(s, task)
  <2>1. /\ HeldBy(round'[s]) = HeldByRound(s) \cup created
        /\ \A coin \in round'[s].result : coin \in round[s].result \/ chain'[coin.id] = coin
        /\ \A t \in Server \ {s} : round'[t] = round[t]
    BY <1>2, <1>10, SplitCoinMoves
  <2>2. InRounds' = InRounds \cup created
    <3>1. /\ HeldByRound(s)' = HeldByRound(s) \cup created
          /\ \A t \in Server \ {s} : HeldByRound(t)' = HeldByRound(t)
      BY <2>1, HeldByRoundIs
    <3> QED BY <3>1 DEF InRounds
  <2>3. ResultsTrue'
    <3>1. ASSUME NEW coin \in round'[s].result PROVE chain'[coin.id] = coin
      <4>1. CASE coin \in round[s].result
        <5>1. coin.id \in minted /\ chain[coin.id] = coin
          BY <4>1 DEF InitializerInv, CoinsInv, RoundKnown, HeldByRound, ApartInv, ResultsTrue
        <5> QED BY <1>6, <1>8, <4>1, <5>1
      <4> QED BY <2>1, <4>1
    <3>2. \A t \in Server \ {s} : round'[t].result = {}
      BY <1>8, <2>1
    <3> QED BY <3>1, <3>2 DEF ResultsTrue
  <2>4. \A c \in InRounds' : c \in InRounds \/ c \notin minted
    BY <1>3, <2>2
  <2> QED BY <1>4, <1>7, <2>3, <2>4, MintKeepsTrue
<1> QED BY <1>9, <1>10

LEMMA DepositKeepsTrue ==
  ASSUME InitializerInv, ApartInv, NEW c \in DOMAIN Deposit, ReceiveDeposit(c)
  PROVE  ApartInv' /\ MatchKept
<1>1. /\ UNCHANGED <<storageVars, taskVars, network>> /\ UNCHANGED round
      /\ fullnode' = chain' /\ minted' = minted \cup {c} /\ c \notin minted
      /\ chain' = [chain EXCEPT ![c] = [id |-> c, version |-> 1, balance |-> Deposit[c]]]
  BY DEF ReceiveDeposit
<1>2. chain = [d \in ObjectID |-> chain[d]] /\ minted \subseteq ObjectID
  BY DEF InitializerInv, CoinsInv, PoolInv, ChainTypeOK, MintedInv
<1>3. \A d \in minted : chain'[d] = chain[d]
  BY <1>1, <1>2
<1>4. InRounds' = InRounds
  BY <1>1 DEF InRounds, HeldByRound
<1>5. \A t \in Server : \A coin \in round[t].result : coin.id # c
  BY <1>1 DEF InitializerInv, CoinsInv, RoundKnown, HeldByRound
<1>6. ResultsTrue'
  <2>1. /\ \A d \in minted : d # c => chain'[d] = chain[d]
        /\ \A t \in Server : round'[t] = round[t]
        /\ ResultsTrue
    BY <1>1, <1>3 DEF ApartInv
  <2>2. \A t \in Server : \A coin \in round'[t].result : chain'[coin.id] = coin
    BY <1>5, <2>1, ResultsStayTrue
  <2> QED BY <2>2 DEF ResultsTrue
<1> QED BY <1>1, <1>3, <1>4, <1>6, MintKeepsTrue

\* What is listed is as the fullnode has it, and nothing that may still be spent by a
\* transaction of a dead server.
LEMMA ListCoinsKeepsTrue ==
  ASSUME InitializerInv, ApartInv, NEW s \in Server, ListCoins(s)
  PROVE  ApartInv' /\ MatchKept
<1>1. /\ UNCHANGED vars /\ minted' = minted /\ round[s].stage = "list"
      /\ UNCHANGED <<chain, fullnode, network, available, reservation, exec, unlocker, initialized>>
  BY DEF ListCoins, poolUnchanged, vars, storageVars, envVars, taskVars
<1>2. PICK coins : coins = Listed(round[s].mode)
  OBVIOUS
<1>3. PICK state : state = [round[s] EXCEPT !.stage = "split"]
  OBVIOUS
<1>4. PICK next : next = Enqueue(state, coins)
  OBVIOUS
<1>5. SetRound(s, next)
  BY <1>2, <1>3, <1>4 DEF ListCoins, Listed
<1>6. round'[s] = next /\ \A t \in Server \ {s} : round'[t] = round[t]
  BY <1>5, SetRoundSets DEF InitializerInv
<1>7. /\ round[s] \in [mode : {"init", "refresh"}, stage : RoundStages,
                       tasks : {round[s].tasks}, result : {round[s].result}]
      /\ round[s].tasks = {} /\ round[s].result = {} /\ round[s].mode \in {"init", "refresh"}
  BY <1>1, RoundIsRecord DEF InitializerInv, CoinsInv, RoundKnown
<1>8. /\ state \in [mode : {"init", "refresh"}, stage : RoundStages,
                    tasks : {state.tasks}, result : {state.result}]
      /\ state.stage = "split" /\ state.tasks = {} /\ state.result = {}
  BY <1>3, <1>7 DEF RoundStages
<1>9. WellFormed(state) /\ HeldBy(state) = {}
  BY <1>8 DEF WellFormed, HeldBy
<1>10. /\ coins \subseteq GasCoin
       /\ \A coin, other \in coins : coin.id = other.id => coin = other
       /\ \A coin \in coins :
            /\ coin.id \in ObjectID /\ coin = fullnode[coin.id] /\ fullnode[coin.id] # Nil
            /\ coin.balance >= BalanceThreshold(round[s].mode)
  BY <1>2, ListedAre DEF InitializerInv, CoinsInv, PoolInv
<1>11. HeldBy(next) = {coin.id : coin \in coins} /\ next.result \subseteq coins
  BY <1>4, <1>8, <1>9, <1>10, EnqueueTakes
<1>12. InRounds' \subseteq InRounds \cup {coin.id : coin \in coins}
  BY <1>6, <1>11, HeldByRoundIs DEF InRounds
<1>13. fullnode = chain
  BY DEF ApartInv
<1>14. ResultsTrue'
  <2>1. \A coin \in round'[s].result : chain'[coin.id] = coin
    BY <1>1, <1>6, <1>10, <1>11, <1>13
  <2> QED BY <1>1, <1>6, <2>1 DEF ResultsTrue, ApartInv
<1>15. NetworkFree'
  <2> SUFFICES ASSUME NEW tx \in network, NEW c \in Ids(tx.payment)
               PROVE  c \notin InRounds'
    BY <1>1 DEF NetworkFree, ApartInv, Ids
  <2>1. /\ initialized /\ c \notin InRounds
        /\ chain[c] # Nil => chain[c].balance < BalanceThreshold("refresh")
    BY DEF ApartInv, NetworkFree
  <2>2. round[s].mode = "refresh"
    BY <1>1, <1>7, <2>1 DEF InitializerInv, CoinsInv, EmptyFirst
  <2>3. ASSUME NEW coin \in coins, coin.id = c PROVE FALSE
    <3>1. /\ chain[c] = coin /\ chain[c] # Nil /\ coin \in GasCoin
          /\ coin.balance >= BalanceThreshold("refresh")
      BY <1>10, <1>13, <2>2, <2>3
    <3>2. coin.balance \in Nat /\ BalanceThreshold("refresh") \in Nat
      BY <3>1, InitializerAssumption DEF GasCoin, BalanceThreshold
    <3> QED BY <2>1, <3>1, <3>2
  <2> QED BY <1>12, <2>1, <2>3
<1>16. NetworkApart'
  <2>1. Owned' = Owned
    BY <1>1, OwnedStays
  <2> QED BY <1>1, <2>1 DEF ApartInv, NetworkApart, Ids
<1>17. MatchKept
  BY <1>1, <1>13, OthersStayTrue DEF InitializerInv, CoinsInv, MatchKept
<1> QED BY <1>1, <1>13, <1>14, <1>15, <1>16, <1>17 DEF ApartInv

\* The coins of a chunk are added as the chain has them, and nothing a dead server sent
\* spends them.
LEMMA RoundAddsTrue ==
  ASSUME InitializerInv, ApartInv, NEW s \in Server, round[s].stage = "split",
         NEW chunk \in SUBSET round[s].result, chunk # {},
         NEW coins \in SetToSeqs(chunk), AddNewCoins(coins),
         UNCHANGED <<envVars, taskVars, initLock, minted>>,
         \A t \in Server \ {s} : round'[t] = round[t], round'[s].stage # "list",
         HeldBy(round'[s]) \subseteq HeldByRound(s), round'[s].result \subseteq round[s].result
  PROVE  ApartInv' /\ MatchKept
<1>1. /\ UNCHANGED <<chain, fullnode, network, exec, unlocker>>
      /\ available' = available \o coins
  BY DEF envVars, taskVars, AddNewCoins
<1>2. /\ PoolInv /\ RoundKnown(s) /\ Owned' = Owned \cup {coin.id : coin \in chunk}
      /\ initialized' = TRUE
  BY RoundAdds DEF InitializerInv, CoinsInv
<1>3. coins \in Seq(GasCoin) /\ \A i \in 1..Len(coins) : coins[i] \in chunk
  <2>1. chunk \subseteq GasCoin /\ \A coin, other \in chunk : coin.id = other.id => coin = other
    BY <1>2 DEF RoundKnown, WellFormed
  <2> QED BY <2>1, ChunkIsLegal
<1>4. \A i \in 1..Len(coins) : chain[coins[i].id] = coins[i]
  BY <1>3 DEF ApartInv, ResultsTrue
<1>5. MatchInv => PoolMatchesChain'
  BY <1>1, <1>2, <1>3, <1>4, QueueGrowsTrue DEF MatchInv
<1>6. MatchKept
  <2> SUFFICES ASSUME MatchInv PROVE MatchInv'
    BY DEF MatchKept
  <2>1. \A r \in DOMAIN exec : ExecMatches(r)'
    BY <1>1, <1>2, ExecStaysTrue DEF MatchInv
  <2>2. \A t \in Server : UnlockerMatches(t)'
    BY <1>1, <1>2, UnlockerStaysTrue DEF MatchInv
  <2> QED BY <1>1, <1>5, <2>1, <2>2 DEF MatchInv
<1>7. {coin.id : coin \in chunk} \subseteq InRounds
  BY DEF InRounds, HeldByRound
<1>8. InRounds' \subseteq InRounds
  BY HeldByRoundIs DEF InRounds
<1>9. NetworkApart'
  <2>1. \A tx \in network : Ids(tx.payment) \cap InRounds = {}
    BY DEF ApartInv, NetworkFree
  <2>2. \A tx \in network : Ids(tx.payment) \cap Owned' = {}
    BY <1>2, <1>7, <2>1 DEF ApartInv, NetworkApart
  <2> QED BY <1>1, <2>2 DEF ApartInv, NetworkApart, Ids
<1>10. NetworkFree'
  BY <1>1, <1>2, <1>8 DEF ApartInv, NetworkFree, Ids
<1>11. ResultsTrue'
  BY <1>1 DEF ApartInv, ResultsTrue
<1> QED BY <1>1, <1>6, <1>9, <1>10, <1>11 DEF ApartInv

LEMMA AddChunkKeepsTrue ==
  ASSUME InitializerInv, ApartInv, NEW s \in Server, AddChunk(s)
  PROVE  ApartInv' /\ MatchKept
<1>1. PICK chunk \in Chunks(s) :
        /\ \E coins \in SetToSeqs(chunk) : AddNewCoins(coins)
        /\ SetRound(s, [round[s] EXCEPT !.result = @ \ chunk])
  BY Zenon DEF AddChunk
<1>2. PICK coins \in SetToSeqs(chunk) : AddNewCoins(coins)
  BY <1>1
<1>3. /\ round[s].stage = "split" /\ round[s].tasks = {}
      /\ UNCHANGED <<envVars, taskVars, initLock, minted>>
      /\ chunk \in SUBSET round[s].result /\ chunk # {}
  BY DEF AddChunk, Chunks
<1>4. PICK next : next = [round[s] EXCEPT !.result = @ \ chunk]
  OBVIOUS
<1>5. round'[s] = next /\ \A t \in Server \ {s} : round'[t] = round[t]
  BY <1>1, <1>4, SetRoundSets DEF InitializerInv
<1>6. next.tasks = {} /\ next.result = round[s].result \ chunk /\ next.stage = "split"
  BY <1>3, <1>4, RoundIsRecord DEF InitializerInv
<1>7. HeldBy(next) \subseteq HeldByRound(s)
  BY <1>6 DEF HeldBy, HeldByRound
<1> QED BY <1>2, <1>3, <1>5, <1>6, <1>7, RoundAddsTrue

\* A server goes on with no more in hands than it had, while the pool does nothing.
LEMMA RestKeepsTrue ==
  ASSUME AnswersCurrent, InitializerInv, PoolCoinsStaySmall, ApartInv,
         UNCHANGED vars, minted' = minted, NEW s \in Server, NEW state, SetRound(s, state),
         HeldBy(state) \subseteq HeldByRound(s), state.result \subseteq round[s].result
  PROVE  ApartInv' /\ MatchKept
<1>1. round'[s] = state /\ \A t \in Server \ {s} : round'[t] = round[t]
  BY SetRoundSets DEF InitializerInv
<1>2. HeldByRound(s)' \subseteq HeldByRound(s)
  BY <1>1, HeldByRoundIs
<1>3. \A t \in Server \ {s} : HeldByRound(t)' = HeldByRound(t)
  BY <1>1, HeldByRoundIs
<1>4. InRounds' \subseteq InRounds
  BY <1>2, <1>3 DEF InRounds
<1>5. \A t \in Server : round'[t].result \subseteq round[t].result
  BY <1>1
<1> QED BY <1>4, <1>5, NextKeepsTrue

LEMMA AsleepHoldsNothing ==
  ASSUME NEW mode, NEW stage
  PROVE  HeldBy(Asleep(mode, stage)) = {} /\ Asleep(mode, stage).result = {}
BY DEF HeldBy, Asleep

LEMMA LookUpAgainKeepsTrue ==
  ASSUME AnswersCurrent, InitializerInv, PoolCoinsStaySmall, ApartInv,
         NEW s \in Server, NEW task \in round[s].tasks, LookUpAgain(s, task)
  PROVE  ApartInv' /\ MatchKept
<1>1. UNCHANGED vars /\ minted' = minted
  BY DEF LookUpAgain, poolUnchanged
<1>2. PICK latest : latest = fullnode[task.coin.id]
  OBVIOUS
<1>3. CASE latest = Nil
  <2>1. SetRound(s, Asleep(round[s].mode, "dead"))
    BY <1>2, <1>3 DEF LookUpAgain
  <2> QED BY <1>1, <2>1, AsleepHoldsNothing, RestKeepsTrue
<1>4. CASE latest # Nil
  <2>1. task \in [coin : GasCoin, count : Nat \ {0}] /\ task.coin.id \in ObjectID
    BY TaskInHands
  <2>2. latest.id = task.coin.id
    BY <1>2, <1>4, <2>1 DEF InitializerInv, CoinsInv, PoolInv, ChainFiled
  <2>3. PICK tasks : tasks = (round[s].tasks \ {task}) \cup {[task EXCEPT !.coin = latest]}
    OBVIOUS
  <2>4. PICK next : next = [round[s] EXCEPT !.tasks = tasks]
    OBVIOUS
  <2>5. SetRound(s, next)
    BY <1>2, <1>4, <2>3, <2>4 DEF LookUpAgain
  <2>6. next.tasks = tasks /\ next.result = round[s].result
    BY <2>4, RoundIsRecord DEF InitializerInv
  <2>7. [task EXCEPT !.coin = latest].coin.id = task.coin.id
    BY <2>1, <2>2
  <2>8. HeldBy(next) \subseteq HeldByRound(s)
    BY <2>3, <2>6, <2>7 DEF HeldBy, HeldByRound
  <2> QED BY <1>1, <2>5, <2>6, <2>8, RestKeepsTrue
<1> QED BY <1>3, <1>4

LEMMA RedisErrorKeepsTrue ==
  ASSUME AnswersCurrent, InitializerInv, PoolCoinsStaySmall, ApartInv,
         NEW s \in Server, RedisError(s)
  PROVE  ApartInv' /\ MatchKept
<1>1. /\ round[s].stage \in {"acquire", "split"}
      /\ SetRound(s, Asleep(round[s].mode, "dead")) /\ minted' = minted
  BY DEF RedisError
<1>2. CASE poolUnchanged
  BY <1>1, <1>2, AsleepHoldsNothing, RestKeepsTrue DEF poolUnchanged
<1>3. CASE /\ round[s].stage = "split"
           /\ \E chunk \in Chunks(s) : \E coins \in SetToSeqs(chunk) : AddNewCoins(coins)
           /\ UNCHANGED <<envVars, taskVars, initLock>>
  <2>1. PICK chunk \in Chunks(s) : \E coins \in SetToSeqs(chunk) : AddNewCoins(coins)
    BY <1>3
  <2>2. PICK coins \in SetToSeqs(chunk) : AddNewCoins(coins)
    BY <2>1
  <2>3. chunk \in SUBSET round[s].result /\ chunk # {}
    BY DEF Chunks
  <2>4. /\ round'[s] = Asleep(round[s].mode, "dead")
        /\ \A t \in Server \ {s} : round'[t] = round[t]
    BY <1>1, SetRoundSets DEF InitializerInv
  <2>5. /\ round'[s].stage # "list" /\ HeldBy(round'[s]) \subseteq HeldByRound(s)
        /\ round'[s].result \subseteq round[s].result
    BY <2>4, AsleepHoldsNothing DEF Asleep
  <2> QED BY <1>1, <1>3, <2>2, <2>3, <2>4, <2>5, RoundAddsTrue
<1> QED BY <1>2, <1>3 DEF RedisError

LEMMA RoundStepKeepsTrue ==
  ASSUME AnswersCurrent, InitializerInv, PoolCoinsStaySmall, ApartInv,
         NEW s \in Server, RoundStep(s)
  PROVE  ApartInv' /\ MatchKept
<1>1. CASE CheckInitialized(s) \/ WakeUp(s) \/ ReleaseInitLock(s)
  <2>1. UNCHANGED vars /\ minted' = minted
    BY <1>1 DEF CheckInitialized, WakeUp, ReleaseInitLock, poolUnchanged
  <2>2. PICK mode, stage : SetRound(s, Asleep(mode, stage))
    BY <1>1 DEF CheckInitialized, WakeUp, ReleaseInitLock
  <2> QED BY <2>1, <2>2, AsleepHoldsNothing, RestKeepsTrue
<1>2. CASE AcquireInitLock(s)
  <2>1. UNCHANGED vars /\ minted' = minted
    BY <1>2 DEF AcquireInitLock, poolUnchanged
  <2>2. CASE SetRound(s, Asleep("refresh", "sleep"))
    BY <2>1, <2>2, AsleepHoldsNothing, RestKeepsTrue
  <2>3. CASE SetRound(s, [round[s] EXCEPT !.stage = "list"])
    <3>1. PICK state : state = [round[s] EXCEPT !.stage = "list"]
      OBVIOUS
    <3>2. state.tasks = round[s].tasks /\ state.result = round[s].result
      BY <3>1, RoundIsRecord DEF InitializerInv
    <3>3. HeldBy(state) \subseteq HeldByRound(s)
      BY <3>2 DEF HeldBy, HeldByRound
    <3> QED BY <2>1, <2>3, <3>1, <3>2, <3>3, RestKeepsTrue
  <2> QED BY <1>2, <2>2, <2>3 DEF AcquireInitLock
<1>3. ASSUME NEW task \in round[s].tasks,
             SplitCoin(s, task) \/ SplitUnseen(s, task) \/ LookUpAgain(s, task)
      PROVE  ApartInv' /\ MatchKept
  BY <1>3, SplitKeepsTrue, LookUpAgainKeepsTrue
<1> QED BY <1>1, <1>2, <1>3, ListCoinsKeepsTrue, AddChunkKeepsTrue, RedisErrorKeepsTrue
        DEF RoundStep

LEMMA InitializerKeepsTrue ==
  ASSUME AnswersCurrent, InitializerInv, PoolCoinsStaySmall, ApartInv,
         [InitializerNext]_initializerVars
  PROVE  ApartInv' /\ MatchKept
<1>1. ASSUME [Next]_vars, UNCHANGED <<round, minted>> PROVE ApartInv' /\ MatchKept
  <2>1. InRounds' = InRounds /\ \A t \in Server : round'[t].result = round[t].result
    BY <1>1 DEF InRounds, HeldByRound
  <2> QED BY <1>1, <2>1, NextKeepsTrue
<1>2. ASSUME NEW s \in Server, StartServer(s) \/ CrashServer(s) PROVE ApartInv' /\ MatchKept
  <2>1. /\ SetRound(s, Asleep("init", "start")) /\ minted' = minted
        /\ Restart(s) \/ Crash(s)
    BY <1>2 DEF StartServer, CrashServer
  <2>2. [Next]_vars
    BY <2>1 DEF Next, Environment
  <2>3. /\ round'[s] = Asleep("init", "start")
        /\ \A t \in Server \ {s} : round'[t] = round[t]
    BY <2>1, SetRoundSets DEF InitializerInv
  <2>4. HeldByRound(s)' = {} /\ round'[s].result = {}
    BY <2>3, AsleepHoldsNothing, HeldByRoundIs
  <2>5. \A t \in Server \ {s} : HeldByRound(t)' = HeldByRound(t)
    BY <2>3, HeldByRoundIs
  <2>6. InRounds' \subseteq InRounds
    BY <2>4, <2>5 DEF InRounds
  <2>7. \A t \in Server : round'[t].result \subseteq round[t].result
    BY <2>3, <2>4
  <2> QED BY <2>1, <2>2, <2>6, <2>7, NextKeepsTrue
<1>3. CASE InitTick
  <2>1. UNCHANGED <<envVars, taskVars, round, minted>> /\ (Tick \/ UNCHANGED storageVars)
    BY <1>3 DEF InitTick
  <2>2. [Next]_vars
    BY <2>1 DEF Next, Environment, PassTime, vars
  <2> QED BY <1>1, <2>1, <2>2
<1>4. CASE PoolStep
  <2>1. Next /\ UNCHANGED <<round, minted>>
    BY <1>4, PoolStepIsNext DEF PoolStep, InitializerInv, CoinsInv
  <2> QED BY <1>1, <2>1
<1>5. CASE UNCHANGED initializerVars
  BY <1>1, <1>5 DEF initializerVars
<1> QED BY <1>2, <1>3, <1>4, <1>5, RoundStepKeepsTrue, DepositKeepsTrue DEF InitializerNext

LEMMA InitializerInitIsTrue ==
  ASSUME InitializerInit
  PROVE  ApartInv /\ MatchInv
<1>1. /\ network = {} /\ fullnode = chain /\ available = <<>>
      /\ unlocker = [s \in Server |-> Idle]
      /\ \A s \in Server : round[s] = Asleep("init", "start")
  BY DEF InitializerInit, StorageInit
<1>2. DOMAIN exec = {}
  <2>1. exec = <<>> /\ 1..0 = {}
    BY DEF InitializerInit
  <2> QED BY <2>1
<1>3. PoolMatchesChain
  <2>1. Len(available) = 0
    BY <1>1, EmptySeq
  <2> QED BY <2>1 DEF PoolMatchesChain
<1>4. MatchInv
  BY <1>1, <1>2, <1>3 DEF MatchInv, UnlockerMatches, Idle
<1>5. NetworkApart /\ NetworkFree
  BY <1>1 DEF NetworkApart, NetworkFree
<1>6. ResultsTrue
  BY <1>1 DEF ResultsTrue, Asleep
<1> QED BY <1>1, <1>4, <1>5, <1>6 DEF ApartInv

\* ApartInv is inductive on top of InitializerInv.
LEMMA ApartInvariant ==
  AnswersCurrent /\ RoundsInTime /\ ChecksAreFresh
    => (InitializerSpec /\ []PoolCoinsStaySmall
          => [](InitializerInv /\ ApartInv))
<1> SUFFICES ASSUME AnswersCurrent, RoundsInTime, ChecksAreFresh
             PROVE  InitializerSpec /\ []PoolCoinsStaySmall
                    => [](InitializerInv /\ ApartInv)
  OBVIOUS
<1>1. InitializerInit => ApartInv
  BY InitializerInitIsTrue
<1>2. /\ InitializerInv /\ PoolCoinsStaySmall /\ ApartInv
      /\ [InitializerNext]_initializerVars
      => ApartInv'
  BY InitializerKeepsTrue
<1>3. InitializerSpec /\ []PoolCoinsStaySmall => []InitializerInv
  BY InitializerInvariant DEF AnswersCurrent, OutcomesKnown
<1> QED BY <1>1, <1>2, <1>3, PTL DEF InitializerSpec

\* What is in flight pays with coins of the pool's tasks, or with those no round takes.
LEMMA ApartGivesRoundsPayApart == InitializerInv /\ ApartInv => RoundsPayApart
<1> SUFFICES ASSUME InitializerInv, ApartInv PROVE RoundsPayApart
  OBVIOUS
<1>1. GasNeverEquivocates
  BY ApartGivesNoEquivocation DEF InitializerInv, CoinsInv, ApartInv
<1>2. ASSUME NEW tx \in network, NEW s \in Server PROVE Ids(tx.payment) \cap HeldByRound(s) = {}
  BY DEF ApartInv, NetworkFree, InRounds
<1>3. ASSUME NEW r \in DOMAIN exec, exec[r].stage = "funded", NEW s \in Server
      PROVE  Ids(Sent(r).payment) \cap HeldByRound(s) = {}
  <2>1. Ids(Sent(r).payment) \subseteq Owned
    BY <1>3 DEF Sent, Ids, HeldByExec, Owned, HeldByTasks
  <2> QED BY <2>1 DEF InitializerInv, CoinsInv, RoundKnown
<1> QED BY <1>1, <1>2, <1>3 DEF RoundsPayApart, InFlight

\* A split and a sponsored transaction never compete for a coin, and two sponsored ones
\* neither: whatever dies, once a round may take a coin nothing that spends it is pending.
THEOREM RoundsNeverEquivocate ==
  AnswersCurrent /\ RoundsInTime /\ ChecksAreFresh
    => (InitializerSpec /\ []PoolCoinsStaySmall => []RoundsPayApart)
BY ApartInvariant, ApartGivesRoundsPayApart, PTL

\* What the queue records of a coin is what the chain has, although the balances of split
\* coins are derived and not read, splits may land unseen and servers die in any step.
THEOREM QueueIsTrueEvenInRounds ==
  BalancesKnown /\ RoundsInTime /\ ChecksAreFresh
    => (InitializerSpec /\ []PoolCoinsStaySmall /\ []ChainBalancesFit => []PoolMatchesChain)
<1> SUFFICES ASSUME BalancesKnown, RoundsInTime, ChecksAreFresh
             PROVE  InitializerSpec /\ []PoolCoinsStaySmall /\ []ChainBalancesFit
                    => []PoolMatchesChain
  OBVIOUS
<1>1. InitializerInit => MatchInv
  BY InitializerInitIsTrue
<1>2. AnswersCurrent
  BY DEF BalancesKnown, AnswersCurrent
<1>3. /\ InitializerInv /\ PoolCoinsStaySmall /\ ApartInv /\ MatchInv /\ ChainBalancesFit'
      /\ [InitializerNext]_initializerVars
      => MatchInv'
  BY <1>2, InitializerKeepsTrue DEF MatchKept
<1>4. InitializerSpec /\ []PoolCoinsStaySmall => []InitializerInv /\ []ApartInv
  BY <1>2, ApartInvariant, PTL
<1>5. MatchInv => PoolMatchesChain
  BY DEF MatchInv
<1> QED BY <1>1, <1>3, <1>4, <1>5, PTL DEF InitializerSpec

=============================================================================
