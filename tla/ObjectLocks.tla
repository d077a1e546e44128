---------------------------- MODULE ObjectLocks ----------------------------
(***************************************************************************)
(* The object lock manager of one server: execution tasks lock the         *)
(* address-owned inputs of their transactions.  A task first looks at the  *)
(* lock table without keeping it, finds out from a cache or from the       *)
(* fullnode which inputs are address-owned, and only then takes the locks, *)
(* so other tasks lock, execute and unlock in between.                     *)
(***************************************************************************)
EXTENDS Integers, Sequences

CONSTANTS
  Task,        \* tasks that execute transactions at the same time
  Object,      \* owned or immutable inputs, gas coins left out
  MaxVersion,  \* bound: versions of an object
  Lag,         \* the fullnode may answer with an older version
  Nil          \* no cache entry

Owner == {"address", "immutable", "other", "deleted"}

ASSUME LocksAssumption ==
  /\ MaxVersion \in Nat \ {0}
  /\ Lag \in BOOLEAN
  /\ Nil \notin [version : Nat, addressOwned : BOOLEAN]

VARIABLES
  history,  \* the owner of every version of an object, on chain
  cache,    \* address_owned_cache
  locked,   \* locked_owned_objects
  task      \* the locals of every task

vars == <<history, cache, locked, task>>

\* A task asks for the owners of "query", which the fullnode told it in "answer".
\* After execution, "answer" is what effects.mutated() says of the inputs.
Stages == {"idle", "checked", "asking", "answered", "filtered", "locked", "executed"}

Entry == [version : 1..MaxVersion, addressOwned : BOOLEAN]

TaskState ==
  [stage : Stages,
   inputs : UNION {[objects -> 1..MaxVersion] : objects \in SUBSET Object},
   owned : SUBSET Object,
   query : SUBSET Object,
   answer : UNION {[objects -> Entry] : objects \in SUBSET Object}]

Idle == [stage |-> "idle", inputs |-> <<>>, owned |-> {}, query |-> {}, answer |-> <<>>]

Latest(o) == Len(history[o])

EntryAt_NextVersion(o, version) ==
  [version |-> version + 1, addressOwned |-> history[o][version] = "address"]
EntryAt(o, version) ==
  [version |-> version, addressOwned |-> history[o][version] = "address"]

\* The objects a task has locked: those of its ObjectLocks guard.
Holds(t) == IF task[t].stage \in {"locked", "executed"} THEN task[t].owned ELSE {}

Becomes(t, s) == task' = [task EXCEPT ![t] = s]

-----------------------------------------------------------------------------
(* try_acquire_locks *)

\* The preliminary check under the read lock.  A refused transaction is over.
PreliminaryCheck(t, inputs) ==
  /\ task[t].stage = "idle"
  /\ DOMAIN inputs \cap locked = {}
  /\ Becomes(t, [task[t] EXCEPT !.stage = "checked", !.inputs = inputs])
  /\ UNCHANGED <<history, cache, locked>>

End(t) == Becomes(t, Idle)

\* filter_owned_objects, as far as the cache knows: an input older than its entry
\* ends the attempt, one that matches it needs no query.
OutOfDate(t) ==
  \E o \in DOMAIN task[t].inputs : cache[o] # Nil /\ task[t].inputs[o] < cache[o].version

FilterCached_AnyVersion(t) ==
  LET inputs == task[t].inputs
      known  == {o \in DOMAIN inputs : cache[o] # Nil}
  IN  Becomes(t, [task[t] EXCEPT
        !.stage = IF known = DOMAIN inputs THEN "filtered" ELSE "asking",
        !.owned = {o \in known : cache[o].addressOwned},
        !.query = DOMAIN inputs \ known])

FilterCached(t) ==
  LET inputs == task[t].inputs
      known  == {o \in DOMAIN inputs : cache[o] # Nil /\ cache[o].version = inputs[o]}
  IN  Becomes(t, [task[t] EXCEPT
        !.stage = IF known = DOMAIN inputs THEN "filtered" ELSE "asking",
        !.owned = {o \in known : cache[o].addressOwned},
        !.query = DOMAIN inputs \ known])

Filter(t) ==
  /\ task[t].stage = "checked"
  /\ IF OutOfDate(t) THEN End(t) ELSE FilterCached(t)
  /\ UNCHANGED <<history, cache, locked>>

\* multi_get_object_owners: the fullnode's view of the queried objects, of which
\* one that is gone makes the whole query an error.
OwnersAnswer(t) ==
  /\ task[t].stage = "asking"
  /\ \E seen \in [task[t].query -> 1..MaxVersion] :
       /\ \A o \in task[t].query :
            /\ seen[o] <= Latest(o)
            /\ ~Lag => seen[o] = Latest(o)
            /\ history[o][seen[o]] # "deleted"
       /\ Becomes(t, [task[t] EXCEPT
            !.stage = "answered",
            !.answer = [o \in task[t].query |-> EntryAt(o, seen[o])]])
  /\ UNCHANGED <<history, cache, locked>>

QueryFails(t) == task[t].stage = "asking" /\ End(t) /\ UNCHANGED <<history, cache, locked>>

Superseded(t) == {o \in task[t].query : task[t].answer[o].version > task[t].inputs[o]}

\* The loop over the answer, a hash map: at the first superseded input it gives
\* up, with any of the others entered in the cache before.
CacheAnswer(t) ==
  /\ task[t].stage = "answered"
  /\ \E entered \in SUBSET (task[t].query \ Superseded(t)) :
       /\ Superseded(t) = {} => entered = task[t].query
       /\ cache' = [o \in Object |-> IF o \in entered THEN task[t].answer[o] ELSE cache[o]]
       /\ IF Superseded(t) = {}
            THEN Becomes(t, [task[t] EXCEPT
                   !.stage = "filtered",
                   !.owned = @ \cup {o \in entered : task[t].answer[o].addressOwned}])
            ELSE End(t)
  /\ UNCHANGED <<history, locked>>

\* The check under the write lock, and the locks, in one critical section.
Lock_NotRechecked(t) ==
  /\ task[t].stage = "filtered"
  /\ locked' = locked \cup task[t].owned
  /\ Becomes(t, [task[t] EXCEPT !.stage = "locked", !.answer = <<>>])
  /\ UNCHANGED <<history, cache>>

Lock(t) ==
  /\ task[t].stage = "filtered"
  /\ IF task[t].owned \cap locked = {}
       THEN /\ locked' = locked \cup task[t].owned
            /\ Becomes(t, [task[t] EXCEPT !.stage = "locked", !.answer = <<>>])
       ELSE End(t) /\ UNCHANGED locked
  /\ UNCHANGED <<history, cache>>

-----------------------------------------------------------------------------
(* Execution and release *)

\* The chain accepts inputs at their latest version that are address-owned or
\* immutable, and gives each address-owned one a new version.
Mutable(t) == {o \in DOMAIN task[t].inputs : history[o][Latest(o)] = "address"}

Execute(t) ==
  /\ task[t].stage = "locked"
  /\ \A o \in DOMAIN task[t].inputs :
       /\ task[t].inputs[o] = Latest(o)
       /\ history[o][Latest(o)] \in {"address", "immutable"}
       /\ history[o][Latest(o)] = "address" => Latest(o) < MaxVersion
  /\ \E owner \in [Mutable(t) -> Owner] :
       /\ history' = [o \in Object |-> IF o \in Mutable(t) THEN Append(history[o], owner[o])
                                        ELSE history[o]]
       /\ Becomes(t, [task[t] EXCEPT
            !.stage = "executed",
            !.answer = [o \in {m \in Mutable(t) : owner[m] # "deleted"} |->
                          [version |-> Latest(o) + 1, addressOwned |-> owner[o] = "address"]]])
  /\ UNCHANGED <<cache, locked>>

\* The guard is dropped whatever the outcome; the objects of this task are
\* removed from the table.
Drop_NotTheTable(t) == End(t) /\ UNCHANGED locked
Drop(t) == End(t) /\ locked' = locked \ task[t].owned

\* Signing or submission fails.  A transaction that lands all the same, after every attempt
\* to submit it got an error, is one of ChangeElsewhere.
Abort(t) == task[t].stage = "locked" /\ Drop(t) /\ UNCHANGED <<history, cache>>

\* update_cache_post_execution, then the guard is dropped.
UpdatedCache_VersionOfInput(t) ==
  [o \in Object |-> IF o \in DOMAIN task[t].answer
                      THEN [task[t].answer[o] EXCEPT !.version = task[t].inputs[o]]
                    ELSE cache[o]]
UpdatedCache(t) ==
  [o \in Object |-> IF o \in DOMAIN task[t].answer THEN task[t].answer[o] ELSE cache[o]]

Finish(t) ==
  /\ task[t].stage = "executed"
  /\ cache' = UpdatedCache(t)
  /\ Drop(t)
  /\ UNCHANGED history

-----------------------------------------------------------------------------
(* The rest of the world: transactions that are not sponsored here *)

ChangeElsewhere(o, owner) ==
  /\ history[o][Latest(o)] \in {"address", "other"}
  /\ Latest(o) < MaxVersion
  /\ history' = [history EXCEPT ![o] = Append(@, owner)]
  /\ UNCHANGED <<cache, locked, task>>

\* The cache is full and drops an entry.
Evict(o) ==
  /\ cache[o] # Nil
  /\ cache' = [cache EXCEPT ![o] = Nil]
  /\ UNCHANGED <<history, locked, task>>

\* Inputs are versions that exist or existed as an owned or immutable input.
Inputs ==
  {inputs \in UNION {[objects -> 1..MaxVersion] : objects \in SUBSET Object \ {{}}} :
     \A o \in DOMAIN inputs :
       inputs[o] <= Latest(o) /\ history[o][inputs[o]] \in {"address", "immutable"}}

Init ==
  /\ history \in [Object -> {<<owner>> : owner \in Owner \ {"deleted"}}]
  /\ cache = [o \in Object |-> Nil]
  /\ locked = {}
  /\ task = [t \in Task |-> Idle]

Progress(t) ==
  \/ Filter(t) \/ OwnersAnswer(t) \/ QueryFails(t) \/ CacheAnswer(t)
  \/ Lock(t) \/ Execute(t) \/ Abort(t) \/ Finish(t)

Next ==
  \/ \E t \in Task : Progress(t) \/ \E inputs \in Inputs : PreliminaryCheck(t, inputs)
  \/ \E o \in Object : Evict(o) \/ \E owner \in Owner : ChangeElsewhere(o, owner)

Spec == Init /\ [][Next]_vars

-----------------------------------------------------------------------------
(* Properties *)

TypeOK ==
  /\ history \in [Object -> Seq(Owner)]
  /\ \A o \in Object : Latest(o) \in 1..MaxVersion
  /\ cache \in [Object -> Entry \cup {Nil}]
  /\ locked \subseteq Object
  /\ task \in [Task -> TaskState]

\* The table holds exactly the objects of live guards, and no object is in two
\* guards: a guard that is dropped frees nobody else's object, and none stays
\* locked without an owner.
TableMatchesGuards ==
  /\ locked = UNION {Holds(t) : t \in Task}
  /\ \A t, u \in Task : Holds(t) \cap Holds(u) # {} => t = u

\* The purpose of the locks: of the transactions this server may submit at a time,
\* no two spend the same live version of an address-owned object.
Spends(t) ==
  IF task[t].stage # "locked" THEN {}
  ELSE {o \in Mutable(t) : task[t].inputs[o] = Latest(o)}

NoEquivocation == \A t, u \in Task : Spends(t) \cap Spends(u) # {} => t = u

\* A cache entry is never wrong about the version it names, however late and in
\* whatever order answers and effects are entered.
CacheSound ==
  \A o \in Object : cache[o] # Nil =>
    cache[o].version <= Latest(o) /\ cache[o] = EntryAt(o, cache[o].version)

\* "version is the last seen version of the object": an entry is never overwritten
\* by one of an older version.
CacheKeepsLastSeen ==
  [][\A o \in Object : cache[o] # Nil /\ cache'[o] # Nil =>
       cache'[o].version >= cache[o].version]_vars

\* The manager is a table of exclusive locks, although it looks at the table twice
\* and waits for the fullnode in between.
Locks == INSTANCE ExclusiveLocks WITH holds <- [t \in Task |-> Holds(t)]

ImplementsLocks == Locks!Spec
=============================================================================
