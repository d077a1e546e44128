------------------------- MODULE ObjectLocksProofs -------------------------
(***************************************************************************)
(* Proofs about ObjectLocks for any number of tasks, objects and versions: *)
(* the lock table, the ownership cache, the absence of equivocation with a *)
(* fullnode that does not lag, and that the manager is a table of          *)
(* exclusive locks.                                                        *)
(***************************************************************************)
EXTENDS ObjectLocks, TLAPS

-----------------------------------------------------------------------------
(* The inductive invariant *)

Sound(o, entry) ==
  entry.version <= Latest(o) /\ entry = EntryAt(o, entry.version)

\* The inputs that are address-owned at the version given are known as owned as
\* far as the task got.
Decided(s) ==
  LET missed == {o \in DOMAIN s.inputs :
                   history[o][s.inputs[o]] = "address" /\ o \notin s.owned}
  IN  /\ s.stage \in {"asking", "answered"} => missed \subseteq s.query
      /\ s.stage \in {"filtered", "locked"} => missed = {}
      /\ s.stage = "answered" => \A o \in s.query : s.answer[o].version >= s.inputs[o]

TaskOK(s) ==
  /\ \A o \in DOMAIN s.inputs : s.inputs[o] <= Latest(o)
  /\ s.owned \subseteq DOMAIN s.inputs /\ s.query \subseteq DOMAIN s.inputs
  /\ \A o \in DOMAIN s.answer : Sound(o, s.answer[o])
  /\ s.stage = "answered" => DOMAIN s.answer = s.query
  /\ s.stage = "executed" => DOMAIN s.answer \subseteq DOMAIN s.inputs
  /\ s.stage = "idle" => s.owned = {} /\ s.query = {}
  /\ ~Lag => Decided(s)

LocksInv ==
  /\ TypeOK
  /\ TableMatchesGuards
  /\ CacheSound
  /\ \A t \in Task : TaskOK(task[t])

-----------------------------------------------------------------------------
(* Types *)

\* What belonging to TaskState means, without the union.
LEMMA TaskStateDef ==
  ASSUME NEW s
  PROVE  s \in TaskState <=>
           /\ s = [stage |-> s.stage, inputs |-> s.inputs, owned |-> s.owned,
                   query |-> s.query, answer |-> s.answer]
           /\ s.stage \in Stages
           /\ DOMAIN s.inputs \subseteq Object
           /\ s.inputs \in [DOMAIN s.inputs -> 1..MaxVersion]
           /\ s.owned \subseteq Object /\ s.query \subseteq Object
           /\ DOMAIN s.answer \subseteq Object
           /\ s.answer \in [DOMAIN s.answer -> Entry]
<1>1. ASSUME NEW f, NEW S
      PROVE  f \in UNION {[objects -> S] : objects \in SUBSET Object}
             <=> DOMAIN f \subseteq Object /\ f \in [DOMAIN f -> S]
  OBVIOUS
<1> QED BY <1>1 DEF TaskState

LEMMA IdleOK == Idle \in TaskState /\ TaskOK(Idle)
<1>1. DOMAIN <<>> = {} /\ <<>> \in [{} -> 1..MaxVersion] /\ <<>> \in [{} -> Entry]
  OBVIOUS
<1>2. /\ Idle.stage = "idle" /\ Idle.inputs = <<>> /\ Idle.owned = {} /\ Idle.query = {}
      /\ Idle.answer = <<>>
      /\ Idle = [stage |-> Idle.stage, inputs |-> Idle.inputs, owned |-> Idle.owned,
                 query |-> Idle.query, answer |-> Idle.answer]
  BY DEF Idle
<1>3. Idle \in TaskState
  BY <1>1, <1>2, TaskStateDef DEF Stages
<1>4. TaskOK(Idle)
  BY <1>1, <1>2 DEF TaskOK, Decided
<1> QED BY <1>3, <1>4

-----------------------------------------------------------------------------
(* History only grows *)

Grows ==
  /\ history' \in [Object -> Seq(Owner)]
  /\ \A o \in Object :
       /\ Latest(o)' \in 1..MaxVersion
       /\ Latest(o) <= Latest(o)'
       /\ \A v \in 1..Latest(o) : history'[o][v] = history[o][v]

LEMMA AppendGrows ==
  ASSUME TypeOK, NEW S \in SUBSET Object, NEW owner \in [S -> Owner],
         \A o \in S : Latest(o) < MaxVersion,
         history' = [o \in Object |-> IF o \in S THEN Append(history[o], owner[o])
                                       ELSE history[o]]
  PROVE  Grows /\ \A o \in S : Latest(o)' = Latest(o) + 1
                               /\ history'[o][Latest(o) + 1] = owner[o]
<1> USE LocksAssumption
<1>1. \A o \in Object : history[o] \in Seq(Owner) /\ Len(history[o]) \in 1..MaxVersion
  BY DEF TypeOK, Latest
<1>2. ASSUME NEW o \in S
      PROVE  /\ history'[o] \in Seq(Owner) /\ Len(history'[o]) = Len(history[o]) + 1
             /\ history'[o][Len(history[o]) + 1] = owner[o]
             /\ \A v \in 1..Len(history[o]) : history'[o][v] = history[o][v]
  <2>1. history'[o] = Append(history[o], owner[o]) /\ owner[o] \in Owner
    OBVIOUS
  <2> QED BY <2>1, <1>1
<1>3. \A o \in Object \ S : history'[o] = history[o]
  OBVIOUS
<1>4. history' \in [Object -> Seq(Owner)]
  BY <1>1, <1>2, <1>3
<1>5. \A o \in Object :
        /\ Len(history'[o]) \in 1..MaxVersion
        /\ Len(history[o]) <= Len(history'[o])
        /\ \A v \in 1..Len(history[o]) : history'[o][v] = history[o][v]
  BY <1>1, <1>2, <1>3 DEF Latest
<1> QED BY <1>2, <1>4, <1>5 DEF Grows, Latest

LEMMA UnchangedGrows ==
  ASSUME TypeOK, UNCHANGED history
  PROVE  Grows
BY LocksAssumption DEF TypeOK, Grows, Latest

\* What is sound stays sound.
LEMMA SoundStays ==
  ASSUME TypeOK, Grows, NEW o \in Object, NEW entry, entry.version \in 1..MaxVersion,
         Sound(o, entry)
  PROVE  Sound(o, entry)'
<1>1. Latest(o) \in 1..MaxVersion /\ Latest(o)' \in 1..MaxVersion
  BY DEF TypeOK, Grows
<1>2. history'[o][entry.version] = history[o][entry.version]
  BY <1>1, LocksAssumption DEF Grows, Sound
<1>3. entry.version <= Latest(o)'
  BY <1>1, LocksAssumption DEF Grows, Sound
<1> QED BY <1>2, <1>3 DEF Sound, EntryAt

LEMMA TaskStaysOK ==
  ASSUME TypeOK, Grows, NEW s \in TaskState, TaskOK(s)
  PROVE  TaskOK(s)'
<1>1. /\ DOMAIN s.inputs \subseteq Object /\ DOMAIN s.answer \subseteq Object
      /\ \A o \in DOMAIN s.inputs : s.inputs[o] \in 1..MaxVersion
      /\ \A o \in DOMAIN s.answer : s.answer[o].version \in 1..MaxVersion
  BY TaskStateDef DEF Entry
<1>2. \A o \in Object : Latest(o) \in 1..MaxVersion /\ Latest(o)' \in 1..MaxVersion
                        /\ Latest(o) <= Latest(o)'
  BY DEF TypeOK, Grows
<1>3. \A o \in DOMAIN s.inputs : s.inputs[o] <= Latest(o)'
                                 /\ history'[o][s.inputs[o]] = history[o][s.inputs[o]]
  BY <1>1, <1>2, LocksAssumption DEF TaskOK, Grows
<1>4. \A o \in DOMAIN s.answer : Sound(o, s.answer[o])'
  BY <1>1, SoundStays DEF TaskOK
<1>5. Decided(s) => Decided(s)'
  BY <1>3 DEF Decided
<1> QED BY <1>3, <1>4, <1>5 DEF TaskOK

-----------------------------------------------------------------------------
(* Steps.  Every step of a task replaces its state, may enter sound entries in *)
(* the cache, and takes what it now holds into the table.                      *)

Guarded(s) == IF s.stage \in {"locked", "executed"} THEN s.owned ELSE {}

LEMMA OtherTasksOK ==
  ASSUME LocksInv, Grows, NEW u \in Task, task'[u] = task[u]
  PROVE  TaskOK(task[u])'
<1>1. PICK v \in TaskState : v = task[u] /\ TaskOK(v)
  BY DEF LocksInv, TypeOK
<1>2. TaskOK(v)'
  BY <1>1, TaskStaysOK DEF LocksInv
<1>3. task'[u] = v
  BY <1>1
<1> QED BY <1>2, <1>3 DEF TaskOK, Decided

LEMMA CacheStaysSound ==
  ASSUME LocksInv, Grows,
         NEW c \in [Object -> Entry \cup {Nil}], cache' = c,
         \A o \in Object : c[o] = cache[o] \/ (c[o] # Nil /\ Sound(o, c[o])')
  PROVE  CacheSound'
<1> SUFFICES ASSUME NEW o \in Object, c[o] # Nil
             PROVE  Sound(o, c[o])'
  BY DEF CacheSound, Sound
<1>1. c[o].version \in 1..MaxVersion
  BY DEF Entry
<1>2. CASE c[o] = cache[o]
  BY <1>1, <1>2, SoundStays DEF LocksInv, CacheSound, Sound
<1>3. CASE Sound(o, c[o])'
  BY <1>3
<1> QED BY <1>2, <1>3

LEMMA TableStays ==
  ASSUME TableMatchesGuards, NEW t \in Task, NEW S,
         \A u \in Task \ {t} : Holds(u)' = Holds(u),
         Holds(t)' = S, locked' = (locked \ Holds(t)) \cup S,
         \A u \in Task \ {t} : S \cap Holds(u) = {}
  PROVE  TableMatchesGuards'
<1> DEFINE H(u) == IF u = t THEN S ELSE Holds(u)
<1>1. \A u \in Task : Holds(u)' = H(u)
  OBVIOUS
<1>2. \A u, v \in Task : H(u) \cap H(v) # {} => u = v
  BY DEF TableMatchesGuards
<1>3. locked' = UNION {H(u) : u \in Task}
  BY DEF TableMatchesGuards
<1>4. UNION {H(u) : u \in Task} = UNION {Holds(u)' : u \in Task}
  BY <1>1
<1> HIDE DEF H
<1> QED BY <1>1, <1>2, <1>3, <1>4 DEF TableMatchesGuards

LEMMA TaskStep ==
  ASSUME LocksInv, Grows,
         NEW t \in Task, NEW s \in TaskState, TaskOK(s)', task' = [task EXCEPT ![t] = s],
         NEW c \in [Object -> Entry \cup {Nil}], cache' = c,
         \A o \in Object : c[o] = cache[o] \/ (c[o] # Nil /\ Sound(o, c[o])'),
         locked' = (locked \ Holds(t)) \cup Guarded(s),
         \A u \in Task \ {t} : Guarded(s) \cap Holds(u) = {}
  PROVE  LocksInv'
<1>1. /\ task' \in [Task -> TaskState] /\ task'[t] = s
      /\ \A u \in Task \ {t} : task'[u] = task[u]
  BY DEF LocksInv, TypeOK
<1>2. \A u \in Task : TaskOK(task[u])'
  <2>1. TaskOK(task[t])'
    BY <1>1 DEF TaskOK, Decided
  <2> QED BY <1>1, <2>1, OtherTasksOK
<1>3. CacheSound'
  BY CacheStaysSound
<1>4. TableMatchesGuards'
  <2>1. Holds(t)' = Guarded(s) /\ \A u \in Task \ {t} : Holds(u)' = Holds(u)
    BY <1>1 DEF Holds, Guarded
  <2> QED BY <2>1, TableStays DEF LocksInv
<1>5. TypeOK'
  <2>1. Guarded(s) \subseteq Object
    BY TaskStateDef DEF Guarded
  <2> QED BY <1>1, <2>1 DEF LocksInv, TypeOK, Grows
<1> QED BY <1>2, <1>3, <1>4, <1>5 DEF LocksInv

LEMMA TaskStepSameCache ==
  ASSUME LocksInv, Grows,
         NEW t \in Task, NEW s \in TaskState, TaskOK(s)', task' = [task EXCEPT ![t] = s],
         UNCHANGED cache,
         locked' = (locked \ Holds(t)) \cup Guarded(s),
         \A u \in Task \ {t} : Guarded(s) \cap Holds(u) = {}
  PROVE  LocksInv'
<1>1. PICK c \in [Object -> Entry \cup {Nil}] : c = cache
  BY DEF LocksInv, TypeOK
<1>2. cache' = c /\ \A o \in Object : c[o] = cache[o] \/ (c[o] # Nil /\ Sound(o, c[o])')
  BY <1>1
<1> QED BY <1>2, TaskStep

\* A task that ends without locks.
LEMMA EndKeepsInv ==
  ASSUME LocksInv, NEW t \in Task, End(t), UNCHANGED history,
         NEW c \in [Object -> Entry \cup {Nil}], cache' = c,
         \A o \in Object : c[o] = cache[o] \/ (c[o] # Nil /\ Sound(o, c[o])'),
         locked' = locked \ Holds(t)
  PROVE  LocksInv'
<1>1. Grows
  BY UnchangedGrows DEF LocksInv
<1>2. TaskOK(Idle)'
  BY IdleOK DEF TaskOK, Decided, Sound, EntryAt, Latest
<1>3. Guarded(Idle) = {}
  BY DEF Guarded, Idle
<1> HIDE DEF Idle
<1> QED BY <1>1, <1>2, <1>3, IdleOK, TaskStep DEF End, Becomes

\* A step that leaves the chain and the table alone, of a task that holds nothing.
LEMMA QuietStep ==
  ASSUME LocksInv, UNCHANGED <<history, locked>>,
         NEW t \in Task, Holds(t) = {},
         NEW s \in TaskState, TaskOK(s), Guarded(s) = {}, Becomes(t, s),
         NEW c \in [Object -> Entry \cup {Nil}], cache' = c,
         \A o \in Object : c[o] = cache[o] \/ (c[o] # Nil /\ Sound(o, c[o]))
  PROVE  LocksInv'
<1>1. Grows
  BY UnchangedGrows DEF LocksInv
<1>2. TaskOK(s)'
  BY <1>1, TaskStaysOK DEF LocksInv
<1>3. \A o \in Object : c[o] = cache[o] \/ (c[o] # Nil /\ Sound(o, c[o])')
  BY DEF Sound, EntryAt, Latest
<1>4. /\ locked' = (locked \ Holds(t)) \cup Guarded(s)
      /\ \A u \in Task \ {t} : Guarded(s) \cap Holds(u) = {}
  OBVIOUS
<1> QED BY <1>1, <1>2, <1>3, <1>4, TaskStep DEF Becomes

LEMMA QuietStepSameCache ==
  ASSUME LocksInv, UNCHANGED <<history, locked, cache>>,
         NEW t \in Task, Holds(t) = {},
         NEW s \in TaskState, TaskOK(s), Guarded(s) = {}, Becomes(t, s)
  PROVE  LocksInv'
<1>1. PICK c \in [Object -> Entry \cup {Nil}] : c = cache
  BY DEF LocksInv, TypeOK
<1>2. cache' = c /\ \A o \in Object : c[o] = cache[o] \/ (c[o] # Nil /\ Sound(o, c[o]))
  BY <1>1
<1> QED BY <1>2, QuietStep

LEMMA EndSameCache ==
  ASSUME LocksInv, UNCHANGED <<history, cache>>, NEW t \in Task, End(t),
         locked' = locked \ Holds(t)
  PROVE  LocksInv'
<1>1. PICK c \in [Object -> Entry \cup {Nil}] : c = cache
  BY DEF LocksInv, TypeOK
<1>2. cache' = c /\ \A o \in Object : c[o] = cache[o] \/ (c[o] # Nil /\ Sound(o, c[o])')
  BY <1>1
<1> QED BY <1>2, EndKeepsInv

LEMMA PreliminaryCheckKeepsInv ==
  ASSUME LocksInv, NEW t \in Task, NEW inputs \in Inputs, PreliminaryCheck(t, inputs)
  PROVE  LocksInv'
<1>1. PICK r \in TaskState : r = task[t] /\ TaskOK(r) /\ r.stage = "idle"
  BY DEF LocksInv, TypeOK, PreliminaryCheck
<1>2. PICK s : s = [r EXCEPT !.stage = "checked", !.inputs = inputs]
  OBVIOUS
<1>3. Becomes(t, s) /\ UNCHANGED <<history, cache, locked>>
  BY <1>1, <1>2 DEF PreliminaryCheck
<1>4. /\ DOMAIN inputs \subseteq Object /\ inputs \in [DOMAIN inputs -> 1..MaxVersion]
      /\ \A o \in DOMAIN inputs : inputs[o] <= Latest(o)
  BY DEF Inputs
<1>5. /\ s.stage = "checked" /\ s.inputs = inputs /\ s.owned = r.owned /\ s.query = r.query
      /\ s.answer = r.answer
      /\ s = [stage |-> s.stage, inputs |-> s.inputs, owned |-> s.owned,
              query |-> s.query, answer |-> s.answer]
  BY <1>1, <1>2 DEF TaskState
<1>6. s \in TaskState
  BY <1>1, <1>4, <1>5, TaskStateDef DEF Stages
<1>7. TaskOK(s)
  BY <1>1, <1>4, <1>5 DEF TaskOK, Decided
<1>8. Guarded(s) = {} /\ Holds(t) = {}
  BY <1>1, <1>5 DEF Guarded, Holds
<1> QED BY <1>3, <1>6, <1>7, <1>8, QuietStepSameCache

LEMMA FilterKeepsInv ==
  ASSUME LocksInv, NEW t \in Task, Filter(t)
  PROVE  LocksInv'
<1>1. PICK r \in TaskState : r = task[t] /\ TaskOK(r) /\ r.stage = "checked"
  BY DEF LocksInv, TypeOK, Filter
<1>2. Holds(t) = {} /\ UNCHANGED <<history, cache, locked>>
  BY <1>1 DEF Holds, Filter
<1>3. CASE End(t)
  BY <1>2, <1>3, EndSameCache
<1>4. CASE FilterCached(t)
  <2> DEFINE known == {o \in DOMAIN r.inputs : cache[o] # Nil /\ cache[o].version = r.inputs[o]}
             owned == {o \in known : cache[o].addressOwned}
             stage == IF known = DOMAIN r.inputs THEN "filtered" ELSE "asking"
  <2>1. PICK s : s = [r EXCEPT !.stage = stage, !.owned = owned,
                              !.query = DOMAIN r.inputs \ known]
    OBVIOUS
  <2>2. Becomes(t, s)
    BY <1>1, <1>4, <2>1 DEF FilterCached
  <2>3. /\ s.stage = stage /\ s.inputs = r.inputs /\ s.owned = owned
        /\ s.query = DOMAIN r.inputs \ known /\ s.answer = r.answer
        /\ s = [stage |-> s.stage, inputs |-> s.inputs, owned |-> s.owned,
                query |-> s.query, answer |-> s.answer]
    BY <2>1 DEF TaskState
  <2>4. s \in TaskState
    BY <2>3, TaskStateDef DEF Stages
  <2>5. \A o \in known : history[o][r.inputs[o]] = "address" => o \in owned
    <3> SUFFICES ASSUME NEW o \in known, history[o][r.inputs[o]] = "address"
                 PROVE  cache[o].addressOwned
      OBVIOUS
    <3>1. o \in Object /\ cache[o] = EntryAt(o, r.inputs[o])
      BY TaskStateDef DEF LocksInv, CacheSound
    <3>2. EntryAt(o, r.inputs[o]).addressOwned = (history[o][r.inputs[o]] = "address")
      BY DEF EntryAt
    <3> HIDE DEF known, owned, stage
    <3> QED BY <3>1, <3>2, Zenon
  <2>6. TaskOK(s)
    BY <1>1, <2>3, <2>5 DEF TaskOK, Decided
  <2>7. Guarded(s) = {}
    BY <2>3 DEF Guarded
  <2> QED BY <1>2, <2>2, <2>4, <2>6, <2>7, QuietStepSameCache
<1> QED BY <1>3, <1>4 DEF Filter

LEMMA AnswerKeepsInv ==
  ASSUME LocksInv, NEW t \in Task, OwnersAnswer(t)
  PROVE  LocksInv'
<1>1. PICK r \in TaskState : r = task[t] /\ TaskOK(r) /\ r.stage = "asking"
  BY DEF LocksInv, TypeOK, OwnersAnswer
<1>2. Holds(t) = {} /\ UNCHANGED <<history, cache, locked>>
  BY <1>1 DEF Holds, OwnersAnswer
<1>3. PICK seen \in [r.query -> 1..MaxVersion] :
        /\ \A o \in r.query : seen[o] <= Latest(o) /\ (~Lag => seen[o] = Latest(o))
        /\ Becomes(t, [r EXCEPT !.stage = "answered",
                                !.answer = [o \in r.query |-> EntryAt(o, seen[o])]])
  BY <1>1 DEF OwnersAnswer
<1>4. PICK answer : answer = [o \in r.query |-> EntryAt(o, seen[o])]
  OBVIOUS
<1>5. PICK s : s = [r EXCEPT !.stage = "answered", !.answer = answer]
  OBVIOUS
<1>6. /\ s.stage = "answered" /\ s.inputs = r.inputs /\ s.owned = r.owned
      /\ s.query = r.query /\ s.answer = answer
      /\ s = [stage |-> s.stage, inputs |-> s.inputs, owned |-> s.owned,
              query |-> s.query, answer |-> s.answer]
  BY <1>5 DEF TaskState
<1>7. \A o \in r.query : EntryAt(o, seen[o]) \in Entry /\ Sound(o, EntryAt(o, seen[o]))
                        /\ EntryAt(o, seen[o]).version = seen[o]
  BY <1>3 DEF EntryAt, Entry, Sound
<1>8. s \in TaskState
  BY <1>4, <1>6, <1>7, TaskStateDef DEF Stages
<1>9. ~Lag => \A o \in r.query : answer[o].version >= r.inputs[o]
  <2> SUFFICES ASSUME ~Lag, NEW o \in r.query
               PROVE  answer[o].version >= r.inputs[o]
    OBVIOUS
  <2>1. o \in DOMAIN r.inputs /\ o \in Object
    BY <1>1, TaskStateDef DEF TaskOK
  <2>2. r.inputs[o] <= Latest(o) /\ r.inputs[o] \in 1..MaxVersion /\ Latest(o) \in 1..MaxVersion
    BY <1>1, <2>1, TaskStateDef DEF TaskOK, LocksInv, TypeOK
  <2>3. answer[o].version = Latest(o)
    BY <1>3, <1>4, <1>7
  <2> QED BY <2>2, <2>3, LocksAssumption
<1>10. TaskOK(s)
  BY <1>1, <1>4, <1>6, <1>7, <1>9 DEF TaskOK, Decided
<1>11. Guarded(s) = {} /\ Becomes(t, s)
  BY <1>3, <1>4, <1>5, <1>6 DEF Guarded
<1> QED BY <1>2, <1>8, <1>10, <1>11, QuietStepSameCache

LEMMA CacheAnswerKeepsInv ==
  ASSUME LocksInv, NEW t \in Task, CacheAnswer(t)
  PROVE  LocksInv'
<1>1. PICK r \in TaskState : r = task[t] /\ TaskOK(r) /\ r.stage = "answered"
  BY DEF LocksInv, TypeOK, CacheAnswer
<1>2. Holds(t) = {} /\ UNCHANGED <<history, locked>>
  BY <1>1 DEF Holds, CacheAnswer
<1>3. PICK old : old = Superseded(t) /\ old = {o \in r.query : r.answer[o].version > r.inputs[o]}
  BY <1>1 DEF Superseded
<1>4. PICK entered \in SUBSET (r.query \ old) :
        /\ old = {} => entered = r.query
        /\ cache' = [o \in Object |-> IF o \in entered THEN r.answer[o] ELSE cache[o]]
        /\ old # {} => End(t)
        /\ old = {} => Becomes(t, [r EXCEPT
             !.stage = "filtered",
             !.owned = r.owned \cup {o \in entered : r.answer[o].addressOwned}])
  <2>1. PICK entered \in SUBSET (task[t].query \ old) :
          /\ old = {} => entered = task[t].query
          /\ cache' = [o \in Object |-> IF o \in entered THEN task[t].answer[o] ELSE cache[o]]
          /\ old # {} => End(t)
          /\ old = {} => Becomes(t, [task[t] EXCEPT
               !.stage = "filtered",
               !.owned = task[t].owned \cup {o \in entered : task[t].answer[o].addressOwned}])
    BY <1>3, Zenon DEF CacheAnswer
  <2> QED BY <1>1, <2>1, Zenon
<1>5. /\ r.query \subseteq Object /\ DOMAIN r.answer = r.query /\ r.query \subseteq DOMAIN r.inputs
      /\ \A o \in r.query : r.answer[o] \in Entry /\ Sound(o, r.answer[o])
  BY <1>1, TaskStateDef DEF TaskOK
<1>6. \A o \in r.query : r.answer[o] # Nil
  BY <1>5, LocksAssumption DEF Entry
<1>7. PICK c : c = [o \in Object |-> IF o \in entered THEN r.answer[o] ELSE cache[o]]
  OBVIOUS
<1>8. /\ c \in [Object -> Entry \cup {Nil}] /\ cache' = c
      /\ \A o \in Object : c[o] = cache[o] \/ (c[o] # Nil /\ Sound(o, c[o]))
  BY <1>4, <1>5, <1>6, <1>7 DEF LocksInv, TypeOK
<1>9. CASE old # {}
  <2>1. \A o \in Object : c[o] = cache[o] \/ (c[o] # Nil /\ Sound(o, c[o])')
    BY <1>2, <1>8 DEF Sound, EntryAt, Latest
  <2> QED BY <1>2, <1>4, <1>8, <1>9, <2>1, EndKeepsInv
<1>10. CASE old = {}
  <2> DEFINE owned == r.owned \cup {o \in r.query : r.answer[o].addressOwned}
  <2>1. PICK s : s = [r EXCEPT !.stage = "filtered", !.owned = owned]
    OBVIOUS
  <2>2. Becomes(t, s)
    BY <1>4, <1>10, <2>1
  <2>3. /\ s.stage = "filtered" /\ s.inputs = r.inputs /\ s.owned = owned
        /\ s.query = r.query /\ s.answer = r.answer
        /\ s = [stage |-> s.stage, inputs |-> s.inputs, owned |-> s.owned,
                query |-> s.query, answer |-> s.answer]
    BY <2>1 DEF TaskState
  <2>4. s \in TaskState
    BY <1>5, <2>3, TaskStateDef DEF Stages
  <2>5. ASSUME ~Lag, NEW o \in r.query, history[o][r.inputs[o]] = "address"
        PROVE  o \in owned
    <3>1. r.answer[o].version = r.inputs[o]
      <4>1. r.answer[o].version \in Int /\ r.inputs[o] \in Int
        BY <1>5, TaskStateDef DEF Entry
      <4>2. r.answer[o].version >= r.inputs[o] /\ ~(r.answer[o].version > r.inputs[o])
        BY <1>1, <1>10, <1>3, <2>5 DEF TaskOK, Decided
      <4> QED BY <4>1, <4>2
    <3>2. r.answer[o] = EntryAt(o, r.inputs[o])
      BY <1>5, <3>1 DEF Sound
    <3>3. EntryAt(o, r.inputs[o]).addressOwned = (history[o][r.inputs[o]] = "address")
      BY DEF EntryAt
    <3>4. r.answer[o].addressOwned
      BY <2>5, <3>2, <3>3, Zenon
    <3> QED BY <3>4
  <2>6. TaskOK(s)
    BY <1>1, <1>5, <2>3, <2>5 DEF TaskOK, Decided
  <2>7. Guarded(s) = {}
    BY <2>3 DEF Guarded
  <2> QED BY <1>2, <1>8, <2>2, <2>4, <2>6, <2>7, QuietStep
<1> QED BY <1>9, <1>10

LEMMA LockKeepsInv ==
  ASSUME LocksInv, NEW t \in Task, Lock(t)
  PROVE  LocksInv'
<1>1. PICK r \in TaskState : r = task[t] /\ TaskOK(r) /\ r.stage = "filtered"
  BY DEF LocksInv, TypeOK, Lock
<1>2. Holds(t) = {} /\ UNCHANGED <<history, cache>>
  BY <1>1 DEF Holds, Lock
<1>3. CASE End(t) /\ UNCHANGED locked
  BY <1>2, <1>3, EndSameCache
<1>4. CASE r.owned \cap locked = {} /\ locked' = locked \cup r.owned
           /\ Becomes(t, [r EXCEPT !.stage = "locked", !.answer = <<>>])
  <2>1. PICK s : s = [r EXCEPT !.stage = "locked", !.answer = <<>>]
    OBVIOUS
  <2>2. /\ s.stage = "locked" /\ s.inputs = r.inputs /\ s.owned = r.owned
        /\ s.query = r.query /\ s.answer = <<>>
        /\ s = [stage |-> s.stage, inputs |-> s.inputs, owned |-> s.owned,
                query |-> s.query, answer |-> s.answer]
    BY <2>1 DEF TaskState
  <2>3. DOMAIN <<>> = {} /\ <<>> \in [{} -> Entry]
    OBVIOUS
  <2>4. s \in TaskState
    BY <2>2, <2>3, TaskStateDef DEF Stages
  <2>5. TaskOK(s)
    BY <1>1, <2>2, <2>3 DEF TaskOK, Decided
  <2>6. Grows
    BY <1>2, UnchangedGrows DEF LocksInv
  <2>7. TaskOK(s)'
    BY <2>4, <2>5, <2>6, TaskStaysOK DEF LocksInv
  <2>8. Guarded(s) = r.owned
    BY <2>2 DEF Guarded
  <2>9. \A u \in Task \ {t} : Guarded(s) \cap Holds(u) = {}
    BY <1>4, <2>8 DEF LocksInv, TableMatchesGuards
  <2> QED BY <1>2, <1>4, <2>1, <2>4, <2>6, <2>7, <2>8, <2>9, TaskStepSameCache DEF Becomes
<1> QED BY <1>1, <1>3, <1>4 DEF Lock

LEMMA ExecuteKeepsInv ==
  ASSUME LocksInv, NEW t \in Task, Execute(t)
  PROVE  LocksInv'
<1>1. PICK r \in TaskState : r = task[t] /\ TaskOK(r) /\ r.stage = "locked"
  BY DEF LocksInv, TypeOK, Execute
<1>2. Holds(t) = r.owned /\ UNCHANGED <<cache, locked>>
  BY <1>1 DEF Holds, Execute
<1>3. PICK S \in SUBSET Object : S = Mutable(t) /\ S \subseteq DOMAIN r.inputs
  BY <1>1, TaskStateDef DEF Mutable
<1>4. \A o \in S : Latest(o) < MaxVersion
  BY <1>1, <1>3 DEF Execute, Mutable
<1>5. PICK owner \in [S -> Owner] :
        /\ history' = [o \in Object |-> IF o \in S THEN Append(history[o], owner[o])
                                         ELSE history[o]]
        /\ Becomes(t, [r EXCEPT
             !.stage = "executed",
             !.answer = [o \in {m \in S : owner[m] # "deleted"} |->
                           [version |-> Latest(o) + 1, addressOwned |-> owner[o] = "address"]]])
  BY <1>1, <1>3 DEF Execute
<1>6. Grows /\ \A o \in S : Latest(o)' = Latest(o) + 1 /\ history'[o][Latest(o) + 1] = owner[o]
  BY <1>4, <1>5, AppendGrows DEF LocksInv
<1> DEFINE kept == {m \in S : owner[m] # "deleted"}
<1>7. PICK answer : answer = [o \in kept |-> [version |-> Latest(o) + 1,
                                              addressOwned |-> owner[o] = "address"]]
  OBVIOUS
<1>8. PICK s : s = [r EXCEPT !.stage = "executed", !.answer = answer]
  OBVIOUS
<1>9. /\ s.stage = "executed" /\ s.inputs = r.inputs /\ s.owned = r.owned
      /\ s.query = r.query /\ s.answer = answer
      /\ s = [stage |-> s.stage, inputs |-> s.inputs, owned |-> s.owned,
              query |-> s.query, answer |-> s.answer]
  BY <1>8 DEF TaskState
<1>10. \A o \in kept : answer[o] \in Entry /\ Sound(o, answer[o])'
  <2> SUFFICES ASSUME NEW o \in kept
               PROVE  answer[o] \in Entry /\ Sound(o, answer[o])'
    OBVIOUS
  <2>1. o \in Object /\ Latest(o) \in 1..MaxVersion /\ Latest(o)' \in 1..MaxVersion
        /\ Latest(o)' = Latest(o) + 1 /\ history'[o][Latest(o)'] = owner[o]
    BY <1>6 DEF LocksInv, TypeOK, Grows
  <2>2. answer[o] = [version |-> Latest(o)', addressOwned |-> owner[o] = "address"]
    BY <1>7, <2>1
  <2>3. answer[o].version = Latest(o)'
    BY <2>2
  <2>4. answer[o] = EntryAt(o, answer[o].version)'
    BY <2>1, <2>2, <2>3 DEF EntryAt
  <2>5. answer[o].version <= Latest(o)'
    BY <2>1, <2>3, LocksAssumption
  <2>6. answer[o] \in Entry
    BY <2>1, <2>2 DEF Entry
  <2> QED BY <2>4, <2>5, <2>6 DEF Sound
<1>11. DOMAIN answer = kept /\ kept \subseteq Object /\ kept \subseteq DOMAIN r.inputs
  BY <1>3, <1>7
<1>12. answer \in [DOMAIN answer -> Entry]
  BY <1>7, <1>10, <1>11
<1> HIDE DEF kept
<1>13. s \in TaskState
  BY <1>9, <1>11, <1>12, TaskStateDef DEF Stages
<1>14. TaskOK(s)'
  <2>1. TaskOK(r)'
    BY <1>1, <1>6, TaskStaysOK DEF LocksInv
  <2> QED BY <2>1, <1>9, <1>10, <1>11 DEF TaskOK, Decided
<1>15. Guarded(s) = Holds(t)
  BY <1>2, <1>9 DEF Guarded
<1>16. /\ locked' = (locked \ Holds(t)) \cup Guarded(s)
       /\ \A u \in Task \ {t} : Guarded(s) \cap Holds(u) = {}
  BY <1>2, <1>15 DEF LocksInv, TableMatchesGuards
<1>17. task' = [task EXCEPT ![t] = s]
  BY <1>5, <1>7, <1>8 DEF Becomes, kept
<1> QED BY <1>2, <1>6, <1>13, <1>14, <1>16, <1>17, TaskStepSameCache

LEMMA AbortKeepsInv ==
  ASSUME LocksInv, NEW t \in Task, Abort(t)
  PROVE  LocksInv'
BY EndSameCache DEF Abort, Drop, Holds

LEMMA FinishKeepsInv ==
  ASSUME LocksInv, NEW t \in Task, Finish(t)
  PROVE  LocksInv'
<1>1. PICK r \in TaskState : r = task[t] /\ TaskOK(r) /\ r.stage = "executed"
  BY DEF LocksInv, TypeOK, Finish
<1>2. /\ DOMAIN r.answer \subseteq Object
      /\ \A o \in DOMAIN r.answer : r.answer[o] \in Entry /\ Sound(o, r.answer[o])
  BY <1>1, TaskStateDef DEF TaskOK
<1>3. PICK c : c = [o \in Object |-> IF o \in DOMAIN r.answer THEN r.answer[o] ELSE cache[o]]
  OBVIOUS
<1>4. cache' = c /\ UNCHANGED history /\ End(t) /\ locked' = locked \ Holds(t)
  BY <1>1, <1>3 DEF Finish, UpdatedCache, Drop, Holds
<1>5. \A o \in DOMAIN r.answer : r.answer[o] # Nil
  BY <1>2, LocksAssumption DEF Entry
<1>6. /\ c \in [Object -> Entry \cup {Nil}]
      /\ \A o \in Object : c[o] = cache[o] \/ (c[o] # Nil /\ Sound(o, c[o]))
  BY <1>2, <1>3, <1>5 DEF LocksInv, TypeOK
<1>7. \A o \in Object : c[o] = cache[o] \/ (c[o] # Nil /\ Sound(o, c[o])')
  BY <1>4, <1>6 DEF Sound, EntryAt, Latest
<1> QED BY <1>4, <1>6, <1>7, EndKeepsInv

LEMMA ChangeElsewhereKeepsInv ==
  ASSUME LocksInv, NEW o \in Object, NEW owner \in Owner, ChangeElsewhere(o, owner)
  PROVE  LocksInv'
<1>1. UNCHANGED <<cache, locked, task>> /\ Latest(o) < MaxVersion
  BY DEF ChangeElsewhere
<1>2. PICK S \in SUBSET Object : S = {o}
  OBVIOUS
<1>3. PICK owners \in [S -> Owner] : owners[o] = owner
  <2>1. [x \in S |-> owner] \in [S -> Owner] /\ [x \in S |-> owner][o] = owner
    BY <1>2
  <2> QED BY <2>1
<1>4. history' = [x \in Object |-> IF x \in S THEN Append(history[x], owners[x]) ELSE history[x]]
  BY <1>2, <1>3 DEF ChangeElsewhere, LocksInv, TypeOK
<1>5. Grows
  BY <1>1, <1>2, <1>4, AppendGrows DEF LocksInv
<1>6. \A u \in Task : TaskOK(task[u])'
  BY <1>1, <1>5, OtherTasksOK
<1>7. PICK c \in [Object -> Entry \cup {Nil}] : c = cache
  BY DEF LocksInv, TypeOK
<1>8. CacheSound'
  <2>1. cache' = c /\ \A x \in Object : c[x] = cache[x] \/ (c[x] # Nil /\ Sound(x, c[x])')
    BY <1>1, <1>7
  <2> QED BY <1>5, <2>1, CacheStaysSound
<1>9. TableMatchesGuards'
  BY <1>1 DEF LocksInv, TableMatchesGuards, Holds
<1>10. TypeOK'
  BY <1>1, <1>5 DEF LocksInv, TypeOK, Grows
<1> QED BY <1>6, <1>8, <1>9, <1>10 DEF LocksInv

LEMMA EvictKeepsInv ==
  ASSUME LocksInv, NEW o \in Object, Evict(o)
  PROVE  LocksInv'
<1>1. UNCHANGED <<history, locked, task>> /\ cache' = [cache EXCEPT ![o] = Nil]
  BY DEF Evict
<1>2. cache' \in [Object -> Entry \cup {Nil}] /\ \A x \in Object : cache'[x] \in {cache[x], Nil}
  BY <1>1 DEF LocksInv, TypeOK
<1>3. CacheSound'
  BY <1>1, <1>2 DEF LocksInv, CacheSound, EntryAt, Latest
<1>4. TableMatchesGuards' /\ TypeOK'
  BY <1>1, <1>2 DEF LocksInv, TableMatchesGuards, Holds, TypeOK, Latest
<1>5. \A u \in Task : TaskOK(task[u])'
  BY <1>1 DEF LocksInv, TaskOK, Decided, Sound, EntryAt, Latest
<1> QED BY <1>3, <1>4, <1>5 DEF LocksInv

-----------------------------------------------------------------------------
(* The invariant *)

LEMMA InitInv == Init => LocksInv
<1> SUFFICES ASSUME Init PROVE LocksInv
  OBVIOUS
<1>1. /\ history \in [Object -> Seq(Owner)]
      /\ \A o \in Object : Latest(o) = 1
  <2>1. \A owner \in Owner : <<owner>> \in Seq(Owner) /\ Len(<<owner>>) = 1
    OBVIOUS
  <2>2. history \in [Object -> {<<owner>> : owner \in Owner \ {"deleted"}}]
    BY DEF Init
  <2>3. \A o \in Object : \E owner \in Owner : history[o] = <<owner>>
    BY <2>2
  <2>4. \A o \in Object : history[o] \in Seq(Owner) /\ Len(history[o]) = 1
    BY <2>1, <2>3
  <2> QED BY <2>2, <2>4 DEF Latest
<1>2. \A t \in Task : task[t] = Idle /\ Holds(t) = {}
  BY DEF Init, Holds, Idle
<1>3. TypeOK
  BY <1>1, IdleOK, LocksAssumption DEF Init, TypeOK
<1>4. \A t \in Task : TaskOK(task[t])
  BY <1>2, IdleOK
<1>5. TableMatchesGuards
  BY <1>2 DEF Init, TableMatchesGuards
<1>6. CacheSound
  BY DEF Init, CacheSound
<1> QED BY <1>3, <1>4, <1>5, <1>6 DEF LocksInv

LEMMA StepInv == LocksInv /\ [Next]_vars => LocksInv'
<1> SUFFICES ASSUME LocksInv, [Next]_vars PROVE LocksInv'
  OBVIOUS
<1>1. CASE \E t \in Task : Progress(t)
  <2> PICK t \in Task : Progress(t)
    BY <1>1
  <2>1. CASE QueryFails(t)
    <3>1. Holds(t) = {} /\ UNCHANGED <<history, cache, locked>> /\ End(t)
      BY <2>1 DEF QueryFails, Holds
    <3> QED BY <3>1, EndSameCache
  <2> QED BY <2>1, FilterKeepsInv, AnswerKeepsInv, CacheAnswerKeepsInv, LockKeepsInv,
             ExecuteKeepsInv, AbortKeepsInv, FinishKeepsInv DEF Progress
<1>2. CASE \E t \in Task : \E inputs \in Inputs : PreliminaryCheck(t, inputs)
  BY <1>2, PreliminaryCheckKeepsInv
<1>3. CASE \E o \in Object, owner \in Owner : ChangeElsewhere(o, owner)
  BY <1>3, ChangeElsewhereKeepsInv
<1>4. CASE UNCHANGED vars
  BY <1>4 DEF vars, LocksInv, TypeOK, TableMatchesGuards, CacheSound, TaskOK, Decided, Sound,
              EntryAt, Latest, Holds
<1>5. CASE \E o \in Object : Evict(o)
  BY <1>5, EvictKeepsInv
<1> QED BY <1>1, <1>2, <1>3, <1>4, <1>5 DEF Next

\* Everything the proofs below rest on: the types, that the table is the disjoint
\* union of the guards (object_locks.rs:49-73, 94-130), that the cache tells the
\* truth, and what each task knows at each of its stages.
THEOREM LocksInvariant == Spec => []LocksInv
<1> QED BY InitInv, StepInv, PTL DEF Spec

-----------------------------------------------------------------------------
(* Theorems *)

\* The variables keep their types: versions in the cache and in the locals of the
\* tasks are versions that can exist.
THEOREM TypeCorrect == Spec => []TypeOK
<1>1. LocksInv => TypeOK
  BY DEF LocksInv
<1> QED BY <1>1, LocksInvariant, PTL

\* However the tasks' checks, queries and locks interleave, the table of
\* object_locks.rs holds exactly the objects of the live ObjectLocks guards, each in
\* one guard: dropping a guard (49-73) neither frees another task's object nor
\* leaves one locked for ever.
THEOREM TableIsTheGuards == Spec => []TableMatchesGuards
<1>1. LocksInv => TableMatchesGuards
  BY DEF LocksInv
<1> QED BY <1>1, LocksInvariant, PTL

\* A cache entry is true of the version it names, although answers and effects are
\* entered late and in any order (object_locks.rs:157-255).
THEOREM CacheIsSound == Spec => []CacheSound
<1>1. LocksInv => CacheSound
  BY DEF LocksInv
<1> QED BY <1>1, LocksInvariant, PTL

\* A task that holds its locks has locked every object it can spend.
LEMMA SpendsWhatItHolds ==
  ASSUME LocksInv, ~Lag, NEW t \in Task
  PROVE  Spends(t) \subseteq Holds(t)
<1>1. PICK r \in TaskState : r = task[t] /\ TaskOK(r)
  BY DEF LocksInv, TypeOK
<1>2. CASE r.stage = "locked"
  BY <1>1, <1>2 DEF Spends, Mutable, Holds, TaskOK, Decided
<1>3. CASE r.stage # "locked"
  BY <1>1, <1>3 DEF Spends
<1> QED BY <1>2, <1>3

\* With a fullnode that answers with the latest versions, two transactions that a
\* server may submit at the same time never spend the same version of an
\* address-owned object: the equivocation that object_locks.rs exists to prevent.
THEOREM NoEquivocationWithoutLag == ASSUME ~Lag PROVE Spec => []NoEquivocation
<1>1. LocksInv => NoEquivocation
  BY SpendsWhatItHolds DEF NoEquivocation, LocksInv, TableMatchesGuards
<1> QED BY <1>1, LocksInvariant, PTL

-----------------------------------------------------------------------------
(* Refinement *)

\* A step in which the holdings of the other tasks stay.
LEMMA HoldsStep ==
  ASSUME LocksInv, NEW t \in Task, NEW s, Becomes(t, s)
  PROVE  [u \in Task |-> Holds(u)]' = [[u \in Task |-> Holds(u)] EXCEPT ![t] = Guarded(s)]
<1>1. task'[t] = s /\ \A u \in Task \ {t} : task'[u] = task[u]
  BY DEF Becomes, LocksInv, TypeOK
<1>2. Holds(t)' = Guarded(s) /\ \A u \in Task \ {t} : Holds(u)' = Holds(u)
  BY <1>1 DEF Holds, Guarded
<1> QED BY <1>2

LEMMA EndReleases ==
  ASSUME LocksInv, NEW t \in Task, End(t)
  PROVE  Locks!Release(t)
<1>1. Guarded(Idle) = {}
  BY DEF Guarded, Idle
<1> QED BY <1>1, HoldsStep DEF End, Locks!Release

\* A step of a task whose guard stays what it is.
LEMMA QuietStutters ==
  ASSUME LocksInv, NEW t \in Task, NEW s, Becomes(t, s), Guarded(s) = Holds(t)
  PROVE  UNCHANGED [u \in Task |-> Holds(u)]
BY HoldsStep

\* Every step of the manager is a step of the table of exclusive locks or changes
\* nothing there.
LEMMA StepRefines ==
  ASSUME LocksInv, [Next]_vars
  PROVE  [Locks!Next]_[t \in Task |-> Holds(t)]
<1> DEFINE held == [t \in Task |-> Holds(t)]
<1>1. CASE \E t \in Task : Progress(t)
  <2> PICK t \in Task : Progress(t)
    BY <1>1
  <2>1. PICK r \in TaskState : r = task[t] /\ TaskOK(r)
    BY DEF LocksInv, TypeOK
  <2>2. CASE End(t)
    BY <2>2, EndReleases DEF Locks!Next
  <2>3. CASE FilterCached(t) /\ r.stage = "checked"
    <3>1. PICK stage, owned, query :
            /\ Becomes(t, [r EXCEPT !.stage = stage, !.owned = owned, !.query = query])
            /\ stage \in {"filtered", "asking"}
      BY <2>1, <2>3 DEF FilterCached
    <3>2. Guarded([r EXCEPT !.stage = stage, !.owned = owned, !.query = query]) = {}
      BY <3>1 DEF Guarded, TaskState
    <3> QED BY <2>1, <2>3, <3>1, <3>2, QuietStutters DEF Holds
  <2>4. CASE OwnersAnswer(t)
    <3>1. PICK answer : Becomes(t, [r EXCEPT !.stage = "answered", !.answer = answer])
      BY <2>1, <2>4 DEF OwnersAnswer
    <3>2. Guarded([r EXCEPT !.stage = "answered", !.answer = answer]) = {}
      BY DEF Guarded, TaskState
    <3> QED BY <2>4, <3>1, <3>2, QuietStutters DEF Holds, OwnersAnswer
  <2>5. CASE CacheAnswer(t) /\ ~End(t)
    <3>1. PICK owned : Becomes(t, [r EXCEPT !.stage = "filtered", !.owned = owned])
      BY <2>1, <2>5 DEF CacheAnswer
    <3>2. Guarded([r EXCEPT !.stage = "filtered", !.owned = owned]) = {}
      BY DEF Guarded, TaskState
    <3> QED BY <2>5, <3>1, <3>2, QuietStutters DEF Holds, CacheAnswer
  <2>6. CASE Lock(t) /\ ~End(t)
    <3>1. r.owned \cap locked = {} /\ Holds(t) = {}
          /\ Becomes(t, [r EXCEPT !.stage = "locked", !.answer = <<>>])
      BY <2>1, <2>6 DEF Lock, Holds
    <3>2. Guarded([r EXCEPT !.stage = "locked", !.answer = <<>>]) = r.owned
      BY DEF Guarded, TaskState
    <3>3. \A u \in Task : Holds(u) \cap r.owned = {}
      BY <3>1 DEF LocksInv, TableMatchesGuards
    <3>4. r.owned \in SUBSET Object
      BY <2>1, TaskStateDef
    <3>5. Locks!Acquire(t, r.owned)
      BY <3>1, <3>2, <3>3, HoldsStep DEF Locks!Acquire
    <3> QED BY <3>4, <3>5 DEF Locks!Next
  <2>7. CASE Execute(t)
    <3>1. PICK answer : Becomes(t, [r EXCEPT !.stage = "executed", !.answer = answer])
      BY <2>1, <2>7 DEF Execute
    <3>2. Guarded([r EXCEPT !.stage = "executed", !.answer = answer]) = r.owned
      BY DEF Guarded, TaskState
    <3> QED BY <2>1, <2>7, <3>1, <3>2, QuietStutters DEF Holds, Execute
  <2>8. CASE QueryFails(t) \/ Abort(t) \/ Finish(t)
    BY <2>2, <2>8 DEF QueryFails, Abort, Finish, Drop
  <2> QED BY <2>1, <2>2, <2>3, <2>4, <2>5, <2>6, <2>7, <2>8 DEF Progress, Filter
<1>2. CASE \E t \in Task : \E inputs \in Inputs : PreliminaryCheck(t, inputs)
  <2> PICK t \in Task, inputs \in Inputs : PreliminaryCheck(t, inputs)
    BY <1>2
  <2>1. PICK r \in TaskState : r = task[t] /\ r.stage = "idle"
    BY DEF LocksInv, TypeOK, PreliminaryCheck
  <2>2. Becomes(t, [r EXCEPT !.stage = "checked", !.inputs = inputs])
    BY <2>1 DEF PreliminaryCheck
  <2>3. Guarded([r EXCEPT !.stage = "checked", !.inputs = inputs]) = {}
    BY DEF Guarded, TaskState
  <2> QED BY <2>1, <2>2, <2>3, QuietStutters DEF Holds
<1>3. CASE UNCHANGED task
  BY <1>3 DEF Holds
<1> QED BY <1>1, <1>2, <1>3 DEF Next, ChangeElsewhere, Evict, vars

\* The lock manager implements a table of exclusive locks: a task gets all its
\* objects at once or none, although try_acquire_locks (object_locks.rs:94-130)
\* looks at the table, waits for the fullnode and only then locks.
THEOREM ManagerImplementsLocks == Spec => ImplementsLocks
<1>1. Init => Locks!Init
  BY DEF Init, Locks!Init, Holds, Idle
<1>2. LocksInv /\ [Next]_vars => [Locks!Next]_[t \in Task |-> Holds(t)]
  BY StepRefines
<1> QED BY <1>1, <1>2, LocksInvariant, PTL DEF Spec, ImplementsLocks, Locks!Spec
=============================================================================
