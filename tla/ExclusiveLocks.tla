--------------------------- MODULE ExclusiveLocks ---------------------------
(***************************************************************************)
(* What the object locks promise: a task gets all the objects it asks for  *)
(* at once or none, and no object is in two tasks' hands.                  *)
(***************************************************************************)
CONSTANTS Task, Object

VARIABLE holds  \* the objects each task has locked

Init == holds = [t \in Task |-> {}]

Acquire(t, objects) ==
  /\ holds[t] = {}
  /\ \A u \in Task : holds[u] \cap objects = {}
  /\ holds' = [holds EXCEPT ![t] = objects]

Release(t) == holds' = [holds EXCEPT ![t] = {}]

Next == \E t \in Task : Release(t) \/ \E objects \in SUBSET Object : Acquire(t, objects)

Spec == Init /\ [][Next]_holds
=============================================================================
