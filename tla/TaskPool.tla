------------------------------ MODULE TaskPool -------------------------------
(***************************************************************************)
(* What the scheduler promises its callers (crates/engine-tiles/src/       *)
(* scheduler.rs:1-5): one pending task per key, a submission is merged     *)
(* into it without ever lowering its generation or its priority, a worker  *)
(* takes a whole task at once and nobody else gets it.                     *)
(***************************************************************************)
EXTENDS Integers

CONSTANTS Keys, Tasks, Workers, Task, NoTask

VARIABLES
    pool,   \* the pending task of each key
    out     \* the task each worker was handed

poolVars == <<pool, out>>

Empty == [k \in Keys |-> NoTask]

Init ==
    /\ pool = Empty
    /\ out = [w \in Workers |-> NoTask]

\* The newer request decides the generations, the more urgent one the priority.
Absorbs(merged, old, t) ==
    /\ merged.key = t.key
    /\ IF t.generation > old.generation
       THEN merged.generation = t.generation /\ merged.layer_generation = t.layer_generation
       ELSE merged.generation = old.generation /\ merged.layer_generation = old.layer_generation
    /\ merged.priority \in {t.priority, old.priority}
    /\ merged.priority >= t.priority
    /\ merged.priority >= old.priority

Submit(t) ==
    /\ IF pool[t.key] = NoTask
       THEN pool' = [pool EXCEPT ![t.key] = t]
       ELSE \E merged \in [key : {t.key},
                           generation : {t.generation, pool[t.key].generation},
                           layer_generation : {t.layer_generation, pool[t.key].layer_generation},
                           priority : {t.priority, pool[t.key].priority}] :
                /\ Absorbs(merged, pool[t.key], t)
                /\ pool' = [pool EXCEPT ![t.key] = merged]
    /\ UNCHANGED out

Take(w, k) ==
    /\ out[w] = NoTask
    /\ pool[k] # NoTask
    /\ out' = [out EXCEPT ![w] = pool[k]]
    /\ pool' = [pool EXCEPT ![k] = NoTask]

Finish(w) ==
    /\ out' = [out EXCEPT ![w] = NoTask]
    /\ UNCHANGED pool

Clear == pool' = Empty /\ UNCHANGED out

Next ==
    \/ \E t \in Tasks : Submit(t)
    \/ \E w \in Workers, k \in Keys : Take(w, k)
    \/ \E w \in Workers : Finish(w)
    \/ Clear

Spec == Init /\ [][Next]_poolVars

\* No pending task waits for ever while workers come back for more.
FairSpec == Spec /\ \A k \in Keys : WF_poolVars(\E w \in Workers : Take(w, k))

=============================================================================
