---------------------------- MODULE EdWavefront ------------------------------
(***************************************************************************)
(* Error-diffusion tiles (crates/engine-tiles/src/ed.rs: EdFrontier;       *)
(* src-tauri/src/state/ed_strip_gate.rs; the strip part of                 *)
(* compute_processed_tile and the parking in src-tauri/src/worker.rs).     *)
(* A tile of an error-diffusion layer needs its left, upper and diagonal   *)
(* neighbour; a task that comes too early parks on what it misses.  A row  *)
(* is computed and published as one strip by the one worker that owns its  *)
(* gate, which then wakes what is parked.  One layer, one generation, all  *)
(* Raw tiles present; a key stands for its Processed tile and its task.    *)
(***************************************************************************)
EXTENDS Integers, Sequences, FiniteSets

CONSTANTS
    Cols, Rows,     \* the layer in tiles
    Evicted,        \* the sets of tiles that may already be fresh
    MaxSchedules,   \* bound on schedule_ed_for_viewport
    Workers,
    None

Keys == (0..Cols - 1) \X (0..Rows - 1)

ASSUME WavefrontAssumption ==
    /\ Cols \in Nat \ {0} /\ Rows \in Nat \ {0}
    /\ Evicted \subseteq SUBSET Keys
    /\ MaxSchedules \in Nat
    /\ None \notin Workers /\ None \notin Keys
    /\ \A deps \in SUBSET Keys : deps # None

VARIABLES
    fresh,          \* the Processed tiles that are tile_fresh
    queued,         \* the keys pending in the scheduler
    waiting_on,     \* EdFrontier: dependency -> parked keys
    blocked,        \* EdFrontier: parked key -> its dependencies
    gate,           \* per row, the owner of its EdStripGate
    schedules,
    let_go,         \* the tasks whose worker forgot them
    pc, task,       \* each worker and the task it took
    frames,         \* the compute calls it is in: key and next upper column
    parking,        \* the block_on call it is in: key, dependencies, caller
    column,         \* the column of the strip it publishes or wakes for
    waiters,        \* what wake still has to look at
    dependents,     \* what wake_after_processed still has to look at
    ready           \* the tasks it will enqueue

frontierVars == <<waiting_on, blocked>>
stripVars == <<frames, column, waiters, dependents, ready>>
workerVars == <<pc, task, parking, stripVars>>
vars == <<fresh, queued, frontierVars, gate, schedules, let_go, workerVars>>

NoPark == [key |-> None, deps |-> {}, caller |-> None]

Init ==
    /\ fresh \in Evicted
    /\ queued = Keys \ fresh
    /\ waiting_on = [k \in Keys |-> {}]
    /\ blocked = [k \in Keys |-> None]
    /\ gate = [y \in 0..Rows - 1 |-> None]
    /\ schedules = 0
    /\ let_go = {}
    /\ pc = [w \in Workers |-> "idle"]
    /\ task = [w \in Workers |-> None]
    /\ frames = [w \in Workers |-> <<>>]
    /\ parking = [w \in Workers |-> NoPark]
    /\ column = [w \in Workers |-> 0]
    /\ waiters = [w \in Workers |-> {}]
    /\ dependents = [w \in Workers |-> <<>>]
    /\ ready = [w \in Workers |-> {}]

(***************************************************************************)
(* Topology.                                                               *)
(***************************************************************************)
ed_dependency_keys(k) ==
    {<<k[1] - 1, k[2]>>, <<k[1], k[2] - 1>>, <<k[1] - 1, k[2] - 1>>} \intersect Keys

ed_dependent_keys(k) ==
    LET Inside(d) == IF d \in Keys THEN <<d>> ELSE <<>>
    IN  Inside(<<k[1] + 1, k[2]>>) \o Inside(<<k[1], k[2] + 1>>) \o Inside(<<k[1] + 1, k[2] + 1>>)

ed_ready(k) == ed_dependency_keys(k) \subseteq fresh
ed_missing_deps(k) == ed_dependency_keys(k) \ fresh
ed_strip_busy_deps(k) == {<<x, k[2]>> : x \in 0..Cols - 1} \ {k}

Goto(w, label) == pc' = [pc EXCEPT ![w] = label]
Park(w, key, deps, caller) ==
    parking' = [parking EXCEPT ![w] = [key |-> key, deps |-> deps, caller |-> caller]]

(***************************************************************************)
(* The viewport asks for its tiles: every key that is not fresh.           *)
(***************************************************************************)
Schedule ==
    /\ schedules < MaxSchedules
    /\ schedules' = schedules + 1
    /\ queued' = queued \union (Keys \ fresh)
    /\ UNCHANGED <<fresh, frontierVars, gate, let_go, workerVars>>

(***************************************************************************)
(* The worker loop.                                                        *)
(***************************************************************************)
Dequeue(w) ==
    /\ pc[w] = "idle"
    /\ \E k \in queued :
        /\ queued' = queued \ {k}
        /\ task' = [task EXCEPT ![w] = k]
    /\ Goto(w, "ready")
    /\ UNCHANGED <<fresh, frontierVars, gate, schedules, let_go, parking, stripVars>>

CheckReady(w) ==
    /\ pc[w] = "ready"
    /\ IF ed_ready(task[w])
       THEN /\ frames' = [frames EXCEPT ![w] = <<[key |-> task[w], up |-> 0]>>]
            /\ Goto(w, "enter")
            /\ UNCHANGED parking
       ELSE /\ Park(w, task[w], {}, "worker")
            /\ Goto(w, "missing")
            /\ UNCHANGED frames
    /\ UNCHANGED <<fresh, queued, frontierVars, gate, schedules, let_go, task,
                   column, waiters, dependents, ready>>

(***************************************************************************)
(* EdFrontier::block and block_on.  unblock_key takes the entry out of     *)
(* blocked and then, if it was there, out of every waiting_on set.         *)
(***************************************************************************)
Missing(w) ==
    /\ pc[w] = "missing"
    /\ parking' = [parking EXCEPT ![w].deps = ed_missing_deps(parking[w].key)]
    /\ Goto(w, "unblock")
    /\ UNCHANGED <<fresh, queued, frontierVars, gate, schedules, let_go, task, stripVars>>

UnblockKey(w, at, scrub, next) ==
    /\ pc[w] = at
    /\ blocked' = [blocked EXCEPT ![parking[w].key] = None]
    /\ Goto(w, IF blocked[parking[w].key] = None THEN next ELSE scrub)
    /\ UNCHANGED <<fresh, queued, waiting_on, gate, schedules, let_go, task, parking, stripVars>>

Scrub(w, at, next) ==
    /\ pc[w] = at
    /\ waiting_on' = [d \in Keys |-> waiting_on[d] \ {parking[w].key}]
    /\ Goto(w, next)
    /\ UNCHANGED <<fresh, queued, blocked, gate, schedules, let_go, task, parking, stripVars>>

Register(w) ==
    /\ pc[w] = "register"
    /\ parking[w].deps # {}
    /\ waiting_on' = [d \in Keys |->
            IF d \in parking[w].deps THEN waiting_on[d] \union {parking[w].key}
            ELSE waiting_on[d]]
    /\ Goto(w, "publish")
    /\ UNCHANGED <<fresh, queued, blocked, gate, schedules, let_go, task, parking, stripVars>>

NothingToWaitFor(w) ==
    /\ pc[w] = "register"
    /\ parking[w].deps = {}
    /\ Goto(w, "runnable")
    /\ UNCHANGED <<fresh, queued, frontierVars, gate, schedules, let_go, task, parking, stripVars>>

Publish(w) ==
    /\ pc[w] = "publish"
    /\ blocked' = [blocked EXCEPT ![parking[w].key] = parking[w].deps]
    /\ Goto(w, "recheck")
    /\ UNCHANGED <<fresh, queued, waiting_on, gate, schedules, let_go, task, parking, stripVars>>

\* Mutant: a dependency that came while the task parked is not noticed.
RecheckNever(w) ==
    /\ pc[w] = "recheck"
    /\ Goto(w, "parked")
    /\ UNCHANGED <<fresh, queued, frontierVars, gate, schedules, let_go, task, parking, stripVars>>

\* The lost-wake window: look at the dependencies once more.
Recheck(w) ==
    /\ pc[w] = "recheck"
    /\ Goto(w, IF parking[w].deps \subseteq fresh THEN "unpark" ELSE "parked")
    /\ UNCHANGED <<fresh, queued, frontierVars, gate, schedules, let_go, task, parking, stripVars>>

\* block_on returns to the worker loop or to the wake that called it.
LeaveBlockOn(w, caller) ==
    /\ parking[w].caller = caller
    /\ parking' = [parking EXCEPT ![w] = NoPark]
    /\ IF caller \in {"worker", "busy"}
       THEN Goto(w, "idle") /\ task' = [task EXCEPT ![w] = None]
       ELSE Goto(w, caller) /\ UNCHANGED task

\* Mutant: the worker keeps the task it has parked.
ParkedKept(w) ==
    /\ pc[w] = "parked"
    /\ parking' = [parking EXCEPT ![w] = NoPark]
    /\ Goto(w, IF parking[w].caller \in {"worker", "busy"} THEN "idle" ELSE parking[w].caller)
    /\ UNCHANGED <<fresh, queued, frontierVars, gate, schedules, let_go, task, stripVars>>

Parked(w) ==
    /\ pc[w] = "parked"
    /\ LeaveBlockOn(w, parking[w].caller)
    /\ UNCHANGED <<fresh, queued, frontierVars, gate, schedules, let_go, stripVars>>

\* The task can run at once.  The worker enqueues it,
RunnableAgain(w) ==
    /\ pc[w] = "runnable"
    /\ LeaveBlockOn(w, "worker")
    /\ queued' = queued \union {parking[w].key}
    /\ UNCHANGED <<fresh, frontierVars, gate, schedules, let_go, stripVars>>

\* or, after a busy strip, ignores the answer;
RunnableIgnored(w) ==
    /\ pc[w] = "runnable"
    /\ LeaveBlockOn(w, "busy")
    /\ let_go' = let_go \union {parking[w].key}
    /\ UNCHANGED <<fresh, queued, frontierVars, gate, schedules, stripVars>>

\* Mutant: a wake ignores it as well.
RunnableLost(w) ==
    /\ pc[w] = "runnable"
    /\ \E caller \in {"waiters", "dependents"} : LeaveBlockOn(w, caller)
    /\ UNCHANGED <<fresh, queued, frontierVars, gate, schedules, let_go, stripVars>>

\* a wake collects it.
RunnableWoken(w) ==
    /\ pc[w] = "runnable"
    /\ \E caller \in {"waiters", "dependents"} : LeaveBlockOn(w, caller)
    /\ ready' = [ready EXCEPT ![w] = @ \union {parking[w].key}]
    /\ UNCHANGED <<fresh, queued, frontierVars, gate, schedules, let_go,
                   frames, column, waiters, dependents>>

BlockOn(w) ==
    \/ Missing(w)
    \/ UnblockKey(w, "unblock", "scrub", "register")
    \/ Scrub(w, "scrub", "register")
    \/ Register(w)
    \/ NothingToWaitFor(w)
    \/ Publish(w)
    \/ Recheck(w)
    \/ UnblockKey(w, "unpark", "scrub_runnable", "runnable")
    \/ Scrub(w, "scrub_runnable", "runnable")
    \/ Parked(w)
    \/ RunnableAgain(w)
    \/ RunnableIgnored(w)
    \/ RunnableWoken(w)

(***************************************************************************)
(* compute_processed_tile of the innermost frame.                          *)
(***************************************************************************)
Top(w) == frames[w][Len(frames[w])]
Row(k) == k[2]
\* Mutant: an error leaves the gates of the calls it ends closed.
ReleaseNone(w) == UNCHANGED gate

\* An error ends every call the worker is in and drops their guards.
ReleaseAll(w) == gate' = [y \in DOMAIN gate |-> IF gate[y] = w THEN None ELSE gate[y]]

\* The call returns Ok: its guard, if any, is dropped.
ReturnOk(w) ==
    /\ frames' = [frames EXCEPT ![w] = SubSeq(@, 1, Len(@) - 1)]
    /\ gate' = IF gate[Row(Top(w).key)] = w
               THEN [gate EXCEPT ![Row(Top(w).key)] = None] ELSE gate
    /\ IF Len(frames[w]) = 1
       THEN Goto(w, "idle") /\ task' = [task EXCEPT ![w] = None]
       ELSE Goto(w, "above") /\ UNCHANGED task

\* EdDependenciesPending goes up through every call and the worker drops it.
DependenciesPending(w) ==
    /\ pc[w] = "enter"
    /\ ~ed_ready(Top(w).key)
    /\ ReleaseAll(w)
    /\ frames' = [frames EXCEPT ![w] = <<>>]
    /\ let_go' = let_go \union {task[w]}
    /\ task' = [task EXCEPT ![w] = None]
    /\ Goto(w, "idle")
    /\ UNCHANGED <<fresh, queued, frontierVars, schedules, parking,
                   column, waiters, dependents, ready>>

Enter(w) ==
    /\ pc[w] = "enter"
    /\ ed_ready(Top(w).key)
    /\ Goto(w, "claim")
    /\ UNCHANGED <<fresh, queued, frontierVars, gate, schedules, let_go, task, parking, stripVars>>

\* Another owner published the tile: before the claim, while waiting for the
\* gate, or just before it was claimed.
AlreadyFresh(w) ==
    /\ pc[w] \in {"claim", "claimed"}
    /\ Top(w).key \in fresh
    /\ ReturnOk(w)
    /\ UNCHANGED <<fresh, queued, frontierVars, schedules, let_go, parking,
                   column, waiters, dependents, ready>>

Claim(w) ==
    /\ pc[w] = "claim"
    /\ gate[Row(Top(w).key)] = None
    /\ gate' = [gate EXCEPT ![Row(Top(w).key)] = w]
    /\ Goto(w, "claimed")
    /\ UNCHANGED <<fresh, queued, frontierVars, schedules, let_go, task, parking, stripVars>>

\* The wait slices are over: EdStripBusy goes up through every call, and the
\* worker parks its task on the other tiles of the task's own row.
StripBusy(w) ==
    /\ pc[w] = "claim"
    /\ gate[Row(Top(w).key)] # None
    /\ ReleaseAll(w)
    /\ frames' = [frames EXCEPT ![w] = <<>>]
    /\ IF ed_strip_busy_deps(task[w]) = {}
       THEN /\ queued' = queued \union {task[w]}
            /\ task' = [task EXCEPT ![w] = None]
            /\ Goto(w, "idle")
            /\ UNCHANGED parking
       ELSE /\ Park(w, task[w], ed_strip_busy_deps(task[w]), "busy")
            /\ Goto(w, "unblock")
            /\ UNCHANGED <<queued, task>>
    /\ UNCHANGED <<fresh, frontierVars, schedules, let_go, column, waiters, dependents, ready>>

StartStrip(w) ==
    /\ pc[w] = "claimed"
    /\ Top(w).key \notin fresh
    /\ Goto(w, "above")
    /\ UNCHANGED <<fresh, queued, frontierVars, gate, schedules, let_go, task, parking, stripVars>>

\* The strip above must be finished first: a call of its own for each tile of
\* it that is not fresh, from the left.
Above(w) == {x \in Top(w).up..Cols - 1 : <<x, Row(Top(w).key) - 1>> \in Keys \ fresh}

ComputeAbove(w) ==
    /\ pc[w] = "above"
    /\ \E x \in Above(w) :
        /\ \A other \in Above(w) : x <= other
        /\ frames' = [frames EXCEPT ![w] =
            Append([@ EXCEPT ![Len(@)].up = x + 1],
                   [key |-> <<x, Row(Top(w).key) - 1>>, up |-> 0])]
    /\ Goto(w, "enter")
    /\ UNCHANGED <<fresh, queued, frontierVars, gate, schedules, let_go, task, parking,
                   column, waiters, dependents, ready>>

\* The row is computed; its tiles are published from the left.
ComputeStrip(w) ==
    /\ pc[w] = "above"
    /\ Above(w) = {}
    /\ column' = [column EXCEPT ![w] = 0]
    /\ Goto(w, "insert")
    /\ UNCHANGED <<fresh, queued, frontierVars, gate, schedules, let_go, task, parking,
                   frames, waiters, dependents, ready>>

Completed(w) == <<column[w], Row(Top(w).key)>>

Insert(w) ==
    /\ pc[w] = "insert"
    /\ fresh' = fresh \union {Completed(w)}
    /\ IF column[w] = Cols - 1
       THEN column' = [column EXCEPT ![w] = 0] /\ Goto(w, "wake")
       ELSE column' = [column EXCEPT ![w] = @ + 1] /\ UNCHANGED pc
    /\ UNCHANGED <<queued, frontierVars, gate, schedules, let_go, task, parking,
                   frames, waiters, dependents, ready>>

(***************************************************************************)
(* wake_ed_frontier_after_strip_batch: wake_after_processed for each tile  *)
(* of the row, then the ready tasks go to the scheduler.                   *)
(***************************************************************************)
Wake(w) ==
    /\ pc[w] = "wake"
    /\ waiters' = [waiters EXCEPT ![w] = waiting_on[Completed(w)]]
    /\ waiting_on' = [waiting_on EXCEPT ![Completed(w)] = {}]
    /\ Goto(w, "waiters")
    /\ UNCHANGED <<fresh, queued, blocked, gate, schedules, let_go, task, parking,
                   frames, column, dependents, ready>>

\* A parked key is runnable or parks again on what it still misses.
Reconsider(w, k, caller) ==
    IF blocked[k] = None THEN UNCHANGED <<pc, parking>>
    ELSE /\ Park(w, k, {}, caller)
         /\ Goto(w, IF ed_ready(k) THEN "unpark" ELSE "missing")

NextWaiter(w) ==
    /\ pc[w] = "waiters"
    /\ \E k \in waiters[w] :
        /\ waiters' = [waiters EXCEPT ![w] = @ \ {k}]
        /\ Reconsider(w, k, "waiters")
    /\ UNCHANGED <<fresh, queued, frontierVars, gate, schedules, let_go, task,
                   frames, column, dependents, ready>>

StartDependents(w) ==
    /\ pc[w] = "waiters"
    /\ waiters[w] = {}
    /\ dependents' = [dependents EXCEPT ![w] = ed_dependent_keys(Completed(w))]
    /\ Goto(w, "dependents")
    /\ UNCHANGED <<fresh, queued, frontierVars, gate, schedules, let_go, task, parking,
                   frames, column, waiters, ready>>

NextDependent(w) ==
    /\ pc[w] = "dependents"
    /\ dependents[w] # <<>>
    /\ dependents' = [dependents EXCEPT ![w] = Tail(@)]
    /\ Reconsider(w, Head(dependents[w]), "dependents")
    /\ UNCHANGED <<fresh, queued, frontierVars, gate, schedules, let_go, task,
                   frames, column, waiters, ready>>

NextCompleted(w) ==
    /\ pc[w] = "dependents"
    /\ dependents[w] = <<>>
    /\ column[w] < Cols - 1
    /\ column' = [column EXCEPT ![w] = @ + 1]
    /\ Goto(w, "wake")
    /\ UNCHANGED <<fresh, queued, frontierVars, gate, schedules, let_go, task, parking,
                   frames, waiters, dependents, ready>>

EnqueueReady(w) ==
    /\ pc[w] = "dependents"
    /\ dependents[w] = <<>>
    /\ column[w] = Cols - 1
    /\ queued' = queued \union ready[w]
    /\ ready' = [ready EXCEPT ![w] = {}]
    /\ column' = [column EXCEPT ![w] = 0]
    /\ ReturnOk(w)
    /\ UNCHANGED <<fresh, frontierVars, schedules, let_go, parking, waiters, dependents>>

Compute(w) ==
    \/ DependenciesPending(w)
    \/ Enter(w)
    \/ AlreadyFresh(w)
    \/ Claim(w)
    \/ StripBusy(w)
    \/ StartStrip(w)
    \/ ComputeAbove(w)
    \/ ComputeStrip(w)
    \/ Insert(w)
    \/ Wake(w)
    \/ NextWaiter(w)
    \/ StartDependents(w)
    \/ NextDependent(w)
    \/ NextCompleted(w)
    \/ EnqueueReady(w)

Worker(w) == Dequeue(w) \/ CheckReady(w) \/ BlockOn(w) \/ Compute(w)

Next == Schedule \/ \E w \in Workers : Worker(w)

Spec == Init /\ [][Next]_vars

-----------------------------------------------------------------------------
TypeOK ==
    /\ fresh \subseteq Keys
    /\ queued \subseteq Keys /\ let_go \subseteq Keys
    /\ waiting_on \in [Keys -> SUBSET Keys]
    /\ blocked \in [Keys -> (SUBSET Keys) \union {None}]
    /\ gate \in [0..Rows - 1 -> Workers \union {None}]
    /\ \A w \in Workers :
        /\ task[w] \in Keys \union {None}
        /\ (pc[w] = "idle") = (task[w] = None)
        /\ frames[w] \in Seq([key : Keys, up : 0..Cols])
        /\ waiters[w] \subseteq Keys /\ ready[w] \subseteq Keys

AtRest == queued = {} /\ \A w \in Workers : pc[w] = "idle"

\* A closed gate belongs to a worker that is in a call for a tile of that row:
\* however a call ends, nested or not, no gate stays closed behind it.
GatesMatchCalls ==
    \A y \in DOMAIN gate : gate[y] # None =>
        \E i \in 1..Len(frames[gate[y]]) : Row(frames[gate[y]][i].key) = y

\* A tile that is not fresh has its task queued, parked or in the hands of a
\* worker: between the scheduler, the frontier and the workers no task is lost,
\* but for those whose worker forgot them.
TaskSomewhere(k) ==
    \/ k \in queued
    \/ blocked[k] # None
    \/ \E w \in Workers :
        \/ task[w] = k
        \/ parking[w].key = k
        \/ k \in ready[w]
NothingDropped == \A k \in Keys \ (fresh \union let_go) : TaskSomewhere(k)

\* A parked task that could run is never left behind by the wakes, whatever a
\* publication and a park do to each other.  Excepted are the tasks that park
\* on their own row because a strip was busy.
CausalParkersWoken ==
    AtRest => \A k \in Keys :
        blocked[k] # None /\ ed_ready(k) => blocked[k] = ed_strip_busy_deps(k)

\* The comment on ed_strip_busy_deps: the owner inserts the whole row before
\* it wakes, so a task that parks on its siblings is unblocked.
BusyParkersWoken ==
    AtRest => \A k \in Keys :
        blocked[k] # None /\ ed_ready(k) => blocked[k] # ed_strip_busy_deps(k)

=============================================================================
