----------------------------- MODULE TileWorkers -----------------------------
(***************************************************************************)
(* src-tauri/src/worker.rs: the tile worker threads and the WorkerWake     *)
(* they sleep on, composed with the scheduler they take tasks from.  A     *)
(* producer notifies after its enqueue calls; a worker whose dequeue came  *)
(* back empty consumes the flag or sleeps on the condition variable.       *)
(***************************************************************************)
EXTENDS Scheduler

\* One worker per core, at least one (main.rs:450-459).
ASSUME WorkersAssumption == Workers # {}

VARIABLES
    has_tasks,      \* the Mutex<bool> of WorkerWake
    sleep,          \* where each worker is in wait(): "awake", "waiting", "woken"
    owes            \* the producers that enqueued and have not notified yet

wakeVars == <<has_tasks, sleep, owes>>
allVars == <<vars, wakeVars>>

WakeInit ==
    /\ Init
    /\ has_tasks = FALSE
    /\ sleep = [w \in Workers |-> "awake"]
    /\ owes = {}

(***************************************************************************)
(* Producers: any number of enqueue calls, then a notify.  A caller whose  *)
(* enqueue was rejected may notify as well, or leave it.                   *)
(***************************************************************************)
EnqueueStep(p) ==
    /\ Enqueue(p)
    /\ owes' = IF pc'[p] = "upsert" THEN owes \union {p} ELSE owes
    /\ UNCHANGED <<has_tasks, sleep>>

Sleepers == {w \in Workers : sleep[w] = "waiting"}

\* Mutant: the notify wakes a sleeper and does not leave the flag behind.
NotifyOneNoFlag(p) ==
    /\ pc[p] = "idle"
    /\ owes' = owes \ {p}
    /\ UNCHANGED has_tasks
    /\ IF Sleepers = {} THEN UNCHANGED sleep
       ELSE \E w \in Sleepers : sleep' = [sleep EXCEPT ![w] = "woken"]
    /\ UNCHANGED vars

\* Mutant: the notify raises the flag and wakes nobody.
NotifyOneNobody(p) ==
    /\ pc[p] = "idle"
    /\ owes' = owes \ {p}
    /\ has_tasks' = TRUE
    /\ UNCHANGED <<vars, sleep>>

\* Lock, raise the flag, wake one sleeper if there is any, unlock.
NotifyOne(p) ==
    /\ pc[p] = "idle"
    /\ owes' = owes \ {p}
    /\ has_tasks' = TRUE
    /\ IF Sleepers = {} THEN UNCHANGED sleep
       ELSE \E w \in Sleepers : sleep' = [sleep EXCEPT ![w] = "woken"]
    /\ UNCHANGED vars

NotifyAll(p) ==
    /\ pc[p] = "idle"
    /\ owes' = owes \ {p}
    /\ has_tasks' = TRUE
    /\ sleep' = [w \in Workers |-> IF w \in Sleepers THEN "woken" ELSE sleep[w]]
    /\ UNCHANGED vars

Producer(p) == EnqueueStep(p) \/ NotifyOne(p) \/ NotifyAll(p)

(***************************************************************************)
(* Workers: the loop of tile_worker_loop around dequeue and wait.          *)
(***************************************************************************)
DequeueStep(w) ==
    /\ StartDequeue(w) \/ Dequeue(w)
    /\ UNCHANGED wakeVars

\* The task is computed and the loop goes round.
TaskDone(w) ==
    /\ pc[w] = "got"
    /\ Return(w)
    /\ UNCHANGED wakeVars

\* Mutant: the woken worker is still on the list of sleepers.
ConsumeFlagStillWoken(w) ==
    /\ pc[w] = "none"
    /\ sleep[w] # "waiting"
    /\ has_tasks
    /\ has_tasks' = FALSE
    /\ Return(w)
    /\ UNCHANGED <<sleep, owes>>

\* wait() found the flag up, at once or after a wake-up: take it and go on.
ConsumeFlag(w) ==
    /\ pc[w] = "none"
    /\ sleep[w] # "waiting"
    /\ has_tasks
    /\ has_tasks' = FALSE
    /\ sleep' = [sleep EXCEPT ![w] = "awake"]
    /\ Return(w)
    /\ UNCHANGED owes

\* Mutant: a worker sleeps without looking at the flag first.
SleepUnchecked(w) ==
    /\ pc[w] = "none"
    /\ sleep[w] # "waiting"
    /\ sleep' = [sleep EXCEPT ![w] = "waiting"]
    /\ UNCHANGED <<vars, has_tasks, owes>>

\* wait() found the flag down, at once or after a wake-up: (back) to sleep.
Sleep(w) ==
    /\ pc[w] = "none"
    /\ sleep[w] # "waiting"
    /\ ~has_tasks
    /\ sleep' = [sleep EXCEPT ![w] = "waiting"]
    /\ UNCHANGED <<vars, has_tasks, owes>>

\* A condition variable may wake a sleeper without a notify.
SpuriousWake(w) ==
    /\ sleep[w] = "waiting"
    /\ sleep' = [sleep EXCEPT ![w] = "woken"]
    /\ UNCHANGED <<vars, has_tasks, owes>>

Worker(w) == DequeueStep(w) \/ TaskDone(w) \/ ConsumeFlag(w) \/ Sleep(w)

WakeNext ==
    \/ \E p \in Producers : Producer(p)
    \/ \E w \in Workers : Worker(w) \/ SpuriousWake(w)

\* A producer finishes the call it is in and then notifies; a worker that is
\* not asleep runs.  Nothing wakes a sleeper but a notify.
WakeFairness ==
    /\ \A p \in Producers :
        /\ WF_allVars(pc[p] # "idle" /\ EnqueueStep(p))
        /\ WF_allVars(p \in owes /\ NotifyOne(p))
    /\ \A w \in Workers : WF_allVars(Worker(w))

WakeSpec == WakeInit /\ [][WakeNext]_allVars
FairWakeSpec == WakeSpec /\ WakeFairness

-----------------------------------------------------------------------------
WakeTypeOK ==
    /\ TypeOK
    /\ has_tasks \in BOOLEAN
    /\ sleep \in [Workers -> {"awake", "waiting", "woken"}]
    /\ \A w \in Workers : sleep[w] # "awake" => pc[w] = "none"
    /\ owes \subseteq Producers

AnyPending == \E k \in Keys : IsPending(k)
Busy(w) == pc[w] # "none"
OnTheWayUp(w) == pc[w] = "none" /\ sleep[w] # "waiting"

\* A raised flag is never left with everybody asleep: the worker that will
\* see it is still running or already woken.  The flag and the notification
\* travel separately, so this is what makes the one flag enough for several
\* producers and several workers (worker.rs:42-80).
FlagHasTaker == has_tasks => \E w \in Workers : Busy(w) \/ OnTheWayUp(w)

\* No lost wake-up: with a task pending and no producer on its way to a
\* notify, some worker is running, or the flag is up (and has its taker).
\* The worker tests the scheduler and the flag at different times, the
\* producer changes them at different times (worker.rs:122-124, 652-656).
NoLostWakeup ==
    AnyPending /\ owes = {} => has_tasks \/ \E w \in Workers : Busy(w)

\* What makes the last two inductive.  A producer inside a call has a notify
\* ahead of it; a task that nobody is about to announce is still ahead of
\* some worker's scan.
ProducersOwe == \A p \in Producers : pc[p] # "idle" => p \in owes
NobodyClears == \A c \in Clearers : pc[c] = "idle"

StillAhead(w, k) ==
    \/ pc[w] \in {"idle", "remove", "sub", "got"}
    \/ pc[w] = "scan" /\ lane[w] >= pending[k].priority

ScanCovers ==
    \A k \in Keys : IsPending(k) /\ owes = {} =>
        has_tasks \/ \E w \in Workers : StillAhead(w, k)

WakeInv == ProducersOwe /\ NobodyClears /\ ScanCovers

\* With workers that sleep, every task submitted is still taken in the end
\* and the pool of the callers is still what TaskPool says: the scheduler's
\* promise does not rest on workers that poll.
PoolServed == Pool!FairSpec

=============================================================================
