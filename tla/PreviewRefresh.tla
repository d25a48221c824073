--------------------------- MODULE PreviewRefresh ----------------------------
(***************************************************************************)
(* src-tauri/src/commands/mod.rs: the refresh that follows a filter edit,  *)
(* and the "full-document-busy" chip.  The command thread asks for a       *)
(* refresh; while tasks are queued or in flight the request is stashed in  *)
(* one slot, and the worker that ends the last task drains it.  Nothing    *)
(* is locked as a whole: two loads decide "busy", counter and event are    *)
(* separate steps.  The tiles and their tasks are counted, not named: an   *)
(* old hint may lead a worker to a task its producer has not counted yet   *)
(* (Scheduler), so a worker takes any pending task.                        *)
(***************************************************************************)
EXTENDS Integers, FiniteSets

CONSTANTS
    Commands,       \* threads that run commands (the main thread)
    Workers,        \* tile worker threads
    Handlers,       \* threads that answer tile requests
    Layers,
    MaxRequests,    \* bound on edits
    MaxPulls,       \* bound on tasks the tile protocol enqueues
    MaxWave,        \* bound on tasks one refresh enqueues
    BusyModulus,    \* 2^w of the AtomicUsize full_document_busy
    QueueModulus,   \* 2^w of the scheduler's AtomicUsize queued_count
    NoRefresh       \* an empty slot

ASSUME PreviewAssumption ==
    /\ Commands \cap Workers = {} /\ Handlers \cap (Commands \union Workers) = {}
    /\ MaxRequests \in Nat /\ MaxPulls \in Nat /\ MaxWave \in Nat
    /\ BusyModulus \in Nat \ {0} /\ QueueModulus \in Nat \ {0}
    /\ NoRefresh \notin [layer_id : Layers, clear_residuals : BOOLEAN]

VARIABLES
    tasks,                      \* tasks in the scheduler's map
    queued,                     \* fetch_adds less fetch_subs of queued_count so far
    preview_pass_inflight,      \* AtomicUsize
    pending_preview_refresh,    \* Mutex<Option<PendingPreviewRefresh>>
    full_document_busy,         \* AtomicUsize
    timer,                      \* preview_refresh_timer is Some
    chip,                       \* the last busy value the frontend received
    stale,                      \* layers edited since their dither caches were cleared
    pc,
    refresh,                    \* the refresh a thread has in hand
    wave,                       \* tasks a thread's refresh has enqueued
    requests, pulls,            \* edits and pulls so far
    misled                      \* auxiliary: see LookAfterTask

queueVars == <<tasks, queued, wave, pulls>>
busyVars == <<full_document_busy, chip>>
requestVars == <<pending_preview_refresh, stale, refresh, requests>>
vars == <<queueVars, preview_pass_inflight, busyVars, timer, requestVars, pc, misled>>

Threads == Commands \union Workers \union Handlers
Refresh == [layer_id : Layers, clear_residuals : BOOLEAN]
Goto(t, label) == pc' = [pc EXCEPT ![t] = label]

Init ==
    /\ tasks = 0
    /\ queued = 0
    /\ preview_pass_inflight = 0
    /\ pending_preview_refresh = NoRefresh
    /\ full_document_busy = 0
    /\ timer = FALSE
    /\ chip = FALSE
    /\ stale = {}
    /\ pc = [t \in Threads |-> "idle"]
    /\ refresh = [t \in Threads |-> NoRefresh]
    /\ wave = [t \in Threads |-> 0]
    /\ requests = 0
    /\ pulls = 0
    /\ misled = FALSE

(***************************************************************************)
(* TileScheduler::enqueue inserts and then counts; dequeue removes and     *)
(* then discounts (scheduler.rs:113-118, 154-158).  An upsert into a       *)
(* pending task changes neither and is left out.                           *)
(***************************************************************************)
queued_len == queued % QueueModulus

Count(t, at, next) ==
    /\ pc[t] = at
    /\ queued' = queued + 1
    /\ Goto(t, next)
    /\ UNCHANGED <<tasks, wave, pulls, preview_pass_inflight, busyVars, timer, requestVars, misled>>

Discount(w) ==
    /\ pc[w] = "removed"
    /\ queued' = queued - 1
    /\ Goto(w, "taken")
    /\ UNCHANGED <<tasks, wave, pulls, preview_pass_inflight, busyVars, timer, requestVars, misled>>

\* preview_pass_busy: one load after the other; "busy" at the first hit.
LookInflight(t, at, busy, next) ==
    /\ pc[t] = at
    /\ Goto(t, IF preview_pass_inflight > 0 THEN busy ELSE next)
    /\ UNCHANGED <<queueVars, preview_pass_inflight, busyVars, timer, requestVars, misled>>

LookQueued(t, at, busy, idle) ==
    /\ pc[t] = at
    /\ Goto(t, IF queued_len > 0 THEN busy ELSE idle)
    /\ UNCHANGED <<queueVars, preview_pass_inflight, busyVars, timer, requestVars>>

(***************************************************************************)
(* The chip: the counter and the event it triggers are two steps.          *)
(***************************************************************************)
BeginBusy(t, at, first, next) ==
    /\ pc[t] = at
    /\ full_document_busy' = (full_document_busy + 1) % BusyModulus
    /\ Goto(t, IF full_document_busy = 0 THEN first ELSE next)
    /\ UNCHANGED <<queueVars, preview_pass_inflight, chip, timer, requestVars, misled>>

\* Mutant: a counter that goes below zero.
EndBusyUnwrapped(t, at, last, next) ==
    /\ pc[t] = at
    /\ full_document_busy' = full_document_busy - 1
    /\ Goto(t, IF full_document_busy = 1 THEN last ELSE next)
    /\ UNCHANGED <<queueVars, preview_pass_inflight, chip, timer, requestVars, misled>>

EndBusy(t, at, last, next) ==
    /\ pc[t] = at
    /\ full_document_busy' = (full_document_busy - 1) % BusyModulus
    /\ Goto(t, IF full_document_busy = 1 THEN last ELSE next)
    /\ UNCHANGED <<queueVars, preview_pass_inflight, chip, timer, requestVars, misled>>

Emit(t, at, busy, next) ==
    /\ pc[t] = at
    /\ chip' = busy
    /\ Goto(t, next)
    /\ UNCHANGED <<queueVars, preview_pass_inflight, full_document_busy, timer, requestVars, misled>>

(***************************************************************************)
(* request_preview_refresh, after the edit that asks for it.               *)
(***************************************************************************)
Request(c) ==
    /\ pc[c] = "idle"
    /\ requests < MaxRequests
    /\ requests' = requests + 1
    /\ \E r \in Refresh :
        /\ refresh' = [refresh EXCEPT ![c] = r]
        /\ stale' = IF r.clear_residuals THEN stale \union {r.layer_id} ELSE stale
    /\ Goto(c, "request")
    /\ UNCHANGED <<queueVars, preview_pass_inflight, busyVars, timer, pending_preview_refresh, misled>>

\* Mutant: the last request decides alone whether the caches are cleared.
CoalesceLatest(r, pending) == r

\* The latest layer wins; one request for a clear is enough for all.
Coalesce(r, pending) ==
    [r EXCEPT !.clear_residuals = @ \/ (pending # NoRefresh /\ pending.clear_residuals)]

Stash(c) ==
    /\ pc[c] = "stash"
    /\ pending_preview_refresh' = Coalesce(refresh[c], pending_preview_refresh)
    /\ refresh' = [refresh EXCEPT ![c] = NoRefresh]
    /\ Goto(c, "idle")
    /\ UNCHANGED <<queueVars, preview_pass_inflight, busyVars, timer, stale, requests, misled>>

Command(c) ==
    \/ Request(c)
    \/ LookInflight(c, "request", "stash", "request_queued")
    \/ LookQueued(c, "request_queued", "stash", "run") /\ UNCHANGED misled
    \/ Stash(c)

(***************************************************************************)
(* run_preview_refresh, on the command thread or on the draining worker.   *)
(***************************************************************************)
Invalidate(t) ==
    /\ pc[t] = "run"
    /\ stale' = IF refresh[t].clear_residuals THEN stale \ {refresh[t].layer_id} ELSE stale
    /\ Goto(t, "begin")
    /\ UNCHANGED <<queueVars, preview_pass_inflight, busyVars, timer, pending_preview_refresh,
                   refresh, requests, misled>>

StartTimer(t) ==
    /\ pc[t] = "start"
    /\ timer' = TRUE
    /\ Goto(t, "schedule")
    /\ UNCHANGED <<queueVars, preview_pass_inflight, busyVars, requestVars, misled>>

\* schedule_dirty_viewport_tiles: the visible tiles that need a task, one by one.
Schedule(t) ==
    /\ pc[t] = "schedule"
    /\ wave[t] < MaxWave
    /\ wave' = [wave EXCEPT ![t] = @ + 1]
    /\ tasks' = tasks + 1
    /\ Goto(t, "count")
    /\ UNCHANGED <<queued, pulls, preview_pass_inflight, busyVars, timer, requestVars, misled>>

Scheduled(t) ==
    /\ pc[t] = "schedule"
    /\ wave' = [wave EXCEPT ![t] = 0]
    /\ Goto(t, "recheck")
    /\ UNCHANGED <<tasks, queued, pulls, preview_pass_inflight, busyVars, timer, requestVars, misled>>

FinishTimer(t, at, next) ==
    /\ pc[t] = at
    /\ timer' = FALSE
    /\ Goto(t, next)
    /\ UNCHANGED <<queueVars, preview_pass_inflight, busyVars, requestVars, misled>>

Returned(t) ==
    /\ pc[t] = "return"
    /\ refresh' = [refresh EXCEPT ![t] = NoRefresh]
    /\ Goto(t, "idle")
    /\ UNCHANGED <<queueVars, preview_pass_inflight, busyVars, timer, pending_preview_refresh, stale, requests, misled>>

RunRefresh(t) ==
    \/ Invalidate(t)
    \/ BeginBusy(t, "begin", "start_on", "start")
    \/ Emit(t, "start_on", TRUE, "start")
    \/ StartTimer(t)
    \/ Schedule(t)
    \/ Count(t, "count", "schedule")
    \/ Scheduled(t)
    \/ LookInflight(t, "recheck", "return", "recheck_queued")
    \/ LookQueued(t, "recheck_queued", "return", "nothing") /\ UNCHANGED misled
    \/ FinishTimer(t, "nothing", "end")
    \/ EndBusy(t, "end", "return_off", "return")
    \/ Emit(t, "return_off", FALSE, "return")
    \/ Returned(t)

(***************************************************************************)
(* Workers: a task leaves the queue before it counts as in flight; some    *)
(* tasks render a whole document inside their own busy section.            *)
(***************************************************************************)
TakeTask(w) ==
    /\ pc[w] = "idle"
    /\ tasks > 0
    /\ tasks' = tasks - 1
    /\ Goto(w, "removed")
    /\ UNCHANGED <<queued, wave, pulls, preview_pass_inflight, busyVars, timer, requestVars, misled>>

StartTask(w) ==
    /\ pc[w] = "taken"
    /\ preview_pass_inflight' = preview_pass_inflight + 1
    /\ \E next \in {"computed", "render"} : Goto(w, next)
    /\ UNCHANGED <<queueVars, busyVars, timer, requestVars, misled>>

EndTask(w) ==
    /\ pc[w] = "computed"
    /\ preview_pass_inflight' = preview_pass_inflight - 1
    /\ Goto(w, "finished")
    /\ UNCHANGED <<queueVars, busyVars, timer, requestVars, misled>>

\* Mutant: the idle worker forgets the count a refresh still holds.
ClearBusyKept(w) ==
    /\ pc[w] = "clear"
    /\ Goto(w, "drain")
    /\ UNCHANGED <<queueVars, preview_pass_inflight, busyVars, timer, requestVars, misled>>

ClearBusy(w) ==
    /\ pc[w] = "clear"
    /\ full_document_busy' = 0
    /\ Goto(w, IF full_document_busy > 0 THEN "drain_off" ELSE "drain")
    /\ UNCHANGED <<queueVars, preview_pass_inflight, chip, timer, requestVars, misled>>

DrainPending(w) ==
    /\ pc[w] = "drain"
    /\ refresh' = [refresh EXCEPT ![w] = pending_preview_refresh]
    /\ pending_preview_refresh' = NoRefresh
    /\ Goto(w, IF pending_preview_refresh = NoRefresh THEN "idle" ELSE "run")
    /\ UNCHANGED <<queueVars, preview_pass_inflight, busyVars, timer, stale, requests, misled>>

\* The look at the queue of a worker that ended a task.  It is misled when a
\* producer has not counted the task another worker has already discounted:
\* the counter is then below zero and reads as a full queue.
LookAfterTask(w) ==
    /\ LookQueued(w, "finished_queued", "idle", "quiet")
    /\ misled' = (queued < 0)

\* on_preview_task_finished.
TaskFinished(w) ==
    \/ LookInflight(w, "finished", "idle", "finished_queued")
    \/ LookAfterTask(w)
    \/ FinishTimer(w, "quiet", "clear")
    \/ ClearBusy(w)
    \/ Emit(w, "drain_off", FALSE, "drain")
    \/ DrainPending(w)

Worker(w) ==
    \/ TakeTask(w)
    \/ Discount(w)
    \/ StartTask(w)
    \/ BeginBusy(w, "render", "rendering_on", "rendering")
    \/ Emit(w, "rendering_on", TRUE, "rendering")
    \/ EndBusy(w, "rendering", "computed_off", "computed")
    \/ Emit(w, "computed_off", FALSE, "computed")
    \/ EndTask(w)
    \/ TaskFinished(w)

\* A tile request the protocol handler turns into a task.
Pull(h) ==
    /\ pc[h] = "idle"
    /\ pulls < MaxPulls
    /\ pulls' = pulls + 1
    /\ tasks' = tasks + 1
    /\ Goto(h, "pulled")
    /\ UNCHANGED <<queued, wave, preview_pass_inflight, busyVars, timer, requestVars, misled>>

Handler(h) == Pull(h) \/ Count(h, "pulled", "idle")

Next ==
    \/ \E c \in Commands : Command(c) \/ RunRefresh(c)
    \/ \E w \in Workers : Worker(w) \/ RunRefresh(w)
    \/ \E h \in Handlers : Handler(h)

Spec == Init /\ [][Next]_vars

-----------------------------------------------------------------------------
TypeOK ==
    /\ tasks \in Nat
    /\ queued \in Int
    /\ preview_pass_inflight \in 0..Cardinality(Workers)
    /\ pending_preview_refresh \in Refresh \union {NoRefresh}
    /\ full_document_busy \in 0..(BusyModulus - 1)
    /\ timer \in BOOLEAN
    /\ chip \in BOOLEAN
    /\ stale \subseteq Layers
    /\ refresh \in [Threads -> Refresh \union {NoRefresh}]
    /\ wave \in [Threads -> 0..MaxWave]
    /\ requests \in 0..MaxRequests
    /\ pulls \in 0..MaxPulls
    /\ misled \in BOOLEAN

AtRest ==
    /\ tasks = 0
    /\ preview_pass_inflight = 0
    /\ \A t \in Threads : pc[t] = "idle"

\* A request to clear a layer's dither caches is carried out or still on its
\* way, in the slot or in the hands of a thread: coalescing and draining never
\* drop it.  Stated for one layer: the slot keeps the last layer only
\* (commands/mod.rs:528-572, 584-605, 664-697).
ClearNotLost ==
    \A l \in stale :
        LET Carries(r) == r # NoRefresh /\ r.layer_id = l /\ r.clear_residuals
        IN  \/ Carries(pending_preview_refresh)
            \/ \E t \in Threads :
                /\ Carries(refresh[t])
                /\ pc[t] \in {"request", "request_queued", "stash", "run"}

\* When everything has stopped, no refresh still holds the busy counter above
\* zero and the footer timer is stopped: some thread saw the end of the last
\* wave, whichever ended last (commands/mod.rs:640-645, 664-676), unless the
\* last look after a task was misled by the queue's counter.  The busy counter
\* may itself have wrapped below zero, see ChipOffAtRest.
WaveClosed ==
    AtRest => \/ misled
              \/ ~timer /\ (full_document_busy = 0 \/ full_document_busy > BusyModulus \div 2)

\* "idle flush applies the latest coalesced refresh once"
\* (src-tauri/src/commands/tests.rs:1141): no request is left in the slot when
\* nothing is queued, in flight or running any more.
NothingStashedAtRest == AtRest => pending_preview_refresh = NoRefresh

\* "Nothing queued (empty viewport / already fresh) - don't leave the chip on"
\* (commands/mod.rs:641): the chip is off when everything has stopped.
ChipOffAtRest == AtRest => ~chip

=============================================================================
