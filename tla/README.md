# The tile pipeline of dith-yuki in TLA+

dith-yuki is a desktop image editor (Tauri: a Rust core, a TypeScript
frontend).  Its document is a stack of raster layers with filters, many of them
dithers.  The canvas is cut into tiles; every edit makes tiles stale, a pool of
worker threads recomputes the visible ones, and the frontend fetches them over
a URL protocol.  What is hard in this program is not a single computation but
the way those threads share a queue, a cache, a set of generations and a
frontier of parked tasks without any common lock, and the way messages between
them and the canvas overtake each other.  That, and the crash-recovery journal
that follows the edits on disk, is what this directory specifies.

All paths below are relative to `src/`.

## 1. Inventory

### The core, and its interactions

| Component | Code | State it keeps | Operations |
|---|---|---|---|
| Tile scheduler | `crates/engine-tiles/src/scheduler.rs` | sharded map `pending` (one task per key), four lanes of key hints, `queued_count` | `enqueue`, `enqueue_dedup`, `enqueue_or_bump`, `dequeue`, `clear_all` |
| Worker wake-up | `src-tauri/src/worker.rs:25-81` | `Mutex<bool>` and a condition variable | `notify_one`, `notify_all`, `wait` |
| Tile worker loop | `src-tauri/src/worker.rs:100-764` | the task in hand, its error | take, test staleness, compute, announce, park, retry |
| Generations and invalidation | `crates/engine-tiles/src/generation.rs`, `invalidation.rs` | `document_gen`, `content_gen`, a generation per layer, inside the document object | increment; mark cache entries dirty; clear the frontier |
| Tile cache | `crates/engine-tiles/src/cache.rs` | entries with generation, dirty bit and version; `content_epoch`; memory accounting | insert if not older, mark dirty, evict |
| Tile computation | `src-tauri/src/tile_pipeline.rs` | snapshots held across many steps | `compute_processed_tile`, `compute_composite_tile`, rescheduling |
| Error-diffusion frontier | `crates/engine-tiles/src/ed.rs` | `waiting_on`, `blocked` | `block`, `block_on`, `wake`, `wake_after_processed` |
| Strip gates | `src-tauri/src/state/ed_strip_gate.rs` | one owner per layer, row and generation | claim, wait, release on drop |
| Preview refresh and chip | `src-tauri/src/commands/mod.rs:260-700` | in-flight counter, one stashed request, busy counter, footer timer | request, run, drain, begin/end busy |
| Undo | `src-tauri/src/undo.rs` | two stacks of document snapshots | undo, redo, raise generations, replace the live document |
| Delayed requeue | `src-tauri/src/delayed_requeue.rs` | a heap of retries, cancelled documents | schedule, fire, cancel |
| Tile serving | `src-tauri/src/tile_serve.rs`, `main.rs`, `pending_tiles.rs` | encoded bytes, the requests answered 202 | serve, enqueue, announce `tile-ready` |
| Canvas | `frontend/src/features/preview/TileCanvas.tsx`, `eventDrivenWake.ts`, `workers/tileWorker.ts` | `tileRev`, known generations, bitmaps, the tiles it waits for | fetch, draw or discard, wake on events and on a safety timer |
| Document sessions | `src-tauri/src/document_session.rs` | session map, active tab, closing flags | open, activate, close |
| Full-document filters | `src-tauri/src/tile_pipeline.rs:140-320` | one owner per result, waiters | compute, wait, publish from a detached thread |
| Crash-recovery journal | `src-tauri/src/journal/` | pending, writing, deferred, last hash; blobs, state and metadata on disk | debounce, write, heartbeat, delete, claim, restore |

The remaining parts (pixel mathematics, colour, palettes, ASCII art, GPU code,
formats, thumbnails, shell services, the rest of the frontend, harnesses) are
sequential or numeric; `PROJECT.json` lists each with the reason it is left out.

How they meet: a command on the main thread stores a new document, raises its
generations, marks cache entries dirty, and asks for a preview refresh, which
enqueues the visible tiles and notifies.  A worker takes a task, compares the
task's generations with the live document, loads a snapshot of its own,
computes from it and from cached inputs, compares again, and inserts.  If a
neighbour of an error-diffusion tile is missing it parks the task on the
frontier; the worker that publishes the neighbour takes it off.  If the inputs
changed meanwhile it reschedules.  The last task of a wave drains the stashed
refresh.  No lock spans any two of these steps.

The canvas asks for a tile over `tile://`; the handler answers with a body, fresh
or not, or with 202 and a registration, and asks the workers for what is not
fresh.  A worker that has inserted a tile announces it with `tile-ready`; edits
announce themselves with `content-changed` or `document-changed`.  Every edit
also calls `schedule_dirty`, and a writer thread then puts the document's images,
state and metadata into the recovery directory until a save deletes them.

### What is hard, and what correctness means

* **Scheduler.**  Map, lanes and counter are three structures updated one after
  the other.  Every pending task must stay reachable through a hint, the counter
  must not drift, and the merge of two requests must not mix their generations.
* **Wake-up.**  One Boolean flag stands for any number of enqueues.  No worker
  may fall asleep over a task that has been announced.
* **Preview refresh.**  Busy is two loads, the stash is one slot, the chip is a
  counter and an event.  No request to clear a layer's caches may be lost, no
  request may stay in the slot, the chip must go off.
* **Freshness.**  Snapshots, the epoch and the dirty bit are read and written at
  different times by different threads.  Pixels must never be published under
  another document's generation, a tile served as fresh must show the live
  document, and a stale tile must become fresh without being asked for again.
* **Frontier.**  Parking and publishing race.  No task may be lost between
  queue, frontier and workers, no gate may stay closed, and no task that can run
  may stay parked.
* **Delivery.**  Responses, announcements and change events overtake each other.
  The canvas must never go back to older pixels, must come to show the live
  document, and must then stop asking.
* **Journal.**  A crash may fall between any two file operations, and an edit, a
  save or a closed tab between any two steps of the writer.  What was journaled
  must be recoverable until it is saved, and what stays dirty must be journaled.

`PROJECT.json` lists every such hazard at its line with the property that would
catch it, or the reason none does.

## 2. Modules

| Module | Models | Notes |
|---|---|---|
| `TaskPool` | what the scheduler promises its callers | abstract: submit, take and clear are atomic |
| `Scheduler` | the pool of tasks, one action per atomic step | refines `TaskPool` |
| `TileWorkers` | workers that sleep on `WorkerWake` | extends `Scheduler`, refines `TaskPool` again |
| `PreviewRefresh` | refresh requests and the busy chip | tiles are counted, not named |
| `TileFreshness` | edits, undo, snapshots, the two cache entries of one tile | one pending task per stage; the queue refines `TaskPool` |
| `EdWavefront` | the frontier, the strip gates and the workers' handling of their errors | one layer, one generation |
| `TileDelivery` | one visible tile between cache, handler and canvas | an edit is one step; a worker's job publishes or is put back |
| `Journal` | the journal of one document on disk and the threads around it | files are there or not; a document is the set of images it needs |
| `SchedulerProofs`, `TileWorkersProofs`, `TileFreshnessProofs`, `TileDeliveryProofs`, `PreviewRefreshProofs`, `EdWavefrontProofs`, `JournalProofs` | theorems | section 5 |
| `MC...` | small instances | model values and symmetry only |

**`Scheduler`.**  `pending` is the DashMap: each access to one key is atomic
under its shard lock, two accesses are two steps.  `enqueue_dedup` and
`enqueue_or_bump` read the entry, let go of it and call `upsert`, so the
decision (`DedupRejects`, `BumpRejects`, in `Call`) and the upsert are
different steps.  The vacant arm is three steps (insert, count, hint); the
occupied arm merges and pushes its hint under the lock and is one.  `dequeue`
is pop, remove, count down; a stale hint restarts the scan.  `clear_all` drains
the lanes pop by pop, then the map, then the counter.  The counter is an
unsigned word and wraps at `CountModulus`.

**`TileWorkers`.**  A producer may make any number of calls before it notifies
(`owes` remembers who has not).  `Sleep` and `ConsumeFlag` are the two ways
`wait` can find the flag; a condition variable may also wake without a notify.

**`PreviewRefresh`.**  `preview_pass_busy` is two loads (`LookInflight`,
`LookQueued`); a dequeued task is in neither counter until `StartTask`.  A producer
inserts its task and counts it afterwards (`Schedule` or `Pull`, then `Count`), a
worker removes and discounts (`TakeTask`, `Discount`), and a worker may take any
pending task, because an old hint of the key may lead it to one its producer has not
counted yet; `queued` may so fall below zero, and the threads read it modulo
`QueueModulus`.  `Request` and `Stash` are `request_preview_refresh`, `RunRefresh` is
`run_preview_refresh` on whichever thread runs it, `TaskFinished` is
`on_preview_task_finished`, `Handler` is a tile request on the protocol's thread.
`stale` is a ghost: the layers edited since their dither caches were cleared.
`misled` is another: the last worker that asked after a task whether the queue is
empty read a counter below zero (section 6).

**`TileFreshness`.**  A `Document` is an object in `docs` with its generations
inside; `live` points to the one of the session.  An edit stores a new object,
undo stores a clone and then changes its generations in place
(`BumpLiveDocumentGen`), which a worker that already loaded it sees.  A palette edit
and `add_filter` invalidate and enqueue themselves.  `update_filter` (and
`remove_filter`, `toggle_filter`) ask for a refresh (`RequestRefresh`), which is
stashed while the workers look busy (`StashRefresh`) and run by the worker that
finishes its task and finds them idle (`TaskFinished`, `DrainPending`, `RunRefresh`).
What the busy test answers is left open (`BusyTest`) except where a worker is inside a
task; that covers what the counters of `PreviewRefresh` may say, a wrapped one
included.  Pixels
are the `look` of the document they were computed from.  The steps of
`compute_processed_tile` and `compute_composite_tile` are split wherever they
touch shared state: load the snapshot, store the epoch, compare, insert,
invalidate.  `Enqueued` is the scheduler's rule at one priority.  The queue can
be this simple because `Scheduler` refines `TaskPool` and every step of this queue
is a step of `TaskPool` as well (`QueueIsPool`, proved).

**`EdWavefront`.**  A key stands for a Processed tile and its task.  `Missing`
to `Parked` is `EdFrontier::block`/`block_on` step by step; `frames` is the
stack of nested `compute_processed_tile` calls (a strip first computes the
strip above it); `Wake` to `EnqueueReady` is the batch wake after a strip.
Simplifications: `block_on` enters its dependencies in `waiting_on` one after
the other and here in one step; the guards an error drops are dropped together;
the queue hands out tasks in any order.  `let_go` is a ghost: tasks whose worker
forgot them.  There are two ways: `EdDependenciesPending` from a nested row, and
the "runnable" answer of `block_on` after a busy strip, which the loop ignores.

**`TileDelivery`.**  `Resolve`, `Enqueue` and `Register` are the three steps of
`handle_tile_request` between which a worker may insert and look for somebody
waiting (`Look`, `NotifyIfPending`, `EmitReady`).  The handler and the edit
commands share the main thread, so an edit waits for the handler.  `fetches` is a
bag: a fetch is posted, answered, and its answer delivered in any order;
`events` is a queue, as Tauri delivers one window's events in order.  `Decoded`,
`TilePending`, `Changed`, `TileReady`, `EdProgress` and `SafetyTimer` are the
canvas's handlers, each one step as each runs to its end on the browser's thread.
Whether an ancestor is cached, and so whether an absent tile is answered 202 or
upsampled, is left open.  An entry's `rev` is not kept, because every move of
`tileRev` clears the entries.  Left out: panning, several tiles (they share only
`tileRev`), tab switches, errors, the deferred commit of a refreshed bitmap.

**`Journal`.**  A document is one of `Docs`; its journal needs the images
`BlobsOf`.  Edits, undo and redo are `Moves`.  `Caller` is `emit_dirty_doc` or
`delete_journal` on one of four threads: the look at the document and the lock
are two steps, and the removal of state, metadata, images and the two claims is one
step each.  The caller `"scan"` is the one that takes no lock: it discards journals
after a start, and removes the siblings of a recovered one.  `Writer`
is one write of the writer thread from `drain_due` to `note_flushed`, image by
image, with the collection of unused images when the size cap is near.
`SaveStep` writes the snapshot while other commands run.  `DiscardStep` closes a
tab and keeps its journal; `RecoverStep` claims a journal by renaming its state
and images, assembles, opens and removes it, or gives the claim back; after the new
session has been announced to the writer it removes the other journals of the same
file (`ListSiblings`, `PurgeSibling`).  `Crash`
keeps the disk only; `Restart` is `startup_cleanup`.  `kept` is a history
variable: the document last journaled while dirty, until a save has written it.
The code gives a journal up, or loses it, in seven places, and there `kept` becomes
`Gap` until the next whole journal:

1. a removal when no save wrote the document (a clean undo, a discarded tab) or
   in the middle of a write (`Remove`);
2. a collection that takes an image of the state on disk (`BlobWritten`);
3. a state taken for unchanged by its hash although its file is gone (`SkipState`);
4. a soft discard that keeps no journal of this document (`MarkDiscarded`);
5. a claim while the closed session's write is still running (`ClaimState`,
   `ClaimBlobs`);
6. the removal of the claimed journal before the new session has one
   (`FinalizeState`);
7. the removal of sibling journals after a recovery, when the writer has already
   written the new session's own journal (`PurgeSibling`, counted in `Remove`).

These are behaviours of the code, listed as hazards without a property where they are
not intended; `NothingLost` is about everything else, the order of the writer's file
operations and of the claim's renames above all.

## 3. Runs

| Run | Instance | What it shows |
|---|---|---|
| `scheduler_clear` | 2 producers, 1 worker, 1 thread in `clear_all`, one submitted key, 3 calls | `TypeOK`, no stranded task (`HintCovered`), refinement of `TaskPool` with its fairness (`PoolSpec`) while the pool is cleared under the callers |
| `tile_workers` | 2 producers, 2 sleeping workers, 2 keys, generations 1 and 2, lanes 0, 1 and 2, 3 calls | the invariants of the scheduler without `clear_all` (`HintCovered`, `CountAccounts`, `GenerationsBelongTogether`), `FlagHasTaker`, `NoLostWakeup`, and `PoolServed`: sleeping workers still keep the promise of `TaskPool` |
| `preview_waves` | 1 command thread, 2 workers, 1 thread that answers tile requests, 2 edits, 1 pulled tile | `ClearNotLost`, and `WaveClosed` up to the state in which the wrapped queue counter misled the last worker (section 6) |
| `freshness_one_worker` | 1 worker, 2 edits: palette, a filter added, a filter changed, in any order | `FreshShowsLive`, `RestIsFresh` (at rest the tile is served fresh or its refresh lies in the stash: the safety half of the next), `EventuallyFresh`, `QueueIsPool` while a deferred refresh submits lower generations |
| `freshness_undo` | 1 worker, a palette edit, then a changed filter, 1 undo | `StampNamesPixels` across a replaced document, and `FreshUnlessCacheAhead`: after one undo the tile becomes fresh, unless its refresh is left in the stash or a late worker stamped the cache past the restored document.  Nothing is said of a second undo (section 6) |
| `freshness_epoch_back` | 2 workers, 1 edit | finding 1 |
| `ed_wave` | 2 x 3 tiles, the left tiles of the upper two rows cached, 2 workers, 1 repeated request | `GatesMatchCalls`, `NothingDropped`, `CausalParkersWoken` |
| `ed_busy_strip` | 2 x 2 tiles from scratch, 2 workers | finding 2 |
| `journal_recovery` | 3 documents, 2 sessions, 2 edits, one of save, closed tab or crash; or a start after a crash | `NothingLost`, `EventuallyJournaled` |
| `journal_clean` | 1 session, 1 edit, 1 save | finding 3 |
| `tile_delivery` | one tile, its first display and one edit of either kind | `RestShowsLive` (the canvas falls silent only over the live document), `NeverOlder`, `EventuallyShown`, `EventuallyQuiet` |
| `delivery_wedge` | the same without an edit | finding 4 |

The runs of the scheduler and of the tile workers check for deadlock.  The others say
`CHECK_DEADLOCK FALSE`, because the system is meant to come to rest when all
tiles are fresh; that it rests in the right state is what `AtRest` in their
properties is about.

**Why the bounds are enough.**  `MaxEnqueues`, `MaxEdits`, `MaxUndos`,
`MaxPulls`, `MaxRequests`, `MaxWave` and `MaxSchedules` bound how often the
outside acts; everything inside runs freely.  Three enqueue calls make a task
that is inserted, bumped and re-inserted behind its own stale hint, which is
the longest pattern the merge and the stale-hint rule distinguish.
`CountModulus` 8 exceeds every reachable count, so a wrap below zero stays
visible and a second wrap is impossible.  Lanes 0 and 2 with lane 1 between
make a bump cross a lane a worker has already passed.  Two edits are needed for
a worker that is two generations behind; two workers for one that holds an old
document while another publishes.  A second undo multiplies the states of
`freshness_undo` by about ten, out of the reach of a run with liveness, and is left to
the note in section 6.  `QueueModulus` and `BusyModulus` 16 exceed twice what the
threads can count, so a counter below zero reads as a large one and never as a small
one, as with 64 bits.  Three rows are the fewest in which a nested
strip itself finds its upper row unfinished, and two columns the fewest in which
a strip has siblings to park on.  The theorems of section 5 remove the bounds
where they could be removed.

`Journal`: the three documents are the least with a branch after an undo (`a` to
`b` and back, so that a hash and a revision are met again), and one that with the
others exceeds the cap of two images (`c` needs three).  Image 2 is not decoded
at first, so a write can be incomplete.  Two sessions let a claimed journal meet
the journal of the session it is recovered into; one command out of save, close
and crash follows two edits, or the crash comes first and two edits follow in the
recovered session.  Each of the seven places of `kept` is reached (1.47 million states).

`TileDelivery`: one edit separates two generations and two values of `tileRev`,
and a body of before the edit can come after one of after it.  One silent retry
instead of five shows both outcomes of a retry.  `MaxFetches` bounds only what
the timer and the events add, `MaxEvents` makes an emitter wait: two are enough
for an announcement to stand in front of a change event and behind it.  The
theorems hold for any of these bounds.

**Symmetry** is used for the workers of `EdWavefront` and `TileFreshness`, in
runs that check invariants only.

## 4. Fairness

* `Scheduler`: a thread inside a call keeps running, and a worker comes back for
  the next task for ever (`tile_worker_loop` never returns).  Nothing is assumed
  of new calls.
* `TileWorkers`: a producer that enqueued notifies (each caller does so at the
  end of its function), and a worker that is not asleep runs.  Nothing but a
  notify is assumed to wake a sleeper; spurious wake-ups may happen and need not.
* `TileFreshness`: a command that has begun ends, workers run, the requeue thread
  fires.  No fairness on edits, on undo or on the frontend asking again, so
  `EventuallyFresh` says that the tile becomes fresh by itself.
* `TileDelivery`: the worker, the handler, the delivery of responses, the delivery
  of events and the safety interval (`setInterval` in the canvas).  No fairness on
  edits, nor on `ed-progress`, which need not come.
* `Journal`: the writer thread, the heartbeat thread, the callers of
  `emit_dirty_doc` and of a removal under the journal lock (taken together: one of
  them moves), and the arrival of decoded tiles.  Nothing is asked of commands
  between their calls, of the removals without the lock, or of the process, which may
  crash.
* `PreviewRefresh` and `EdWavefront` state their "eventually" as an invariant of
  the states at rest and assume none.

All of it is weak fairness of operating-system threads.

## 5. Theorems

Checked by TLAPS for every set of keys, tasks, producers, workers and callers
of `clear_all`, and every bound, from the assumptions `TasksAssumption`,
`NoTaskAssumption`, `ModulusAssumption`, `BoundAssumption`, `ThreadsAssumption`
(the kinds of threads are disjoint) and, for `FlagTaken`, `WorkersAssumption`
(there is a worker; `main.rs:450-459` starts one per core).  The other modules
declare one assumption each (`FreshnessAssumption`, `DeliveryAssumption`,
`PreviewAssumption`, `WavefrontAssumption`, `JournalAssumption`): bounds are numbers,
and the value for "nothing" is none of the others (`NoneAssumption` and
`NothingAssumption` say so of the records it may stand for).

* `SchedulerProofs!TypeCorrect`: `Spec => []TypeOK`.  `TypeOK` is inductive:
  besides the types it has what the steps need of each other (a producer in
  `upsert` holds a task, a worker in `remove` holds a key, the map files each
  task under its own key).
* `SchedulerProofs!NoStrandedTask`: `Spec => []HintCovered`.  Given `TypeOK`,
  `HintCovered` is inductive because it names every place a hint can be: the lane
  of the task's priority, a producer about to push it, a worker that popped it,
  or a `clear_all` that drained it.  The delicate cases are a worker that pops
  the one hint of a task, a bump that moves a task to another lane, and an upsert
  into an entry whose first producer has not pushed its hint yet.
* `SchedulerProofs!ImplementsTaskPool`: `Spec => Pool!Spec`, each step being a
  step of `TaskPool` or a stutter: upsert is `Submit`, the removal is `Take`.
* `SchedulerProofs!MergeKeepsPairs`: `Spec => []GenerationsBelongTogether`.
  The statement is inductive: an upsert into a vacant entry stores a submitted task,
  and a merge takes document and layer generation from the same one of the two.
* `SchedulerProofs!CountNeverDrifts`: `[]CountAccounts` for finite sets of keys,
  producers and workers and no `clear_all` (its only caller,
  `reset_tiles_for_new_document`, is not used by the application; it stores zero
  whatever the calls in between still owe).  The counter equals, modulo its width, the
  pending tasks less the producers that have inserted and not counted plus the workers
  that have removed and not counted; the proof follows the cardinalities of these
  three sets.
* `TileWorkersProofs!WakeTypeCorrect`: `WakeSpec => []WakeTypeOK`; a worker is
  on the condition variable only after a dequeue that found nothing.
* `TileWorkersProofs!FlagTaken`: `WakeSpec => []FlagHasTaker`.
* `TileWorkersProofs!WakeUpKept`: `WakeSpec => []NoLostWakeup`.  Every step of
  `TileWorkers` is a scheduler step or leaves the scheduler alone
  (`SchedulerInside`), so `TypeOK` and `HintCovered` carry over.  `NoLostWakeup`
  needs the strengthening `WakeInv`: a producer inside a call still owes a notify
  (`ProducersOwe`), nobody is in `clear_all` (`NobodyClears`, as in the
  application), and a task nobody is about to announce is still ahead of some
  worker's scan unless the flag is up (`ScanCovers`).  The step that matters is a
  worker leaving an empty lane of the task's own priority: by `HintCovered` the
  hint is then in another worker's hands or with a producer that still owes.

* `TileWorkersProofs!WorkersServeOnePool`: `WakeSpec => Pool!Spec`.  What the
  sleeping workers do to the scheduler is a behaviour of `Scheduler`
  (`SchedulerInside`), and so of `TaskPool` (`ImplementsTaskPool`).

* `TileFreshnessProofs!TypeCorrect`: for every number of workers, edits and undos.
  The inductive invariant has five parts: the documents and the two stacks that
  point into them (`DocsOK`), the two cache entries (`CacheOK`), the queue
  (`PoolOK`), what each worker has in its local variables (`LocalsOK`), and what it
  must have at each step (`HeldOK`: a worker past the load of its snapshot holds a
  document that exists).
* `TileFreshnessProofs!StampCorrect`: `Spec => []StampNamesPixels`.  A document's
  generations change in place under a worker that has loaded it, so the comparison
  before the insert does not by itself bind pixels to a generation.  The
  strengthening says that what a worker is about to publish has a witness, a document
  with that content generation and these pixels (`StampsOK`), and that the bump after
  an undo takes no witness away, because the document it was cloned from stays
  behind (`CloneOK`).
* `TileFreshnessProofs!FreshCorrect`: `[]FreshShowsLive` for one worker, no undo and
  any number of edits of the three kinds, deferred refreshes included.  Both
  hypotheses are needed: with two workers the property fails (finding 1), after an
  undo too (the note in section 6).  The n-th document then has content generation n
  and shows edit n (`Numbered`).  That number goes from the document to the
  `Processed` entry, to the worker's blend and to the composite, and at each place it
  is at least the generation it is published under; the content epoch a worker mirrors
  holds until it has rechecked its input.
* `TileFreshnessProofs!RestIsServed`: `[]RestIsFresh` for any number of workers and
  edits, no undo.  When nothing is queued, delayed or in a worker's hands, the tile
  is served fresh or its refresh is in the stash.  The stash is not excused by the
  theorem but reached by the code: the last worker may look into it before the command
  thread has stored (section 6).  The invariant `OwedInv` says who answers for a tile
  that is not fresh: the command that has not enqueued or stashed yet, the stash, a
  worker that runs the refresh it took out of it, a composite task in the queue or with
  the requeue thread, or a worker that carries one and holds the live document; a worker
  with an older document finds out before it publishes and puts the task back.
  Finding 1 is no contradiction: there the tile counts as fresh and shows old pixels.
* `TileFreshnessProofs!QueueCorrect` and `TileFreshnessProofs!QueueImplementsPool`:
  `Spec => QueueIsPool`, and `Spec => [][Pool!Next]_(Pool!poolVars)`, undo and redo
  included.  A step is one submission of a live or of a parked task, one task handed
  to one worker, or none of the queue's business.  The proof needs of the invariant
  only that a task sits in the slot of its own stage (`PoolOK`); a restored document,
  and a deferred refresh that an edit overtakes, submit lower generations, which the
  pending task then absorbs.  With
  `SchedulerProofs!ImplementsTaskPool` both sides meet in `TaskPool`: the short rule
  here has no behaviour that the abstract pool does not allow.
* `TileDeliveryProofs!TypeCorrect` and `TileDeliveryProofs!NeverGoesBack`:
  `Spec => NeverOlder`, for any number of edits, retries, events and fetches.  The
  order of the responses is not known, so the argument follows where their bodies
  come from: whatever is served or drawn was once in the cache, whose generation
  only grows (`FromCache`).  Within one `tileRev` the canvas remembers what it drew
  (`Remembered`) and `shouldDiscardStaleGen` compares; when `tileRev` moves it
  forgets, and every body of the new `tileRev` was served after the last body of
  the old one was drawn (`NewRevNotOlder`).
* `TileDeliveryProofs!RestShown`: `Spec => []RestShowsLive`, with the same generality.
  With no event, fetch or job left and the tile untracked and not drawn as a preview,
  the screen shows the live document.  `RestInv` follows the canvas that has nothing
  of the tile: a fetch of this `tileRev` is on its way (`AskedFor`), or the tile is
  registered and a job that will announce it is due, running or about to notify, or
  the announcement is in the queue (`Backed`).  A fetch that the fetch worker gives up
  without a word must be backed (`RetriesBacked`); it is, because the handler enqueues
  the task before it reads it for the reason of the 202 and registers in the same step,
  and because the worker's two looks at the cache are for the document its job was
  given (`JobCurrent`).  The bag of fetches matters: what leaves it is one fetch
  (`MembersStay`).
* `PreviewRefreshProofs!ClearKept`: `Spec => []ClearNotLost` for one layer (the slot
  keeps the last layer only, a hazard of its own) and any number of threads, edits
  and tasks.  It needs that a thread about to stash a refresh, or to clear for it, has
  it in hand (`HandOK`).  Most steps only move a thread on (`MovesOn`); the proof is
  about the five that hand a request over.
* `PreviewRefreshProofs!TypeCorrect`: `Spec => []TypeOK` for a finite pool of workers
  and every width of the busy counter.  `preview_pass_inflight` stays within the
  number of workers because it counts those between `StartTask` and `EndTask`
  (`CountOK`).
* `PreviewRefreshProofs!WavesClose`:  `Spec => []WaveClosed` for a finite set of
  threads of which twice the number is below `BusyModulus` (2^64 in the code, so no
  machine violates it) and any width of the queue's counter.  Where a wave stays open,
  the last look after a task read a queue counter below zero:  `misled` is set by that
  look alone, and the theorem says that nothing else keeps a wave open.  The busy
  counter is incremented and decremented by threads, and now and then set to zero by
  one of them while others still hold it.  `Ledger` keeps the books since the last
  reset: the holders it forgot, how many of these have ended (each takes the counter
  one below), and how many counts nobody holds; the last are there only while a thread
  that will reset the counter is under way.
* `EdWavefrontProofs!TypeCorrect`, `GatesReleased` and `TasksKept`: `TypeOK`,
  `GatesMatchCalls` and `NothingDropped` for every layer, every set of tiles already
  there and every number of workers and requests.  The invariant `WavefrontInv` says
  what a worker has in hand at each step (`WorkerOK`: its first call is that of the
  task it took, a wake belongs to a call whose tile is there) and who answers for a
  task (`AnswersFor`: the queue, the frontier, or a worker that is not just parking
  it).  Each action shows the same seven facts (`StepOK`), and `StepKeepsInv` puts
  them together for the other workers.
* `EdWavefrontProofs!WakesKept`: `CausalParkersWoken`.  The invariant `WakesPending`
  holds at all times, not only at rest: a task that is parked on its neighbours and
  could run is in the hands of a worker that will take it out of the frontier, or a
  worker that publishes the row of one of these neighbours has not finished the
  column it is in (`Responsible`).  The delicate cases are two workers that park the
  same task with different dependencies, and a park between a publication and its
  wake; both are settled by the second look of `Recheck`.

* `JournalProofs!WorkKept`: `Spec => []NothingLost`, for every set of documents,
  images, moves and sessions and any number of commands.  `NothingLost` is not
  inductive: a claimed journal still counts as giving its document back, and the
  writer may replace it at any moment.  The invariant `IInv` adds five facts.
  `Keeps` says that the recovery in progress still has, and does not remove, what it
  claimed of the journal that counts.  `ClaimsHeld` says that outside a crash a claim
  belongs to that recovery, so startup gives back exactly what it took.  `ClaimParts`
  says that a write caught in the middle by a claim has been given up already and
  cannot complete a journal whose images are away.  `Written` says that the images a
  running write will name are on disk before its state file is renamed into place;
  this is the order of `write_journal_state_v1`.  `Deleters` says what a removal
  under the journal lock has taken already: past the meta file there is none, unless a
  writer that waits for the lock has just put it there again, and past the images a
  claim that began meanwhile cannot bring them back.  The removals
  without the lock, a discard and the siblings of a recovered journal, are among the
  steps; what they take makes `kept` a `Gap`, the seventh of the places.
* `JournalProofs!TypeCorrect`: `Spec => []TypeOK`.  It needs that a recovery which has
  not opened its session yet keeps every document closed and a session free
  (`RecoverOK`), and that a write with a reply is awaited by the discard that asked
  for it (`WriterOK`).

Every invariant and every safety part of an action property that a passing run
checks is stated by one of these theorems.  `PoolSpec` and `PoolServed` contain
fairness; their safety parts are `ImplementsTaskPool` and `WorkersServeOnePool`, and
their fairness is checked by TLC only, as are the other liveness properties
(`EventuallyFresh`, `FreshUnlessCacheAhead`, `EventuallyShown`, `EventuallyQuiet`,
`EventuallyJournaled`): liveness and `ENABLED` are outside what TLAPS proves here.
`RestIsFresh` and `RestShowsLive` are the proved halves of `EventuallyFresh` and
`EventuallyShown`: the system does not come to rest in a wrong state; that it comes
to rest is model-checked.

## 6. Findings

1. **The epoch goes back** (`cache.rs:216`, run `freshness_epoch_back`).
   `set_content_epoch` is a plain store and callers store the generation of the
   snapshot they hold.  A worker with an old snapshot lowers it after an edit, the
   other takes the old Processed tile for fresh, and the old pixels are published
   clean under the new generation.
2. **Parked on each other** (`tile_pipeline.rs:1397`, run `ed_busy_strip`).  A
   worker owning row 1 gives up because row 0 is owned and parks its tile on the
   siblings in row 1, which nobody owns any more.  If the owner of row 0 has already
   woken everybody, tile and siblings wait for each other although every neighbour
   is fresh.  `take_ready_lost_wakes`, which would notice, is called by harnesses
   only.
3. **Saved is not what was written** (`document_service.rs:730`, run
   `journal_clean`).  A save writes its snapshot while commands run and then marks
   the live document clean.  An edit made during the write counts as saved without
   being in the file, and its journal is deleted.
4. **Waiting for a fetch that is not there** (`TileCanvas.tsx:1049`, run
   `delivery_wedge`).  A wake fetch answered 202 again keeps `inflight` set, and from
   then on `tile-ready`, `ed-progress` and the safety timer only note that a fetch is
   wanted.  The tile stays as it is until it is panned out of sight or edited.  A tile
   comes to be tracked by a first 202 or by a body drawn from an upsampled ancestor;
   TLC's trace starts with the second.  `EventuallyShown` holds up to this case
   (`Wedged`).

Seen on the way, kept as hazards where they have a line, and not settled by a run:

* *A stashed refresh nobody runs* (`commands/mod.rs:530`).  The test for busy and
  the store into the slot are two steps.  If the last worker decrements, finds itself
  idle and drains the empty slot in between, the request stays there until some later
  task ends; `commands/tests.rs:1141` says "idle flush applies the latest coalesced
  refresh once".  `NothingStashedAtRest` states it.
* *The counter of the queue leaves a wave open* (`scheduler.rs:114-115`, `158`,
  `commands/mod.rs:494`).  A producer inserts a task, a worker led there by an old
  hint removes it, discounts, computes it and asks whether the queue is empty, and
  only then the producer counts.  The counter is -1 for that look and reads as a full
  queue, so the worker goes away; after the count it is zero and no task will end any
  more.  Timer, busy counter and chip of the last refresh stay on, and a stashed
  request stays in the slot, until some later task ends.  `WaveClosed` excuses exactly
  this (`misled`); without the excuse TLC finds it on the instance of `preview_waves`.
* *A tile that stays stale behind the stash.*  The same stashed refresh, seen from the
  tile: `update_filter`, `remove_filter` and `toggle_filter` leave invalidation and
  enqueue to it, so the tile keeps its old pixels until the frontend asks or another
  task ends.  `RestIsFresh`, `EventuallyFresh` and `FreshUnlessCacheAhead` name the
  case (`stashed`).
* *The chip stays on* (`commands/mod.rs:295`).  A worker resets the busy counter to
  zero between another thread's increment and its event: off is sent before on, the
  later decrement wraps below zero, and nobody sends off again.  `ChipOffAtRest`
  states it.
* *Undo and the cache* (`undo.rs:297-307`).  `bump_live_document_gen` goes past the
  cache of that moment; a worker that still holds the undone document inserts after
  it.  `CacheAhead` then stays true, and a tile may be recomputed for ever.
  Between `DocumentHandle::store` and the bump a worker may also mirror the restored,
  lower generation, so `FreshShowsLive` fails with undo and one worker.
* *Two undos in a row* (`scheduler.rs:66`).  The task of the first undo carries the
  higher generation, swallows that of the second and is then dropped as stale: the tile
  stays stale until it is asked for again.  `FreshUnlessCacheAhead` says nothing once
  `undos` exceeds one.
* *Recovery removes its own new journal* (`commands.rs:232-235`, `429-442` of the
  journal).  "Also drop any older soft-discard journals for the same source path" spares
  only the recovery id that has just been recovered, and takes no lock.  The writer was
  made due at once by `emit_dirty_doc` (line 227); a journal it has written by then
  belongs to the same file and is removed with the others.  The hash of the state still
  matches, so later writes renew the meta file and no state: a crash before the next
  edit loses the recovered work.  It is the seventh place of `kept`.
* `mark_clean` (`undo.rs:88`) marks the tab that is active when a save ends.
* A late response of an earlier `tileRev` clears `inflight`, so two wake fetches of
  one tile may be outstanding.
* A leftover hint in a high lane hands out a later, less urgent task first, which
  costs order and nothing else; with two layers the one slot of a stashed refresh
  drops the first layer's request by design.

## 7. What is not modelled

Pixel values, error-diffusion residuals, colour, GPU code, file formats, the user
interface: floating point and pixels are beyond a finite model, and no property of
the pipeline tells two pixel values apart other than by the document they came
from.  These parts are most of the repository by lines.

Of the parts with state and concurrency:

* **Sessions.**  The map of sessions, the active tab, close against running I/O
  (between `require_session` and `begin_io`, `document_service.rs:692`) and against
  late inserts.  The models have one document; `Journal` has the closing of its tab.
* **Journal.**  The signal handlers' flush, the clean-exit marker and roster, legacy
  archives, threshold-map images, damaged files.  Which journals belong to the same file
  is left open: a recovery may take any of them for a sibling.
* **Serving.**  The encoded bytes and the soft-proof cache, layer tiles, errors, and
  tab switches (`TileCanvas.tsx:1983-2042` resets the drawn state and not
  `tileMaxGenMap`).
* **Pyramid levels, full-document filters, the requeue heap, eviction.**  Levels wait
  for their children; one worker computes a whole image and a detached thread
  publishes it; retries carry a cancelled set.  `TileFreshness` has their effect on
  one tile of level 0: a task comes back, an entry is gone or not.

Two steps of the models join what the code does in several: `ClearPending` empties the
map at once where `DashMap::clear` goes shard by shard (`clear_all` has no caller in the
application), and `NotifyIfPending` reads the generation of the body and takes the
registration in one step.

`TileFreshness` and `TileDelivery` are not composed: the first is the reason why
the second may treat a worker's job as one that publishes the live document or is
put back.  Their product with two workers is beyond what TLC explores.
