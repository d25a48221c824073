---------------------------- MODULE TileFreshness ----------------------------
(***************************************************************************)
(* How an edit reaches the screen (src-tauri/src/tile_pipeline.rs,         *)
(* worker.rs, undo.rs, commands/mod.rs; crates/engine-tiles/src/           *)
(* generation.rs, cache.rs, ed.rs).  One open document with one raster     *)
(* layer without error diffusion and one visible level-0 tile: its         *)
(* Processed entry and the Composite entry assembled from it.  The main    *)
(* thread edits and undoes; the workers hold document snapshots across     *)
(* many steps.  Pixels are the "look" they were computed from; a           *)
(* Document's generations are counters inside the document object, which   *)
(* undo changes in place after the object has become the live one.         *)
(***************************************************************************)
EXTENDS Integers, Sequences

CONSTANTS
    Workers,
    EditKinds,      \* what the n-th edit may be
    MaxEdits,       \* bound on edits
    MaxUndos,       \* bound on undo and redo calls
    None

ASSUME FreshnessAssumption ==
    /\ MaxEdits \in Nat /\ MaxUndos \in Nat
    /\ EditKinds \in [1..MaxEdits -> SUBSET {"palette", "add_filter", "update_filter"}]

VARIABLES
    docs,           \* every Document object so far
    live,           \* the one DocumentHandle points to
    undo_stack, redo_stack,
    processed, composite,   \* the two cache entries, None if absent
    content_epoch,  \* TileCache::content_epoch
    pending,        \* scheduler: the pending task of each stage
    delayed,        \* the composite tasks DelayedRequeue holds
    main,           \* where the main thread is in its command
    stashed,        \* pending_preview_refresh is Some
    edits, undos,
    pc, task,       \* where each worker is, the task it took
    base,           \* the Document compute_composite_tile holds
    snap,           \* the Document compute_processed_tile holds
    stamp,          \* the content_gen it is about to publish with
    churned,        \* the Processed entry changed since inputs_before
    look            \* the pixels a worker has composited

docVars == <<docs, live, undo_stack, redo_stack>>
cacheVars == <<processed, composite, content_epoch>>
poolVars == <<pending, delayed>>
mainVars == <<main, stashed, edits, undos>>
workerVars == <<pc, task, base, snap, stamp, churned, look>>
vars == <<docVars, cacheVars, poolVars, mainVars, workerVars>>

Doc == docs[live]
Stages == {"processed", "composite"}
Blank == 0      \* the look of a tile that was composited without input

Init ==
    /\ docs = <<[look |-> 1, document_gen |-> 1, content_gen |-> 1, layer_gen |-> 0]>>
    /\ live = 1
    /\ undo_stack = <<>>
    /\ redo_stack = <<>>
    /\ content_epoch = 1
    \* The tile is on the screen, or has just been asked for.
    /\ \/ /\ processed = [look |-> 1, generation |-> 1, dirty |-> FALSE]
          /\ composite = [look |-> 1, generation |-> 1, dirty |-> FALSE]
          /\ pending = [processed |-> None, composite |-> None]
       \/ /\ processed = None
          /\ composite = None
          /\ pending = [processed |-> None, composite |->
                [stage |-> "composite", generation |-> 1, layer_generation |-> 0]]
    /\ delayed = {}
    /\ main = "idle"
    /\ stashed = FALSE
    /\ edits = 0
    /\ undos = 0
    /\ pc = [w \in Workers |-> "idle"]
    /\ task = [w \in Workers |-> None]
    /\ base = [w \in Workers |-> 0]
    /\ snap = [w \in Workers |-> 0]
    /\ stamp = [w \in Workers |-> 0]
    /\ churned = [w \in Workers |-> FALSE]
    /\ look = [w \in Workers |-> Blank]

(***************************************************************************)
(* Shared helpers of the cache, the scheduler and the tasks.               *)
(***************************************************************************)
Larger(a, b) == IF a > b THEN a ELSE b
Behind(entry, gen) == entry = None \/ entry.dirty \/ entry.generation < gen
MarkDirty(entry) == IF entry = None THEN None ELSE [entry EXCEPT !.dirty = TRUE]

\* The layer generation a task of this stage carries: layer 0 has none.
LayerGen(stage) == IF stage = "processed" THEN Doc.layer_gen ELSE 0
LiveTask(stage) ==
    [stage |-> stage, generation |-> Doc.document_gen, layer_generation |-> LayerGen(stage)]
CompositeTask(d) == [stage |-> "composite", generation |-> docs[d].document_gen, layer_generation |-> 0]

\* Mutant: any pending task makes the new one a duplicate.
EnqueuedUnlessPending(t) ==
    IF pending[t.stage] # None THEN pending ELSE [pending EXCEPT ![t.stage] = t]

\* Mutant: the last submission wins, whatever its generation.
EnqueuedAlways(t) == [pending EXCEPT ![t.stage] = t]

\* Scheduler!enqueue_dedup and enqueue_or_bump of one and the same priority.
Enqueued(t) ==
    IF pending[t.stage] # None /\ pending[t.stage].generation >= t.generation
    THEN pending
    ELSE [pending EXCEPT ![t.stage] = t]

task_is_stale(t) ==
    t.generation # Doc.document_gen \/ t.layer_generation # LayerGen(t.stage)

MaxGeneration ==
    Larger(IF processed = None THEN 0 ELSE processed.generation,
           IF composite = None THEN 0 ELSE composite.generation)

(***************************************************************************)
(* The main thread: a command is a sequence of steps.  A palette edit      *)
(* raises content_gen, a filter edit both generations.  add_filter and a   *)
(* palette edit refresh the view themselves; update_filter, remove_filter  *)
(* and toggle_filter ask for it, which PreviewRefresh models in detail:    *)
(* while the workers are busy the request is stashed.                      *)
(***************************************************************************)
Edit ==
    /\ main = "idle"
    /\ edits < MaxEdits
    /\ edits' = edits + 1
    /\ \E kind \in EditKinds[edits + 1] :
        /\ docs' = Append(docs, [look |-> edits + 2,
                                 document_gen |-> Doc.document_gen + (IF kind = "palette" THEN 0 ELSE 1),
                                 content_gen |-> Doc.content_gen + 1,
                                 layer_gen |-> Doc.layer_gen])
        /\ main' = [palette |-> "invalidate", add_filter |-> "layer_gen",
                    update_filter |-> "layer_gen_request"][kind]
    /\ live' = Len(docs) + 1
    /\ undo_stack' = Append(undo_stack, live)
    /\ redo_stack' = <<>>
    /\ UNCHANGED <<cacheVars, poolVars, stashed, undos, workerVars>>

\* increment_layer_gen on the live document, after the new one is in place.
IncrementLayerGen ==
    /\ main \in {"layer_gen", "layer_gen_request"}
    /\ docs' = [docs EXCEPT ![live].layer_gen = @ + 1]
    /\ main' = IF main = "layer_gen" THEN "invalidate" ELSE "request"
    /\ UNCHANGED <<live, undo_stack, redo_stack, cacheVars, poolVars, stashed, edits, undos, workerVars>>

\* Where a worker has no task in flight.
Resting == {"idle", "finished", "drain", "run", "run_composite", "run_snapshot",
            "run_epoch", "run_enqueue"}

\* preview_pass_busy: tasks in flight, or queued_len() > 0.  A task is counted
\* in flight a moment after it is taken, and the counter of the queue lags the
\* queue and may wrap below zero (PreviewRefresh has both step by step): only a
\* worker that is past its first stale test makes the answer sure here.
BusyTest(busy) == (\E w \in Workers : pc[w] \notin Resting \union {"check"}) => busy

RequestRefresh ==
    /\ main = "request"
    /\ \E busy \in BOOLEAN : BusyTest(busy) /\ main' = IF busy THEN "stash" ELSE "invalidate"
    /\ UNCHANGED <<docVars, cacheVars, poolVars, stashed, edits, undos, workerVars>>

StashRefresh ==
    /\ main = "stash"
    /\ stashed' = TRUE
    /\ main' = "idle"
    /\ UNCHANGED <<docVars, cacheVars, poolVars, edits, undos, workerVars>>

\* apply_undo or apply_redo up to DocumentHandle::store of a clone.
Restore(from, to, from_, to_) ==
    /\ from # <<>>
    /\ docs' = Append(docs, docs[from[Len(from)]])
    /\ live' = Len(docs) + 1
    /\ from_ = SubSeq(from, 1, Len(from) - 1)
    /\ to_ = Append(to, live)

UndoOrRedo ==
    /\ main = "idle"
    /\ undos < MaxUndos
    /\ undos' = undos + 1
    /\ \/ Restore(undo_stack, redo_stack, undo_stack', redo_stack')
       \/ Restore(redo_stack, undo_stack, redo_stack', undo_stack')
    /\ main' = "bump"
    /\ UNCHANGED <<cacheVars, poolVars, stashed, edits, workerVars>>

\* bump_live_document_gen: past the restored document and the cache.
BumpLiveDocumentGen ==
    /\ main = "bump"
    /\ LET next == Larger(Doc.document_gen, MaxGeneration) + 1
       IN  docs' = [docs EXCEPT ![live].document_gen = next,
                                ![live].content_gen = Larger(@, next)]
    /\ main' = "invalidate"
    /\ UNCHANGED <<live, undo_stack, redo_stack, cacheVars, poolVars, stashed, edits, undos, workerVars>>

\* LayerFilterChanged, or invalidate_after_document_replace.
InvalidateProcessed ==
    /\ main = "invalidate"
    /\ processed' = MarkDirty(processed)
    /\ main' = "invalidate_composite"
    /\ UNCHANGED <<docVars, composite, content_epoch, poolVars, stashed, edits, undos, workerVars>>

InvalidateComposite ==
    /\ main = "invalidate_composite"
    /\ composite' = MarkDirty(composite)
    /\ main' = "schedule"
    /\ UNCHANGED <<docVars, processed, content_epoch, poolVars, stashed, edits, undos, workerVars>>

\* schedule_dirty_viewport_tiles.
SetEpoch ==
    /\ main = "schedule"
    /\ content_epoch' = Doc.content_gen
    /\ main' = "enqueue"
    /\ UNCHANGED <<docVars, processed, composite, poolVars, stashed, edits, undos, workerVars>>

\* The visible tile gets a task of the document held here, if it needs one.
EnqueueIfBehind(held) ==
    pending' = IF Behind(composite, docs[held].content_gen) THEN Enqueued(CompositeTask(held)) ELSE pending

EnqueueVisible ==
    /\ main = "enqueue"
    /\ EnqueueIfBehind(live)
    /\ main' = "idle"
    /\ UNCHANGED <<docVars, cacheVars, delayed, stashed, edits, undos, workerVars>>

Main ==
    \/ Edit
    \/ IncrementLayerGen
    \/ RequestRefresh
    \/ StashRefresh
    \/ UndoOrRedo
    \/ BumpLiveDocumentGen
    \/ InvalidateProcessed
    \/ InvalidateComposite
    \/ SetEpoch
    \/ EnqueueVisible

\* The frontend asks for the tile: handle_tile_request enqueues unless fresh.
ServedFresh == ~Behind(composite, Doc.content_gen)

Pull ==
    /\ ~ServedFresh
    /\ pending' = Enqueued(LiveTask("composite"))
    /\ UNCHANGED <<docVars, cacheVars, delayed, mainVars, workerVars>>

(***************************************************************************)
(* Workers.  Goto(w, l) moves worker w and leaves its other locals alone.  *)
(***************************************************************************)
Goto(w, label) == pc' = [pc EXCEPT ![w] = label]
Local(w, label) == Goto(w, label) /\ UNCHANGED <<task, base, snap, stamp, churned, look>>

\* set_content_epoch(snapshot.content_gen) of a held document: a plain store.
MirrorEpoch(w, at, held, next) ==
    /\ pc[w] = at
    /\ content_epoch' = docs[held].content_gen
    /\ Local(w, next)
    /\ UNCHANGED <<docVars, processed, composite, poolVars, mainVars>>

Dequeue(w) ==
    /\ pc[w] = "idle"
    /\ \E stage \in Stages :
        /\ pending[stage] # None
        /\ task' = [task EXCEPT ![w] = pending[stage]]
        /\ pending' = [pending EXCEPT ![stage] = None]
    /\ Goto(w, "check")
    /\ UNCHANGED <<docVars, cacheVars, delayed, mainVars, base, snap, stamp, churned, look>>

\* The locals of a compute call are dead when it returns.
Reset(w, t, label) ==
    /\ task' = [task EXCEPT ![w] = t]
    /\ base' = [base EXCEPT ![w] = 0]
    /\ snap' = [snap EXCEPT ![w] = 0]
    /\ stamp' = [stamp EXCEPT ![w] = 0]
    /\ churned' = [churned EXCEPT ![w] = FALSE]
    /\ look' = [look EXCEPT ![w] = Blank]
    /\ Goto(w, label)
Forget(w) == Reset(w, None, "finished")
Computed(w) == Reset(w, task[w], "computed")

\* Mutant: the worker goes back to the queue with the stale task in hand.
DropStaleKept(w) ==
    /\ pc[w] \in {"check", "computed"}
    /\ task_is_stale(task[w])
    /\ Reset(w, task[w], "idle")
    /\ UNCHANGED <<docVars, cacheVars, poolVars, mainVars>>

DropStale(w) ==
    /\ pc[w] \in {"check", "computed"}
    /\ task_is_stale(task[w])
    /\ Forget(w)
    /\ UNCHANGED <<docVars, cacheVars, poolVars, mainVars>>

StartCompute(w) ==
    /\ pc[w] = "check"
    /\ ~task_is_stale(task[w])
    /\ Local(w, IF task[w].stage = "composite" THEN "composite" ELSE "processed")
    /\ UNCHANGED <<docVars, cacheVars, poolVars, mainVars>>

(***************************************************************************)
(* compute_processed_tile, as a task or inline in a composite.             *)
(***************************************************************************)
\* The generations of the snapshot and of the live document are compared; the
\* insert that follows is a later step.
SameGenerations(held) ==
    /\ docs[held].document_gen = Doc.document_gen
    /\ docs[held].content_gen = Doc.content_gen

SnapshotProcessed(w) ==
    /\ pc[w] = "processed"
    /\ snap' = [snap EXCEPT ![w] = live]
    /\ Goto(w, "processed_epoch")
    /\ UNCHANGED <<docVars, cacheVars, poolVars, mainVars, task, base, stamp, churned, look>>

\* Mutant: the tile is published without comparing the generations, at the
\* live content generation.
CheckProcessedUnguarded(w) ==
    /\ pc[w] = "processed_check"
    /\ stamp' = [stamp EXCEPT ![w] = Doc.content_gen]
    /\ Goto(w, "processed_insert")
    /\ UNCHANGED <<docVars, cacheVars, poolVars, mainVars, task, base, snap, churned, look>>

CheckProcessed(w) ==
    /\ pc[w] = "processed_check"
    /\ stamp' = [stamp EXCEPT ![w] = docs[snap[w]].content_gen]
    /\ Goto(w, IF SameGenerations(snap[w]) THEN "processed_insert" ELSE "processed_reject")
    /\ UNCHANGED <<docVars, cacheVars, poolVars, mainVars, task, base, snap, churned, look>>

\* insert_fresh_gen refuses only an older generation.
Refused(entry, w) == entry # None /\ entry.generation > stamp[w]

InsertProcessed(w) ==
    /\ pc[w] = "processed_insert"
    /\ IF Refused(processed, w)
       THEN UNCHANGED <<processed, churned>> /\ Goto(w, "processed_reject")
       ELSE /\ processed' = [look |-> docs[snap[w]].look, generation |-> stamp[w], dirty |-> FALSE]
            /\ churned' = [v \in Workers |-> pc[v] \in {"blend", "composite_check"}]
            /\ Goto(w, "fed_by")
    /\ UNCHANGED <<docVars, composite, content_epoch, poolVars, mainVars, task, base, snap, stamp, look>>

\* Where compute_processed_tile returns to.
ReturnProcessed(w) ==
    IF task[w].stage = "processed" THEN Computed(w)
    ELSE /\ snap' = [snap EXCEPT ![w] = 0]
         /\ stamp' = [stamp EXCEPT ![w] = 0]
         /\ Goto(w, "inputs")
         /\ UNCHANGED <<task, base, churned, look>>

\* reschedule_if_insert_rejected: only an entry behind the live content.
Rescheduled(entry, stage) ==
    IF entry # None /\ Doc.content_gen > entry.generation
    THEN Enqueued(LiveTask(stage)) ELSE pending
DirtyIfBehind(entry) ==
    IF entry # None /\ Doc.content_gen > entry.generation THEN MarkDirty(entry) ELSE entry

RejectProcessed(w) ==
    /\ pc[w] = "processed_reject"
    /\ processed' = DirtyIfBehind(processed)
    /\ pending' = Rescheduled(processed, "processed")
    /\ ReturnProcessed(w)
    /\ UNCHANGED <<docVars, composite, content_epoch, delayed, mainVars>>

\* invalidate_composites_fed_by the Processed insert.
InvalidateFedBy(w) ==
    /\ pc[w] = "fed_by"
    /\ composite' = MarkDirty(composite)
    /\ pending' = Enqueued(LiveTask("composite"))
    /\ ReturnProcessed(w)
    /\ UNCHANGED <<docVars, processed, content_epoch, delayed, mainVars>>

ComputeProcessed(w) ==
    \/ SnapshotProcessed(w)
    \/ MirrorEpoch(w, "processed_epoch", snap[w], "processed_check")
    \/ CheckProcessed(w)
    \/ InsertProcessed(w)
    \/ RejectProcessed(w)
    \/ InvalidateFedBy(w)

(***************************************************************************)
(* compute_composite_tile at level 0.                                      *)
(***************************************************************************)
SnapshotComposite(w) ==
    /\ pc[w] = "composite"
    /\ base' = [base EXCEPT ![w] = live]
    /\ Goto(w, "composite_epoch")
    /\ UNCHANGED <<docVars, cacheVars, poolVars, mainVars, task, snap, stamp, churned, look>>

\* ensure_processed_tiles_fresh: is the input missing, dirty or behind?
EnsureProcessed(w) ==
    /\ pc[w] = "ensure"
    /\ Local(w, IF Behind(processed, content_epoch) THEN "processed" ELSE "inputs")
    /\ UNCHANGED <<docVars, cacheVars, poolVars, mainVars>>

\* The versions of the inputs, then their pixels.
InputVersions(w) ==
    /\ pc[w] = "inputs"
    /\ churned' = [churned EXCEPT ![w] = processed = None]
    /\ Goto(w, "blend")
    /\ UNCHANGED <<docVars, cacheVars, poolVars, mainVars, task, base, snap, stamp, look>>

Blend(w) ==
    /\ pc[w] = "blend"
    /\ look' = [look EXCEPT ![w] = IF processed = None THEN Blank ELSE processed.look]
    /\ Goto(w, "composite_check")
    /\ UNCHANGED <<docVars, cacheVars, poolVars, mainVars, task, base, snap, stamp, churned>>

\* Mutant: the generations are not compared again after the blend.
CheckCompositeUnguarded(w) ==
    /\ pc[w] = "composite_check"
    /\ stamp' = [stamp EXCEPT ![w] = Doc.content_gen]
    /\ Goto(w, IF churned[w] THEN "composite_retry" ELSE "recheck")
    /\ churned' = [churned EXCEPT ![w] = FALSE]
    /\ UNCHANGED <<docVars, cacheVars, poolVars, mainVars, task, base, snap, look>>

CheckComposite(w) ==
    /\ pc[w] = "composite_check"
    /\ stamp' = [stamp EXCEPT ![w] = docs[base[w]].content_gen]
    /\ Goto(w, IF ~SameGenerations(base[w]) THEN "composite_reject"
               ELSE IF churned[w] THEN "composite_retry" ELSE "recheck")
    /\ churned' = [churned EXCEPT ![w] = FALSE]
    /\ UNCHANGED <<docVars, cacheVars, poolVars, mainVars, task, base, snap, look>>

\* The inputs changed under the blend: dirty and once more.
RetryComposite(w) ==
    /\ pc[w] = "composite_retry"
    /\ composite' = MarkDirty(composite)
    /\ pending' = Enqueued(LiveTask("composite"))
    /\ Computed(w)
    /\ UNCHANGED <<docVars, processed, content_epoch, delayed, mainVars>>

\* visible_processed_tile_fresh: else reschedule, and the worker parks the
\* task in DelayedRequeue (EdPrefixPending without any dependency).
RecheckProcessed(w) ==
    /\ pc[w] = "recheck"
    /\ IF Behind(processed, content_epoch)
       THEN /\ composite' = DirtyIfBehind(composite)
            /\ pending' = Rescheduled(composite, "composite")
            /\ delayed' = delayed \union {task[w]}
            /\ Forget(w)
       ELSE /\ Local(w, "composite_insert")
            /\ UNCHANGED <<composite, pending, delayed>>
    /\ UNCHANGED <<docVars, processed, content_epoch, mainVars>>

InsertComposite(w) ==
    /\ pc[w] = "composite_insert"
    /\ IF Refused(composite, w)
       THEN UNCHANGED composite /\ Local(w, "composite_reject")
       ELSE /\ composite' = [look |-> look[w], generation |-> stamp[w], dirty |-> FALSE]
            /\ Computed(w)
    /\ UNCHANGED <<docVars, processed, content_epoch, poolVars, mainVars>>

RejectComposite(w) ==
    /\ pc[w] = "composite_reject"
    /\ composite' = DirtyIfBehind(composite)
    /\ pending' = Rescheduled(composite, "composite")
    /\ Computed(w)
    /\ UNCHANGED <<docVars, processed, content_epoch, delayed, mainVars>>

ComputeComposite(w) ==
    \/ SnapshotComposite(w)
    \/ MirrorEpoch(w, "composite_epoch", base[w], "ensure")
    \/ EnsureProcessed(w)
    \/ InputVersions(w)
    \/ Blend(w)
    \/ CheckComposite(w)
    \/ RetryComposite(w)
    \/ RecheckProcessed(w)
    \/ InsertComposite(w)
    \/ RejectComposite(w)

(***************************************************************************)
(* The rest of the worker's turn: a composite mirrors the live epoch once  *)
(* more before tile-ready is decided.                                      *)
(***************************************************************************)
Announce(w) ==
    /\ pc[w] = "computed"
    /\ ~task_is_stale(task[w])
    /\ IF task[w].stage = "composite"
       THEN /\ base' = [base EXCEPT ![w] = live]
            /\ Goto(w, "announce")
            /\ UNCHANGED <<task, snap, stamp, churned, look>>
       ELSE Forget(w)
    /\ UNCHANGED <<docVars, cacheVars, poolVars, mainVars>>

AnnounceEpoch(w) ==
    /\ pc[w] = "announce"
    /\ content_epoch' = docs[base[w]].content_gen
    /\ Forget(w)
    /\ UNCHANGED <<docVars, processed, composite, poolVars, mainVars>>

(***************************************************************************)
(* on_preview_task_finished: a worker that sees no work left drains the    *)
(* stash and runs the refresh itself.                                      *)
(***************************************************************************)
TaskFinished(w) ==
    /\ pc[w] = "finished"
    /\ \E busy \in BOOLEAN : BusyTest(busy) /\ Local(w, IF busy THEN "idle" ELSE "drain")
    /\ UNCHANGED <<docVars, cacheVars, poolVars, mainVars>>

DrainPending(w) ==
    /\ pc[w] = "drain"
    /\ stashed' = FALSE
    /\ Local(w, IF stashed THEN "run" ELSE "idle")
    /\ UNCHANGED <<docVars, cacheVars, poolVars, main, edits, undos>>

RunInvalidateProcessed(w) ==
    /\ pc[w] = "run"
    /\ processed' = MarkDirty(processed)
    /\ Local(w, "run_composite")
    /\ UNCHANGED <<docVars, composite, content_epoch, poolVars, mainVars>>

RunInvalidateComposite(w) ==
    /\ pc[w] = "run_composite"
    /\ composite' = MarkDirty(composite)
    /\ Local(w, "run_snapshot")
    /\ UNCHANGED <<docVars, processed, content_epoch, poolVars, mainVars>>

\* schedule_dirty_viewport_tiles holds this document to the end.
RunSnapshot(w) ==
    /\ pc[w] = "run_snapshot"
    /\ base' = [base EXCEPT ![w] = live]
    /\ Goto(w, "run_epoch")
    /\ UNCHANGED <<docVars, cacheVars, poolVars, mainVars, task, snap, stamp, churned, look>>

RunEnqueueVisible(w) ==
    /\ pc[w] = "run_enqueue"
    /\ EnqueueIfBehind(base[w])
    /\ Reset(w, None, "idle")
    /\ UNCHANGED <<docVars, cacheVars, delayed, main, stashed, edits, undos>>

RunRefresh(w) ==
    \/ RunInvalidateProcessed(w)
    \/ RunInvalidateComposite(w)
    \/ RunSnapshot(w)
    \/ MirrorEpoch(w, "run_epoch", base[w], "run_enqueue")
    \/ RunEnqueueVisible(w)

Worker(w) ==
    \/ Dequeue(w)
    \/ DropStale(w)
    \/ StartCompute(w)
    \/ ComputeProcessed(w)
    \/ ComputeComposite(w)
    \/ Announce(w)
    \/ AnnounceEpoch(w)
    \/ TaskFinished(w)
    \/ DrainPending(w)
    \/ RunRefresh(w)

\* DelayedRequeue after its backoff: back to the scheduler unless stale.
Requeue(t) ==
    /\ t \in delayed
    /\ delayed' = delayed \ {t}
    /\ pending' = IF t.generation = Doc.document_gen THEN Enqueued(t) ELSE pending
    /\ UNCHANGED <<docVars, cacheVars, mainVars, workerVars>>

Next ==
    \/ Main
    \/ Pull
    \/ \E w \in Workers : Worker(w)
    \/ \E t \in delayed : Requeue(t)

Spec == Init /\ [][Next]_vars

\* The main thread finishes a command it started, the workers take tasks and
\* finish them, the requeue thread wakes up.  Nothing is assumed of edits, of
\* undo or of the frontend asking again.
Fairness ==
    /\ WF_vars(main # "idle" /\ Main)
    /\ \A w \in Workers : WF_vars(Worker(w))
    /\ WF_vars(\E t \in delayed : Requeue(t))

FairSpec == Spec /\ Fairness

-----------------------------------------------------------------------------
Look == Blank..(MaxEdits + 1)
Entry == [look : Look, generation : Nat, dirty : BOOLEAN]
TaskType == [stage : Stages, generation : Nat, layer_generation : Nat]
PoolTask == [key : Stages, generation : Nat, layer_generation : Nat, priority : {0}]

ASSUME NoneAssumption == None \notin Entry /\ None \notin TaskType /\ None \notin PoolTask

TypeOK ==
    /\ docs \in Seq([look : Look, document_gen : Nat, content_gen : Nat, layer_gen : Nat])
    /\ live \in 1..Len(docs)
    /\ undo_stack \in Seq(1..Len(docs)) /\ redo_stack \in Seq(1..Len(docs))
    /\ processed \in Entry \union {None}
    /\ composite \in Entry \union {None}
    /\ content_epoch \in Nat
    /\ \A stage \in Stages :
        pending[stage] = None \/ (pending[stage] \in TaskType /\ pending[stage].stage = stage)
    /\ delayed \subseteq TaskType
    /\ \A w \in Workers : (pc[w] \in Resting) = (task[w] = None)

AtRest ==
    /\ main = "idle"
    /\ \A stage \in Stages : pending[stage] = None
    /\ delayed = {}
    /\ \A w \in Workers : pc[w] = "idle"

\* The pixels under a stamp are those of a document with that content
\* generation: no worker publishes what it computed from one document under
\* the generation of another, however edits, undo and redo fall between its
\* steps (tile_pipeline.rs:604-619).
StampNamesPixels ==
    processed # None =>
        \E d \in 1..Len(docs) :
            docs[d].content_gen = processed.generation /\ docs[d].look = processed.look

\* The queue seen as the pool of TaskPool; a task is in a worker's hands until
\* its first stale test.
AsTask(t) ==
    IF t = None THEN None
    ELSE [key |-> t.stage, generation |-> t.generation,
          layer_generation |-> t.layer_generation, priority |-> 0]
AsPool == [stage \in Stages |-> AsTask(pending[stage])]
Handed == [w \in Workers |-> IF pc[w] = "check" THEN AsTask(task[w]) ELSE None]

Pool == INSTANCE TaskPool WITH
    Keys <- Stages, Task <- PoolTask, Tasks <- PoolTask, NoTask <- None,
    pool <- AsPool, out <- Handed

QueueStep ==
    \/ \E stage \in Stages : Pool!Submit(AsTask(LiveTask(stage)))
    \/ \E t \in delayed : Pool!Submit(AsTask(t))
    \/ \E w \in Workers : pc[w] = "run_enqueue" /\ Pool!Submit(AsTask(CompositeTask(base[w])))
    \/ \E w \in Workers : Pool!Finish(w) \/ \E stage \in Stages : Pool!Take(w, stage)

\* The queue keeps what the scheduler promises (scheduler.rs:1-5, 59-132), so
\* it may stand for the scheduler here: whatever the main thread, the workers
\* and the requeue thread do to it is one submission, of the live task or of a
\* parked one, that no older one replaces (a restored document submits lower
\* generations, and so does a deferred refresh that an edit overtakes), or one
\* task handed to one worker (worker.rs:122-197).
QueueIsPool == [][QueueStep]_(Pool!poolVars)

\* When everything has stopped, a tile the protocol serves as fresh shows the
\* live document (tile_pipeline.rs:888-920, tile_serve.rs:201-210).
FreshShowsLive == AtRest /\ ServedFresh => composite.look = Doc.look

\* When everything has stopped the tile is fresh, or the refresh that would make
\* it so lies in the stash: a task, a parked retry, a refresh or a running
\* worker is always left to answer for a tile that is not.  A task that is
\* dropped as stale or rejected as a duplicate, a refused insert and a dirty
\* bit each leave that to another one, often of another thread (worker.rs:687,
\* scheduler.rs:59-84, tile_pipeline.rs:904-933, 967-991).  The stash is the
\* one exception, and the code has it: update_filter may put its refresh there
\* after the last worker has looked (commands/mod.rs:528-556, 664-696).
RestIsFresh == AtRest => stashed \/ ServedFresh

\* And the tile does become fresh, or its refresh is left in the stash: no edit
\* is lost between a stale task that is dropped, an insert that is refused, a
\* dirty bit that a late insert clears, a task that is rejected as a duplicate
\* and a deferred refresh that overlaps the next edit; and retries end.
EventuallyFresh == <>[](AtRest /\ (stashed \/ ServedFresh))

\* After one undo the tile becomes fresh as well, unless the live content_gen
\* stays behind the cache: bump_live_document_gen (undo.rs:297-307) goes past
\* the restored document_gen and past the cache of that moment, and a worker
\* that still holds the undone document inserts its tile after it.  A second
\* undo may leave it stale in one more way (the pending task of the first has
\* a higher generation, swallows the second's and is then dropped as stale),
\* about which nothing is said here.
CacheAhead == \E e \in {processed, composite} : e # None /\ e.generation > Doc.content_gen

FreshUnlessCacheAhead ==
    \/ <>[](undos > 1 \/ (AtRest /\ (stashed \/ ServedFresh)))
    \/ <>[]CacheAhead

=============================================================================
