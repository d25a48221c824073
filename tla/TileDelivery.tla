---------------------------- MODULE TileDelivery ----------------------------
(***************************************************************************)
(* One visible composite tile on its way to the screen.  The webview asks  *)
(* tile:// for it; the handler serves it fresh, stale, upsampled from an   *)
(* ancestor, or answers 202 and registers it as awaited; a worker that has *)
(* inserted it announces it; the canvas draws what is not older than what  *)
(* it shows, and asks again on tile-ready, ed-progress and a safety timer. *)
(*                                                                         *)
(* TileFreshness models how the tile becomes fresh; here an edit is one    *)
(* step and a worker's job publishes or is put back.                       *)
(***************************************************************************)
EXTENDS Naturals, Sequences, FiniteSets, Bags

CONSTANTS
    EditKinds,      \* "content-changed" (palette, proof), "document-changed" (the others)
    MaxEdits,
    MaxRetries,     \* the fetch worker's silent retries of a queued tile (5 in the code)
    MaxEvents,      \* bound: events on their way to the webview
    MaxFetches,     \* bound: fetches outstanding when an event or a timer adds one
    None

ASSUME DeliveryAssumption ==
    /\ EditKinds \subseteq {"content-changed", "document-changed"}
    /\ MaxEdits \in Nat /\ MaxRetries \in Nat
    /\ MaxEvents \in Nat \ {0} /\ MaxFetches \in Nat \ {0}
    /\ None \notin Nat \cup [generation : Nat, dirty : BOOLEAN]

\* "Nothing" is neither an entry of eventDrivenPending nor a request.
ASSUME NothingAssumption ==
    /\ None \notin [inflight : BOOLEAN, needsRefetch : BOOLEAN,
                    refetchDone : BOOLEAN, maxKnownGen : Nat]
    /\ None \notin [at : {"enqueue", "classify"},
                    fetch : [rev : Nat, tries : Nat,
                             answer : {None}
                                \cup [status : {200}, quality : {"fresh", "stale", "upsample"}, gen : Nat]
                                \cup [status : {202}, reason : {"ed_prefix", "queued", "computing"}]]]

VARIABLES
    content_gen, document_gen, edits,     \* the live document
    entry,          \* the cached composite: None or [generation, dirty]
    task,           \* a task for it is pending in the scheduler
    registered,     \* it is in the registry of awaited tiles
    worker,         \* what the worker does: [at, generation, document_gen]
    handler,        \* the tile:// request being served, or None
    fetches,        \* bag of fetches: posted, or answered and not yet seen
    events,         \* events emitted and not yet seen, in order
    tileRev, maxKnownGen,                 \* the canvas, for all its tiles
    bitmap,         \* what is drawn: None or [gen, quality]
    tileGen, tileSource, tileMaxGen,      \* what it remembers of this tile
    pending         \* the tile's eventDrivenPending entry, or None

backend == <<content_gen, document_gen, edits, entry, task, registered, worker>>
tracked == <<tileGen, tileSource, tileMaxGen>>
canvas == <<tileRev, maxKnownGen, bitmap, tracked, pending>>
vars == <<backend, handler, fetches, events, canvas>>

Fetch(rev) == [rev |-> rev, tries |-> 0, answer |-> None]

WorkerIdle == [at |-> "idle", generation |-> 0, document_gen |-> 0]

Init ==
    /\ content_gen = 1 /\ document_gen = 1 /\ edits = 0
    /\ entry = None /\ task = FALSE /\ registered = FALSE
    /\ worker = WorkerIdle
    /\ handler = None
    /\ fetches = SetToBag({Fetch(1)})
    /\ events = <<>>
    /\ tileRev = 1 /\ maxKnownGen = 0
    /\ bitmap = None
    /\ tileGen = None /\ tileSource = None /\ tileMaxGen = None
    /\ pending = None

-----------------------------------------------------------------------------
(* The live document and the worker.                                       *)

Emit(event) ==
    /\ Len(events) < MaxEvents
    /\ events' = Append(events, event)

\* An edit command: generations, dirty mark, viewport task and event.  It runs
\* on the main thread, as the tile:// handler does.
Edit ==
    /\ edits < MaxEdits /\ handler = None
    /\ edits' = edits + 1
    /\ content_gen' = content_gen + 1
    /\ \E kind \in EditKinds :
        /\ document_gen' = IF kind = "content-changed" THEN document_gen ELSE document_gen + 1
        /\ Emit([type |-> kind, gen |-> content_gen + 1])
    /\ entry' = IF entry = None THEN None ELSE [entry EXCEPT !.dirty = TRUE]
    /\ task' = TRUE
    /\ UNCHANGED <<registered, worker, handler, fetches, canvas>>

Fresh == entry # None /\ ~entry.dirty /\ entry.generation >= content_gen

TakeTask ==
    /\ worker.at = "idle" /\ task
    /\ task' = FALSE
    /\ worker' = [at |-> "computing", generation |-> content_gen, document_gen |-> document_gen]
    /\ UNCHANGED <<content_gen, document_gen, edits, entry, registered,
                   handler, fetches, events, canvas>>

\* A tile of superseded generations is not inserted; its task is put back.
Publish ==
    /\ worker.at = "computing"
    /\ IF worker.generation = content_gen
       THEN /\ entry' = [generation |-> content_gen, dirty |-> FALSE]
            /\ UNCHANGED task
       ELSE /\ task' = TRUE
            /\ UNCHANGED entry
    /\ worker' = [worker EXCEPT !.at = "look", !.generation = 0]
    /\ UNCHANGED <<content_gen, document_gen, edits, registered,
                   handler, fetches, events, canvas>>

\* The worker looks whether the tile can be announced and whether it is awaited;
\* one that is not awaited is announced if its level is the viewport's.
Look ==
    /\ worker.at = "look"
    /\ IF worker.document_gen < document_gen \/ ~Fresh
       THEN worker' = WorkerIdle
       ELSE \/ /\ registered
               /\ worker' = [WorkerIdle EXCEPT !.at = "notify"]
            \/ /\ ~registered
               /\ \/ worker' = [WorkerIdle EXCEPT !.at = "emit", !.generation = entry.generation]
                  \/ worker' = WorkerIdle
    /\ UNCHANGED <<content_gen, document_gen, edits, entry, task, registered,
                   handler, fetches, events, canvas>>

\* notify_if_pending: fresh still, and the registration still there to be taken.
NotifyIfPending ==
    /\ worker.at = "notify"
    /\ worker' = WorkerIdle
    /\ IF Fresh /\ registered
       THEN /\ registered' = FALSE
            /\ Emit([type |-> "tile-ready", gen |-> entry.generation])
       ELSE UNCHANGED <<registered, events>>
    /\ UNCHANGED <<content_gen, document_gen, edits, entry, task, handler, fetches, canvas>>

EmitReady ==
    /\ worker.at = "emit"
    /\ worker' = WorkerIdle
    /\ Emit([type |-> "tile-ready", gen |-> worker.generation])
    /\ UNCHANGED <<content_gen, document_gen, edits, entry, task, registered,
                   handler, fetches, canvas>>

-----------------------------------------------------------------------------
(* The tile:// handler: one request at a time.                             *)

Without(f) == fetches (-) SetToBag({f})
And(bag, f) == bag (+) SetToBag({f})

Served(f, quality, gen) == [f EXCEPT !.answer = [status |-> 200, quality |-> quality, gen |-> gen]]

\* resolve_preview_tile.  Whether a coarser composite is cached is not tracked.
Resolve(f) ==
    /\ handler = None /\ f.answer = None
    /\ \/ /\ Fresh
          /\ fetches' = And(Without(f), Served(f, "fresh", entry.generation))
          /\ UNCHANGED handler
       \/ /\ entry # None /\ ~Fresh
          /\ fetches' = Without(f)
          /\ handler' = [at |-> "enqueue", fetch |-> Served(f, "stale", entry.generation)]
       \/ /\ entry = None
          /\ fetches' = Without(f)
          /\ \/ handler' = [at |-> "enqueue", fetch |-> Served(f, "upsample", document_gen)]
             \/ handler' = [at |-> "enqueue", fetch |-> f]
    /\ UNCHANGED <<backend, events, canvas>>

\* What is not fresh is asked of the workers.
Enqueue ==
    /\ handler # None /\ handler.at = "enqueue"
    /\ task' = TRUE
    /\ IF handler.fetch.answer # None
       THEN /\ fetches' = And(fetches, handler.fetch)
            /\ handler' = None
       ELSE /\ handler' = [handler EXCEPT !.at = "classify"]
            /\ UNCHANGED fetches
    /\ UNCHANGED <<content_gen, document_gen, edits, entry, registered, worker, events, canvas>>

\* classify_pending, with waiting_children and ed_prefix as one.
PendingReason == {"ed_prefix", IF task THEN "queued" ELSE "computing"}

\* Mutant: the 202 is answered without a registration.
AnswerPending ==
    /\ handler # None /\ handler.at = "classify"
    /\ \E reason \in PendingReason :
        fetches' = And(fetches, [handler.fetch EXCEPT !.answer = [status |-> 202, reason |-> reason]])
    /\ handler' = None
    /\ UNCHANGED <<backend, events, canvas>>

Register ==
    /\ handler # None /\ handler.at = "classify"
    /\ registered' = TRUE
    /\ \E reason \in PendingReason :
        fetches' = And(fetches, [handler.fetch EXCEPT !.answer = [status |-> 202, reason |-> reason]])
    /\ handler' = None
    /\ UNCHANGED <<content_gen, document_gen, edits, entry, task, worker, events, canvas>>

-----------------------------------------------------------------------------
(* The canvas.  Where the code writes a ?? b, Or(a, b).                    *)

Or(a, b) == IF a = None THEN b ELSE a
Larger(a, b) == IF a > b THEN a ELSE b

\* A new entry of eventDrivenPending.  Its rev is not kept: every bump of
\* tileRev clears the entries.
Tracked(inflight, needs, done, max) ==
    [inflight |-> inflight, needsRefetch |-> needs, refetchDone |-> done, maxKnownGen |-> max]

WakeFetch == Fetch(tileRev)

\* A response of an earlier tileRev: the tile may be asked for again.
DropDecoded(f) ==
    /\ pending' = IF pending = None THEN None ELSE [pending EXCEPT !.inflight = FALSE]
    /\ fetches' = Without(f)
    /\ UNCHANGED <<tileRev, maxKnownGen, bitmap, tracked>>

\* Mutant: an older body may replace a newer one.
NeverDiscard(gen) == FALSE

\* A body older than what is drawn is thrown away.
shouldDiscardStaleGen(gen) == tileGen # None /\ gen < tileGen

\* Mutant: a body of the newest known generation counts as behind.
LagsOrEqual(answer, max) == answer.quality # "fresh" \/ answer.gen <= max

\* A body that is not final: not fresh, or behind what is known to be ready.
Lags(answer, max) == answer.quality # "fresh" \/ answer.gen < max

Draw(answer) ==
    /\ bitmap' = [gen |-> answer.gen, quality |-> answer.quality]
    /\ tileGen' = answer.gen
    /\ tileSource' = answer.quality

\* tile-decoded of the current tileRev.  A fresh body raises the known
\* generations; a body that lags, or is not fresh, is asked for once more and
\* then left to the safety timer.
Decoded(f) ==
    LET gen == f.answer.gen
        fresh == f.answer.quality = "fresh"
        ready == IF fresh THEN gen ELSE 0
        needs == pending # None /\ pending.needsRefetch
        done == pending # None /\ pending.refetchDone
        max == Larger(IF pending = None THEN Or(tileMaxGen, 0) ELSE pending.maxKnownGen,
                      Larger(ready, Or(tileMaxGen, 0)))
        lags == Lags(f.answer, max)
        retry == ~done /\ (needs \/ lags)
        awaits == done /\ lags
        discard == shouldDiscardStaleGen(gen)
        better == tileGen = None \/ gen > tileGen
    IN
    /\ maxKnownGen' = Larger(maxKnownGen, ready)
    /\ tileMaxGen' = IF fresh THEN max ELSE tileMaxGen
    /\ fetches' = IF retry THEN And(Without(f), WakeFetch) ELSE Without(f)
    /\ pending' = CASE retry -> Tracked(TRUE, FALSE, TRUE, max)
                    [] ~retry /\ awaits /\ discard -> [pending EXCEPT !.inflight = FALSE]
                    [] ~retry /\ awaits /\ ~discard -> Tracked(FALSE, FALSE, TRUE, max)
                    [] OTHER -> None
    /\ IF discard \/ (retry /\ ~better)
       THEN UNCHANGED <<bitmap, tileGen, tileSource>>
       ELSE Draw(f.answer)
    /\ UNCHANGED tileRev

\* tile-pending with a reason that waits for events.
TilePending(f) ==
    /\ pending' =
        IF f.rev # tileRev THEN pending
        ELSE IF pending # None THEN pending
        ELSE Tracked(FALSE, FALSE, FALSE, Or(tileMaxGen, maxKnownGen))
    /\ fetches' = Without(f)
    /\ UNCHANGED <<tileRev, maxKnownGen, bitmap, tracked>>

\* Mutant: one retry too many.
RetryQueuedOnceMore(f) ==
    /\ fetches' = IF f.tries <= MaxRetries
                  THEN And(Without(f), [f EXCEPT !.tries = @ + 1, !.answer = None])
                  ELSE Without(f)
    /\ UNCHANGED canvas

\* The fetch worker retries what is queued, and says nothing of it.
RetryQueued(f) ==
    /\ fetches' = IF f.tries < MaxRetries
                  THEN And(Without(f), [f EXCEPT !.tries = @ + 1, !.answer = None])
                  ELSE Without(f)
    /\ UNCHANGED canvas

Deliver(f) ==
    /\ f.answer # None
    /\ \/ f.answer.status = 200 /\ f.rev = tileRev /\ Decoded(f)
       \/ f.answer.status = 200 /\ f.rev # tileRev /\ DropDecoded(f)
       \/ /\ f.answer.status = 202
          /\ IF f.tries = 0 /\ f.answer.reason # "queued" THEN TilePending(f) ELSE RetryQueued(f)
    /\ UNCHANGED <<backend, handler, events>>

\* content-changed and document-changed: a new tileRev, and nothing is known
\* of the tile any more but what is drawn.
Changed ==
    /\ events # <<>> /\ Head(events).type # "tile-ready"
    /\ events' = Tail(events)
    /\ tileRev' = tileRev + 1
    /\ maxKnownGen' = IF Head(events).type = "content-changed" THEN Head(events).gen ELSE maxKnownGen
    /\ pending' = None
    /\ tileGen' = None /\ tileSource' = None /\ tileMaxGen' = None
    /\ fetches' = And(fetches, Fetch(tileRev + 1))
    /\ UNCHANGED <<backend, handler, bitmap>>

RoomToFetch == BagCardinality(fetches) < MaxFetches

TileReady ==
    /\ events # <<>> /\ Head(events).type = "tile-ready"
    /\ RoomToFetch
    /\ events' = Tail(events)
    /\ LET gen == Head(events).gen
           max == Larger(IF pending = None THEN Or(tileMaxGen, 0) ELSE pending.maxKnownGen, gen)
           known == IF pending = None THEN Tracked(FALSE, FALSE, FALSE, max)
                                      ELSE [pending EXCEPT !.maxKnownGen = max]
       IN /\ maxKnownGen' = Larger(maxKnownGen, gen)
          /\ tileMaxGen' = max
          /\ IF known.inflight
             THEN /\ pending' = [known EXCEPT !.needsRefetch = TRUE]
                  /\ UNCHANGED fetches
             ELSE /\ pending' = [known EXCEPT !.inflight = TRUE]
                  /\ fetches' = And(fetches, WakeFetch)
    /\ UNCHANGED <<backend, handler, tileRev, bitmap, tileGen, tileSource>>

\* refetchEventDrivenPending: an inflight entry only notes the wake.
Wake(known) ==
    /\ IF known.inflight
       THEN /\ pending' = [known EXCEPT !.needsRefetch = TRUE]
            /\ UNCHANGED fetches
       ELSE /\ pending' = [known EXCEPT !.inflight = TRUE]
            /\ fetches' = And(fetches, WakeFetch)
    /\ UNCHANGED <<backend, handler, events, tileRev, maxKnownGen, bitmap, tracked>>

EdProgress ==
    /\ RoomToFetch
    /\ pending # None
    /\ Wake(pending)

\* The safety timer also asks for a tile that is not tracked but lags, and
\* forgets the spent retry.
SafetyTimer ==
    /\ RoomToFetch
    /\ \/ pending # None
       \/ tileSource \in {"stale", "upsample"}
       \/ Or(tileGen, 0) < Or(tileMaxGen, 0)
    /\ Wake(CASE pending = None -> Tracked(FALSE, FALSE, FALSE, Or(tileMaxGen, maxKnownGen))
              [] pending # None /\ pending.inflight -> pending
              [] OTHER -> [pending EXCEPT !.refetchDone = FALSE, !.needsRefetch = FALSE])

-----------------------------------------------------------------------------
Backend == TakeTask \/ Publish \/ Look \/ NotifyIfPending \/ EmitReady
Handler == Enqueue \/ Register \/ \E f \in BagToSet(fetches) : Resolve(f)
Responses == \E f \in BagToSet(fetches) : Deliver(f)

Next ==
    \/ Edit \/ EdProgress
    \/ Backend \/ Handler \/ Responses
    \/ Changed \/ TileReady \/ SafetyTimer

Spec == Init /\ [][Next]_vars

\* Threads run, requests are served and answers arrive, events are delivered
\* and the interval fires; nobody has to edit, and ed-progress need not come.
FairSpec ==
    /\ Spec
    /\ WF_vars(Backend) /\ WF_vars(Handler)
    /\ WF_vars(Responses)
    /\ WF_vars(Changed \/ TileReady)
    /\ WF_vars(SafetyTimer)

-----------------------------------------------------------------------------
Answers ==
    {None}
    \cup [status : {200}, quality : {"fresh", "stale", "upsample"}, gen : 1..content_gen]
    \cup [status : {202}, reason : {"ed_prefix", "queued", "computing"}]

FetchType == [rev : 1..tileRev, tries : 0..MaxRetries, answer : Answers]

\* Every generation the canvas knows is one the document has had: what it
\* counts as ready (maxKnownGen of a tile) is never ahead of the document.
TypeOK ==
    /\ content_gen = edits + 1 /\ document_gen \in 1..content_gen /\ edits \in 0..MaxEdits
    /\ entry \in {None} \cup [generation : 1..content_gen, dirty : BOOLEAN]
    /\ task \in BOOLEAN /\ registered \in BOOLEAN
    /\ worker \in [at : {"idle", "computing", "look", "notify", "emit"},
                   generation : 0..content_gen, document_gen : 0..document_gen]
    /\ worker.at = "emit" => worker.generation # 0
    /\ handler \in {None} \cup [at : {"enqueue", "classify"}, fetch : FetchType]
    /\ BagToSet(fetches) \subseteq FetchType
    /\ events \in Seq([type : EditKinds \cup {"tile-ready"}, gen : 1..content_gen])
    /\ Len(events) <= MaxEvents
    /\ tileRev \in Nat \ {0} /\ maxKnownGen \in 0..content_gen
    /\ bitmap \in {None} \cup [gen : 1..content_gen, quality : {"fresh", "stale", "upsample"}]
    /\ tileGen \in {None} \cup 1..content_gen
    /\ tileSource \in {None, "fresh", "stale", "upsample"}
    /\ tileMaxGen \in {None} \cup 1..content_gen
    /\ pending \in {None} \cup [inflight : BOOLEAN, needsRefetch : BOOLEAN,
                                refetchDone : BOOLEAN, maxKnownGen : 0..content_gen]

\* A tile of the document's own pixels is never replaced on the screen by an
\* older one, whatever the order in which responses arrive: tileRev separates
\* the responses of different edits, shouldDiscardStaleGen those of one.
Sharp == bitmap # None /\ bitmap.quality # "upsample"

NeverOlder == [][Sharp /\ Sharp' => bitmap'.gen >= bitmap.gen]_vars

\* The fetches on their way, the one being served included.
InFlight == BagToSet(fetches) \cup (IF handler = None THEN {} ELSE {handler.fetch})

FetchOutstanding == \E f \in InFlight : f.rev = tileRev

Wedged == pending # None /\ pending.inflight /\ ~FetchOutstanding

ShowsLive == bitmap = [gen |-> content_gen, quality |-> "fresh"]

\* The canvas stops asking only when it shows the live document: with no event,
\* request or job left, no entry of the tile and no preview on the screen, what
\* is drawn is final.  A fetch that spends its silent retries leaves nothing
\* behind in the canvas; the announcement it is registered for has then not
\* been missed (main.rs:896-925, pending_tiles.rs:125-191, tileWorker.ts:317-353).
RestShowsLive ==
    /\ events = <<>> /\ InFlight = {}
    /\ ~task /\ worker.at = "idle"
    /\ pending = None /\ tileSource \notin {"stale", "upsample"}
    => ShowsLive

\* Once edits stop the screen comes to show the live document, although the
\* announcement may overtake the 202, miss the registration or belong to an
\* older generation; the one way to fail is an entry that believes in a fetch
\* that is not there.
EventuallyShown == <>[](ShowsLive \/ Wedged)

\* Once edits stop the fetches stop too: neither the safety timer nor the
\* collapsed retry keeps asking for a tile that is final.
EventuallyQuiet == <>[](fetches = EmptyBag)

\* TileCanvas.tsx:530-532: a tile that was answered 202 is re-fetched on
\* tile-ready, ed-progress and the safety timer.
PendingIsRefetched == pending # None ~> (pending = None \/ FetchOutstanding)

=============================================================================
