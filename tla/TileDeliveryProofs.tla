------------------------- MODULE TileDeliveryProofs -------------------------
(***************************************************************************)
(* The canvas never goes back to older pixels of the document.             *)
(*                                                                         *)
(* The order of the responses is not known, so the argument follows where  *)
(* their bodies come from: everything served and everything drawn was once *)
(* in the cache, whose generation only grows (FromCache).  Within one      *)
(* tileRev what is drawn is remembered in tileGen (Remembered); across a   *)
(* change of tileRev, which forgets it, every body of the new tileRev was  *)
(* served after the last body of the old one was drawn (NewRevNotOlder).   *)
(*                                                                         *)
(* And it falls silent only over the live document (RestInv): as long as   *)
(* the canvas has nothing of the tile and does not track it, a fetch is on *)
(* its way (AskedFor), or the announcement is still to come (Backed).      *)
(***************************************************************************)
EXTENDS TileDelivery, SequenceTheorems, TLAPS

\* A body of the document's own pixels.
SharpAnswer(f) == f.answer # None /\ f.answer.status = 200 /\ f.answer.quality # "upsample"

FromCache ==
    /\ Sharp => entry # None /\ bitmap.gen <= entry.generation
    /\ \A f \in InFlight : SharpAnswer(f) => entry # None /\ f.answer.gen <= entry.generation

Remembered == tileGen # None => tileGen = bitmap.gen

NewRevNotOlder ==
    tileGen = None /\ Sharp =>
        \A f \in InFlight : f.rev = tileRev /\ SharpAnswer(f) => bitmap.gen <= f.answer.gen

DeliveryInv == TypeOK /\ FromCache /\ Remembered /\ NewRevNotOlder

-----------------------------------------------------------------------------
(* Fetches: which are in flight after a step.                              *)

LEMMA AndMembers ==
    ASSUME NEW bag, NEW f
    PROVE  BagToSet(And(bag, f)) = BagToSet(bag) \cup {f}
BY DEF And, BagToSet, SetToBag, (+)

LEMMA WithoutMembers ==
    ASSUME NEW f
    PROVE  BagToSet(Without(f)) \subseteq BagToSet(fetches)
BY DEF Without, BagToSet, SetToBag, (-)

LEMMA FetchTyped ==
    ASSUME TypeOK, NEW f \in InFlight
    PROVE  f \in FetchType
BY DEF TypeOK, InFlight

\* What the handler puts into a fetch.
LEMMA AnswerTyped ==
    ASSUME TypeOK, NEW f \in FetchType, NEW answer \in Answers
    PROVE  /\ [f EXCEPT !.answer = answer] \in FetchType
           /\ [f EXCEPT !.answer = answer].answer = answer
           /\ [f EXCEPT !.answer = answer].rev = f.rev
BY DEF FetchType

LEMMA LargerTyped ==
    ASSUME NEW n \in Nat, NEW a \in 0..n, NEW b \in 0..n
    PROVE  /\ Larger(a, b) \in 0..n
           /\ Larger(a, b) >= a /\ Larger(a, b) >= b
BY DEF Larger

LEMMA OrTyped ==
    ASSUME NEW n \in Nat, NEW a \in {None} \cup 1..n, NEW b \in 0..n
    PROVE  Or(a, b) \in 0..n
BY DEF Or

-----------------------------------------------------------------------------
(* Type correctness, in parts.                                             *)

BackendOK ==
    /\ content_gen = edits + 1 /\ document_gen \in 1..content_gen /\ edits \in 0..MaxEdits
    /\ entry \in {None} \cup [generation : 1..content_gen, dirty : BOOLEAN]
    /\ task \in BOOLEAN /\ registered \in BOOLEAN
    /\ worker \in [at : {"idle", "computing", "look", "notify", "emit"},
                   generation : 0..content_gen, document_gen : 0..document_gen]
    /\ worker.at = "emit" => worker.generation # 0

FetchesOK ==
    /\ handler \in {None} \cup [at : {"enqueue", "classify"}, fetch : FetchType]
    /\ BagToSet(fetches) \subseteq FetchType

EventsOK ==
    /\ events \in Seq([type : EditKinds \cup {"tile-ready"}, gen : 1..content_gen])
    /\ Len(events) <= MaxEvents

CanvasOK ==
    /\ tileRev \in Nat \ {0} /\ maxKnownGen \in 0..content_gen
    /\ bitmap \in {None} \cup [gen : 1..content_gen, quality : {"fresh", "stale", "upsample"}]
    /\ tileGen \in {None} \cup 1..content_gen
    /\ tileSource \in {None, "fresh", "stale", "upsample"}
    /\ tileMaxGen \in {None} \cup 1..content_gen
    /\ pending \in {None} \cup [inflight : BOOLEAN, needsRefetch : BOOLEAN,
                                refetchDone : BOOLEAN, maxKnownGen : 0..content_gen]

LEMMA TypeParts == TypeOK <=> BackendOK /\ FetchesOK /\ EventsOK /\ CanvasOK
BY DEF TypeOK, BackendOK, FetchesOK, EventsOK, CanvasOK

LEMMA TypePartsNext == TypeOK' <=> BackendOK' /\ FetchesOK' /\ EventsOK' /\ CanvasOK'
BY DEF TypeOK, BackendOK, FetchesOK, EventsOK, CanvasOK

LEMMA GensTyped ==
    ASSUME TypeOK
    PROVE  /\ content_gen \in Nat \ {0} /\ document_gen \in Nat \ {0} /\ edits \in Nat
           /\ document_gen <= content_gen
           /\ tileRev \in Nat \ {0}
BY DeliveryAssumption DEF DeliveryAssumption, TypeOK

\* Types only grow.
LEMMA AnswersGrow ==
    ASSUME TypeOK, content_gen' \in Nat, content_gen' >= content_gen
    PROVE  Answers \subseteq Answers'
<1> 1..content_gen \subseteq 1..content_gen'
    BY GensTyped
<1> QED BY DEF Answers

LEMMA FetchTypeGrows ==
    ASSUME TypeOK, content_gen' \in Nat, content_gen' >= content_gen,
           tileRev' \in Nat, tileRev' >= tileRev
    PROVE  FetchType \subseteq FetchType'
<1> 1..tileRev \subseteq 1..tileRev'
    BY GensTyped
<1> QED BY AnswersGrow DEF FetchType

LEMMA NewFetchTyped ==
    ASSUME NEW rev \in Nat \ {0}, rev <= tileRev, tileRev \in Nat
    PROVE  Fetch(rev) \in FetchType
BY DeliveryAssumption DEF DeliveryAssumption, Fetch, FetchType, Answers

LEMMA SeqGrows ==
    ASSUME NEW S, NEW T, S \subseteq T
    PROVE  Seq(S) \subseteq Seq(T)
<1> SUFFICES ASSUME NEW s \in Seq(S) PROVE s \in Seq(T)
    OBVIOUS
<1> QED BY SeqDef

LEMMA EventAppended ==
    ASSUME NEW T, events \in Seq(T), NEW e \in T, Emit(e)
    PROVE  events' \in Seq(T) /\ Len(events') <= MaxEvents
BY DeliveryAssumption, AppendProperties DEF DeliveryAssumption, Emit

LEMMA TypeInit == Init => TypeOK
<1> SUFFICES ASSUME Init PROVE TypeOK
    OBVIOUS
<1>1. BackendOK
    <2>1. /\ content_gen = edits + 1 /\ document_gen \in 1..content_gen /\ edits \in 0..MaxEdits
          /\ worker \in [at : {"idle", "computing", "look", "notify", "emit"},
                         generation : 0..content_gen, document_gen : 0..document_gen]
          /\ worker.at = "idle"
        BY DeliveryAssumption DEF DeliveryAssumption, Init, WorkerIdle
    <2>2. task \in BOOLEAN /\ registered \in BOOLEAN
        BY DEF Init
    <2>3. entry \in {None} \cup [generation : 1..content_gen, dirty : BOOLEAN]
        BY DEF Init
    <2> QED BY <2>1, <2>2, <2>3 DEF BackendOK
<1>2. FetchesOK
    <2>1. BagToSet(fetches) = {Fetch(1)}
        BY DEF Init, BagToSet, SetToBag
    <2>2. Fetch(1) \in FetchType
        BY NewFetchTyped DEF Init
    <2> QED BY <2>1, <2>2 DEF Init, FetchesOK
<1>3. EventsOK
    BY DeliveryAssumption DEF DeliveryAssumption, Init, EventsOK
<1>4. CanvasOK
    BY DEF Init, CanvasOK
<1> QED BY <1>1, <1>2, <1>3, <1>4, TypeParts

LEMMA CanvasKept ==
    ASSUME TypeOK, UNCHANGED canvas, content_gen' \in Nat, content_gen' >= content_gen
    PROVE  CanvasOK'
<1>1. CanvasOK
    BY TypeParts
<1>2. 1..content_gen \subseteq 1..content_gen' /\ 0..content_gen \subseteq 0..content_gen'
    BY GensTyped
<1>3. /\ tileRev' \in Nat \ {0} /\ maxKnownGen' \in 0..content_gen'
      /\ tileGen' \in {None} \cup 1..content_gen'
      /\ tileSource' \in {None, "fresh", "stale", "upsample"}
      /\ tileMaxGen' \in {None} \cup 1..content_gen'
    BY <1>1, <1>2 DEF CanvasOK, canvas, tracked
<1>4. bitmap' \in {None} \cup [gen : 1..content_gen', quality : {"fresh", "stale", "upsample"}]
    BY <1>1, <1>2 DEF CanvasOK, canvas
<1>5. pending' \in {None} \cup [inflight : BOOLEAN, needsRefetch : BOOLEAN,
                                refetchDone : BOOLEAN, maxKnownGen : 0..content_gen']
    BY <1>1, <1>2 DEF CanvasOK, canvas
<1> QED BY <1>3, <1>4, <1>5 DEF CanvasOK

LEMMA FetchesKept ==
    ASSUME TypeOK, UNCHANGED <<handler, fetches, tileRev>>,
           content_gen' \in Nat, content_gen' >= content_gen
    PROVE  FetchesOK'
<1>1. FetchType \subseteq FetchType'
    BY FetchTypeGrows, GensTyped
<1>2. BagToSet(fetches') = BagToSet(fetches)
    OBVIOUS
<1>3. (BagToSet(fetches))' = BagToSet(fetches')
    BY DEF BagToSet
<1> QED BY <1>1, <1>2, <1>3, TypeParts DEF FetchesOK

\* The queue of events after a step that emits one.
LEMMA EventEmitted ==
    ASSUME TypeOK, content_gen' \in Nat, content_gen' >= content_gen,
           NEW kind \in EditKinds \cup {"tile-ready"}, NEW gen \in 1..content_gen',
           Emit([type |-> kind, gen |-> gen])
    PROVE  EventsOK'
<1> DEFINE T == [type : EditKinds \cup {"tile-ready"}, gen : 1..content_gen']
<1>1. 1..content_gen \subseteq 1..content_gen'
    BY GensTyped
<1>2. [type : EditKinds \cup {"tile-ready"}, gen : 1..content_gen] \subseteq T
    BY <1>1
<1>3. events \in Seq(T)
    <2>1. events \in Seq([type : EditKinds \cup {"tile-ready"}, gen : 1..content_gen])
        BY TypeParts DEF EventsOK
    <2>2. Seq([type : EditKinds \cup {"tile-ready"}, gen : 1..content_gen]) \subseteq Seq(T)
        BY <1>2, SeqGrows
    <2> QED BY <2>1, <2>2
<1>4. [type |-> kind, gen |-> gen] \in T
    OBVIOUS
<1>5. events' \in Seq(T) /\ Len(events') <= MaxEvents
    <2> HIDE DEF T
    <2> QED BY <1>3, <1>4, EventAppended
<1> QED BY <1>5 DEF EventsOK

LEMMA EditTyped == TypeOK /\ Edit => TypeOK'
<1> SUFFICES ASSUME TypeOK, Edit PROVE TypeOK'
    OBVIOUS
<1>0. /\ content_gen' = content_gen + 1
      /\ content_gen' \in Nat /\ content_gen' >= content_gen
      /\ UNCHANGED <<handler, fetches, canvas, registered, worker>>
    BY GensTyped DEF Edit
<1>1. BackendOK'
    <2>1. /\ content_gen' = edits' + 1 /\ document_gen' \in 1..content_gen'
          /\ edits' \in 0..MaxEdits /\ document_gen' >= document_gen
        BY GensTyped, DeliveryAssumption, TypeParts DEF Edit, BackendOK, DeliveryAssumption
    <2>2. entry' \in {None} \cup [generation : 1..content_gen', dirty : BOOLEAN]
        <3>1. 1..content_gen \subseteq 1..content_gen'
            BY <1>0, GensTyped
        <3> QED BY <3>1, TypeParts DEF Edit, BackendOK
    <2>3. worker' \in [at : {"idle", "computing", "look", "notify", "emit"},
                       generation : 0..content_gen', document_gen : 0..document_gen']
        <3>1. 0..content_gen \subseteq 0..content_gen' /\ 0..document_gen \subseteq 0..document_gen'
            BY <1>0, <2>1, GensTyped
        <3> QED BY <3>1, <1>0, TypeParts DEF BackendOK
    <2> QED BY <2>1, <2>2, <2>3, <1>0, TypeParts DEF Edit, BackendOK
<1>2. FetchesOK'
    BY <1>0, FetchesKept DEF canvas
<1>3. EventsOK'
    <2>p. PICK kind \in EditKinds : Emit([type |-> kind, gen |-> content_gen + 1])
        BY DEF Edit
    <2> QED BY <2>p, <1>0, EventEmitted, GensTyped
<1>4. CanvasOK'
    BY <1>0, CanvasKept
<1> QED BY <1>1, <1>2, <1>3, <1>4, TypePartsNext

\* The worker's steps touch neither the fetches nor the canvas.
LEMMA BackendTyped == TypeOK /\ Backend => TypeOK'
<1> SUFFICES ASSUME TypeOK, Backend PROVE TypeOK'
    OBVIOUS
<1>0. /\ UNCHANGED <<handler, fetches, canvas, content_gen, document_gen, edits>>
      /\ content_gen' \in Nat /\ content_gen' >= content_gen
    BY GensTyped DEF Backend, TakeTask, Publish, Look, NotifyIfPending, EmitReady
<1>1. FetchesOK'
    BY <1>0, FetchesKept DEF canvas
<1>2. CanvasOK'
    BY <1>0, CanvasKept
<1>3. SUFFICES BackendOK' /\ EventsOK'
    BY <1>1, <1>2, TypePartsNext
<1>4. BackendOK /\ EventsOK
    BY TypeParts
<1>k. UNCHANGED events => EventsOK'
    BY <1>0, <1>4 DEF EventsOK
<1>g. content_gen \in Nat \ {0} /\ document_gen \in Nat \ {0}
    BY GensTyped
<1>5. CASE TakeTask
    <2>1. worker' \in [at : {"idle", "computing", "look", "notify", "emit"},
                       generation : 0..content_gen', document_gen : 0..document_gen']
          /\ worker'.at = "computing"
        BY <1>5, <1>0, <1>g DEF TakeTask
    <2> QED BY <2>1, <1>5, <1>0, <1>4, <1>k DEF TakeTask, BackendOK
<1>6. CASE Publish
    <2>1. worker' \in [at : {"idle", "computing", "look", "notify", "emit"},
                       generation : 0..content_gen', document_gen : 0..document_gen']
          /\ worker'.at = "look"
        <3>1. worker' = [worker EXCEPT !.at = "look", !.generation = 0]
            BY <1>6 DEF Publish
        <3>2. worker \in [at : {"idle", "computing", "look", "notify", "emit"},
                          generation : 0..content_gen, document_gen : 0..document_gen]
            BY <1>4 DEF BackendOK
        <3>3. worker' = [at |-> "look", generation |-> 0, document_gen |-> worker.document_gen]
            BY <3>1, <3>2
        <3>4. 0 \in 0..content_gen' /\ worker.document_gen \in 0..document_gen'
            BY <3>2, <1>0, <1>g
        <3> QED BY <3>3, <3>4
    <2>2. entry' \in {None} \cup [generation : 1..content_gen', dirty : BOOLEAN]
        <3>1. CASE entry' = [generation |-> content_gen, dirty |-> FALSE]
            BY <3>1, <1>0, <1>g
        <3>2. CASE UNCHANGED entry
            BY <3>2, <1>0, <1>4 DEF BackendOK
        <3> QED BY <3>1, <3>2, <1>6 DEF Publish
    <2>3. task' \in BOOLEAN
        <3>1. CASE task' = TRUE
            BY <3>1
        <3>2. CASE UNCHANGED task
            BY <3>2, <1>4 DEF BackendOK
        <3> QED BY <3>1, <3>2, <1>6 DEF Publish
    <2> QED BY <2>1, <2>2, <2>3, <1>6, <1>0, <1>4, <1>k DEF Publish, BackendOK
<1>7. CASE Look
    <2>1. worker' \in [at : {"idle", "computing", "look", "notify", "emit"},
                       generation : 0..content_gen', document_gen : 0..document_gen']
          /\ (worker'.at = "emit" => worker'.generation # 0)
        <3>1. CASE worker' = WorkerIdle
            BY <3>1, <1>0, <1>g DEF WorkerIdle
        <3>2. CASE worker' = [WorkerIdle EXCEPT !.at = "notify"]
            BY <3>2, <1>0, <1>g DEF WorkerIdle
        <3>3. CASE Fresh /\ worker' = [WorkerIdle EXCEPT !.at = "emit", !.generation = entry.generation]
            <4>1. entry.generation \in 1..content_gen'
                BY <3>3, <1>0, <1>4 DEF Fresh, BackendOK
            <4>2. worker' = [at |-> "emit", generation |-> entry.generation, document_gen |-> 0]
                BY <3>3 DEF WorkerIdle
            <4>3. /\ entry.generation \in 0..content_gen' /\ entry.generation # 0
                  /\ 0 \in 0..document_gen'
                BY <4>1, <1>0, <1>g
            <4> QED BY <4>2, <4>3
        <3> QED BY <3>1, <3>2, <3>3, <1>7 DEF Look
    <2> QED BY <2>1, <1>7, <1>0, <1>4, <1>k DEF Look, BackendOK
<1>8. CASE NotifyIfPending
    <2>1. worker' \in [at : {"idle", "computing", "look", "notify", "emit"},
                       generation : 0..content_gen', document_gen : 0..document_gen']
          /\ worker'.at = "idle"
        BY <1>8, <1>0, <1>g DEF NotifyIfPending, WorkerIdle
    <2>2. EventsOK'
        <3>1. CASE Fresh /\ Emit([type |-> "tile-ready", gen |-> entry.generation])
            <4>1. entry.generation \in 1..content_gen'
                BY <3>1, <1>0, <1>4 DEF Fresh, BackendOK
            <4> QED BY <3>1, <4>1, <1>0, EventEmitted
        <3> QED BY <3>1, <1>8, <1>k DEF NotifyIfPending
    <2>3. registered' \in BOOLEAN
        BY <1>8, <1>4 DEF NotifyIfPending, BackendOK
    <2> QED BY <2>1, <2>2, <2>3, <1>8, <1>0, <1>4 DEF NotifyIfPending, BackendOK
<1>9. CASE EmitReady
    <2>1. worker' \in [at : {"idle", "computing", "look", "notify", "emit"},
                       generation : 0..content_gen', document_gen : 0..document_gen']
          /\ worker'.at = "idle"
        BY <1>9, <1>0, <1>g DEF EmitReady, WorkerIdle
    <2>2. EventsOK'
        <3>1. worker.generation \in 1..content_gen'
            BY <1>9, <1>0, <1>g, <1>4 DEF EmitReady, BackendOK
        <3> QED BY <3>1, <1>9, <1>0, EventEmitted DEF EmitReady
    <2> QED BY <2>1, <2>2, <1>9, <1>0, <1>4 DEF EmitReady, BackendOK
<1> QED BY <1>5, <1>6, <1>7, <1>8, <1>9 DEF Backend
-----------------------------------------------------------------------------
(* The handler.                                                            *)

LEMMA MembersAfter ==
    /\ \A f, g : fetches' = And(Without(f), g) =>
           (BagToSet(fetches))' \subseteq BagToSet(fetches) \cup {g}
    /\ \A f : fetches' = Without(f) => (BagToSet(fetches))' \subseteq BagToSet(fetches)
    /\ \A g : fetches' = And(fetches, g) =>
           (BagToSet(fetches))' \subseteq BagToSet(fetches) \cup {g}
    /\ UNCHANGED fetches => (BagToSet(fetches))' = BagToSet(fetches)
<1>0. (BagToSet(fetches))' = BagToSet(fetches')
    BY DEF BagToSet
<1>1. ASSUME NEW f, NEW g, fetches' = And(Without(f), g)
      PROVE  (BagToSet(fetches))' \subseteq BagToSet(fetches) \cup {g}
    <2>1. BagToSet(And(Without(f), g)) = BagToSet(Without(f)) \cup {g}
        BY AndMembers
    <2> QED BY <2>1, <1>0, <1>1, WithoutMembers
<1>2. ASSUME NEW f, fetches' = Without(f)
      PROVE  (BagToSet(fetches))' \subseteq BagToSet(fetches)
    BY <1>0, <1>2, WithoutMembers
<1>3. ASSUME NEW g, fetches' = And(fetches, g)
      PROVE  (BagToSet(fetches))' \subseteq BagToSet(fetches) \cup {g}
    <2>1. BagToSet(And(fetches, g)) = BagToSet(fetches) \cup {g}
        BY AndMembers
    <2> QED BY <2>1, <1>0, <1>3
<1>4. UNCHANGED fetches => (BagToSet(fetches))' = BagToSet(fetches)
    BY <1>0
<1> QED BY <1>1, <1>2, <1>3, <1>4

\* A body leaves the handler with the generation of the cached tile, unless it
\* is upsampled.
AsCached(f) == SharpAnswer(f) => entry # None /\ f.answer.gen = entry.generation

LEMMA ServedTyped ==
    ASSUME TypeOK, NEW f \in FetchType, NEW quality \in {"fresh", "stale", "upsample"},
           NEW gen \in 1..content_gen
    PROVE  /\ Served(f, quality, gen) \in FetchType
           /\ Served(f, quality, gen).answer
                = [status |-> 200, quality |-> quality, gen |-> gen]
<1>1. [status |-> 200, quality |-> quality, gen |-> gen] \in Answers
    BY DEF Answers
<1> QED BY <1>1, AnswerTyped DEF Served

LEMMA AnsweredPending ==
    ASSUME TypeOK, NEW f \in FetchType, NEW reason \in PendingReason
    PROVE  /\ [f EXCEPT !.answer = [status |-> 202, reason |-> reason]] \in FetchType
           /\ ~SharpAnswer([f EXCEPT !.answer = [status |-> 202, reason |-> reason]])
<1>1. [status |-> 202, reason |-> reason] \in Answers
    BY DEF Answers, PendingReason
<1> QED BY <1>1, AnswerTyped DEF SharpAnswer

\* What one of the handler's steps adds to the fetches in flight.
HandlerAdds(g) ==
    /\ g \in FetchType /\ (g \in InFlight \/ AsCached(g))
    /\ (BagToSet(fetches))' \subseteq InFlight \cup {g}
    /\ \/ handler' = None
       \/ \E at \in {"enqueue", "classify"} : handler' = [at |-> at, fetch |-> g]

LEMMA ResolveAdds ==
    ASSUME TypeOK, NEW f \in BagToSet(fetches), Resolve(f)
    PROVE  \E g : HandlerAdds(g)
<1>0. /\ f \in FetchType /\ f \in InFlight /\ BagToSet(fetches) \subseteq InFlight
      /\ handler = None
    BY FetchTyped DEF InFlight, Resolve
<1>g. /\ entry # None => entry.generation \in 1..content_gen
      /\ document_gen \in 1..content_gen
    BY DEF TypeOK
<1>1. CASE Fresh /\ fetches' = And(Without(f), Served(f, "fresh", entry.generation))
                 /\ UNCHANGED handler
    <2> DEFINE g == Served(f, "fresh", entry.generation)
    <2>1. g \in FetchType /\ AsCached(g)
        <3>1. /\ g \in FetchType
              /\ g.answer = [status |-> 200, quality |-> "fresh", gen |-> entry.generation]
            BY <1>0, <1>1, <1>g, ServedTyped DEF Fresh
        <3> HIDE DEF g
        <3> QED BY <3>1, <1>1 DEF AsCached, Fresh
    <2>2. (BagToSet(fetches))' \subseteq InFlight \cup {g}
        BY <1>0, <1>1, MembersAfter
    <2> QED BY <2>1, <2>2, <1>0, <1>1 DEF HandlerAdds
<1>2. CASE entry # None /\ fetches' = Without(f)
           /\ handler' = [at |-> "enqueue", fetch |-> Served(f, "stale", entry.generation)]
    <2> DEFINE g == Served(f, "stale", entry.generation)
    <2>1. g \in FetchType /\ AsCached(g)
        <3>1. /\ g \in FetchType
              /\ g.answer = [status |-> 200, quality |-> "stale", gen |-> entry.generation]
            BY <1>0, <1>2, <1>g, ServedTyped
        <3> HIDE DEF g
        <3> QED BY <3>1, <1>2 DEF AsCached
    <2>2. (BagToSet(fetches))' \subseteq InFlight \cup {g}
        BY <1>0, <1>2, MembersAfter
    <2> QED BY <2>1, <2>2, <1>2 DEF HandlerAdds
<1>3. CASE fetches' = Without(f)
           /\ handler' = [at |-> "enqueue", fetch |-> Served(f, "upsample", document_gen)]
    <2> DEFINE g == Served(f, "upsample", document_gen)
    <2>1. g \in FetchType /\ AsCached(g)
        <3>1. /\ g \in FetchType
              /\ g.answer = [status |-> 200, quality |-> "upsample", gen |-> document_gen]
            BY <1>0, <1>g, ServedTyped
        <3> HIDE DEF g
        <3> QED BY <3>1 DEF AsCached, SharpAnswer
    <2>2. (BagToSet(fetches))' \subseteq InFlight \cup {g}
        BY <1>0, <1>3, MembersAfter
    <2> QED BY <2>1, <2>2, <1>3 DEF HandlerAdds
<1>4. CASE fetches' = Without(f) /\ handler' = [at |-> "enqueue", fetch |-> f]
    BY <1>0, <1>4, MembersAfter DEF HandlerAdds
<1> QED BY <1>1, <1>2, <1>3, <1>4 DEF Resolve

LEMMA EnqueueAdds ==
    ASSUME TypeOK, Enqueue
    PROVE  \E g : HandlerAdds(g)
<1>0. /\ handler # None /\ handler.fetch \in FetchType /\ handler.fetch \in InFlight
      /\ BagToSet(fetches) \subseteq InFlight
      /\ handler = [at |-> "enqueue", fetch |-> handler.fetch]
    BY DEF Enqueue, TypeOK, InFlight
<1>1. CASE fetches' = And(fetches, handler.fetch) /\ handler' = None
    BY <1>0, <1>1, MembersAfter DEF HandlerAdds
<1>2. CASE handler' = [handler EXCEPT !.at = "classify"] /\ UNCHANGED fetches
    <2>1. handler' = [at |-> "classify", fetch |-> handler.fetch]
        BY <1>0, <1>2
    <2> QED BY <2>1, <1>0, <1>2, MembersAfter DEF HandlerAdds
<1> QED BY <1>1, <1>2 DEF Enqueue

LEMMA RegisterAdds ==
    ASSUME TypeOK, Register
    PROVE  \E g : HandlerAdds(g)
<1>0. handler.fetch \in FetchType /\ BagToSet(fetches) \subseteq InFlight
    BY DEF Register, TypeOK, InFlight
<1>r. PICK reason \in PendingReason :
        fetches' = And(fetches, [handler.fetch EXCEPT !.answer = [status |-> 202, reason |-> reason]])
    BY DEF Register
<1> DEFINE g == [handler.fetch EXCEPT !.answer = [status |-> 202, reason |-> reason]]
<1>1. g \in FetchType /\ AsCached(g)
    BY <1>0, AnsweredPending DEF AsCached
<1>2. (BagToSet(fetches))' \subseteq InFlight \cup {g}
    BY <1>0, <1>r, MembersAfter
<1> QED BY <1>1, <1>2 DEF HandlerAdds, Register

LEMMA HandlerStep ==
    ASSUME TypeOK, Handler
    PROVE  /\ UNCHANGED <<content_gen, document_gen, edits, entry, worker, events, canvas>>
           /\ task' \in BOOLEAN /\ registered' \in BOOLEAN
           /\ \E g : HandlerAdds(g)
<1>0. task \in BOOLEAN /\ registered \in BOOLEAN
    BY DEF TypeOK
<1>1. CASE Enqueue
    BY <1>0, <1>1, EnqueueAdds DEF Enqueue
<1>2. CASE Register
    BY <1>0, <1>2, RegisterAdds DEF Register
<1>3. ASSUME NEW f \in BagToSet(fetches), Resolve(f)
      PROVE  /\ UNCHANGED <<backend, events, canvas>>
             /\ \E g : HandlerAdds(g)
    BY <1>3, ResolveAdds DEF Resolve
<1> QED BY <1>0, <1>1, <1>2, <1>3 DEF Handler, backend

LEMMA HandlerTyped == TypeOK /\ Handler => TypeOK'
<1> SUFFICES ASSUME TypeOK, Handler PROVE TypeOK'
    OBVIOUS
<1>0. /\ UNCHANGED <<content_gen, document_gen, edits, entry, worker, events, canvas>>
      /\ task' \in BOOLEAN /\ registered' \in BOOLEAN
    BY HandlerStep
<1>g. content_gen' \in Nat /\ content_gen' >= content_gen /\ UNCHANGED tileRev
    BY <1>0, GensTyped DEF canvas
<1>1. BackendOK'
    BY <1>0, TypeParts DEF BackendOK
<1>2. FetchesOK'
    <2>p. PICK g : HandlerAdds(g)
        BY HandlerStep
    <2>1. FetchType' = FetchType
        BY <1>0, <1>g DEF FetchType, Answers
    <2>2. (BagToSet(fetches))' \subseteq FetchType
        BY <2>p, FetchTyped DEF HandlerAdds
    <2>3. handler' \in {None} \cup [at : {"enqueue", "classify"}, fetch : FetchType]
        BY <2>p DEF HandlerAdds
    <2> QED BY <2>1, <2>2, <2>3 DEF FetchesOK
<1>3. EventsOK'
    BY <1>0, TypeParts DEF EventsOK
<1>4. CanvasOK'
    BY <1>0, <1>g, CanvasKept
<1> QED BY <1>1, <1>2, <1>3, <1>4, TypePartsNext
-----------------------------------------------------------------------------
(* The canvas.                                                             *)

PendingType == [inflight : BOOLEAN, needsRefetch : BOOLEAN,
                refetchDone : BOOLEAN, maxKnownGen : 0..content_gen]

LEMMA TrackedTyped ==
    ASSUME NEW i \in BOOLEAN, NEW n \in BOOLEAN, NEW d \in BOOLEAN, NEW m \in 0..content_gen
    PROVE  Tracked(i, n, d, m) \in PendingType
BY DEF Tracked, PendingType

\* A step of the canvas that keeps tileRev: what is known stays in range.
CanvasRanges ==
    /\ maxKnownGen' \in 0..content_gen
    /\ bitmap' \in {None} \cup [gen : 1..content_gen, quality : {"fresh", "stale", "upsample"}]
    /\ tileGen' \in {None} \cup 1..content_gen
    /\ tileSource' \in {None, "fresh", "stale", "upsample"}
    /\ tileMaxGen' \in {None} \cup 1..content_gen
    /\ pending' \in {None} \cup PendingType

\* At most fetches that are not answered are added.
CanvasAdds ==
    \E g : /\ g \in FetchType' /\ g.answer = None
           /\ (BagToSet(fetches))' \subseteq BagToSet(fetches) \cup {g}

LEMMA CanvasTyped ==
    ASSUME TypeOK, UNCHANGED <<backend, handler>>, EventsOK',
           tileRev' \in Nat \ {0}, tileRev' >= tileRev, CanvasRanges, CanvasAdds
    PROVE  TypeOK'
<1>0. content_gen' = content_gen /\ content_gen \in Nat /\ tileRev \in Nat
    BY GensTyped DEF backend
<1>1. BackendOK'
    BY TypeParts DEF BackendOK, backend
<1>2. FetchesOK'
    <2>1. FetchType \subseteq FetchType'
        BY <1>0, FetchTypeGrows
    <2> QED BY <2>1, TypeParts DEF FetchesOK, CanvasAdds
<1>3. CanvasOK'
    BY <1>0 DEF CanvasOK, CanvasRanges, PendingType
<1> QED BY <1>1, <1>2, <1>3, TypePartsNext

LEMMA KnownRanges ==
    ASSUME TypeOK
    PROVE  /\ maxKnownGen \in 0..content_gen
           /\ tileMaxGen \in {None} \cup 1..content_gen
           /\ Or(tileMaxGen, 0) \in 0..content_gen
           /\ Or(tileMaxGen, maxKnownGen) \in 0..content_gen
           /\ pending \in {None} \cup PendingType
           /\ pending # None => pending.maxKnownGen \in 0..content_gen
<1>1. /\ maxKnownGen \in 0..content_gen
      /\ tileMaxGen \in {None} \cup 1..content_gen
      /\ pending \in {None} \cup PendingType
    BY DEF TypeOK, PendingType
<1>2. content_gen \in Nat
    BY GensTyped
<1>3. pending # None => pending.maxKnownGen \in 0..content_gen
    BY <1>1 DEF PendingType
<1> QED BY <1>1, <1>2, <1>3, OrTyped

\* The fetch that a wake or a retry posts.
LEMMA WakeTyped ==
    ASSUME TypeOK, UNCHANGED <<content_gen, tileRev>>
    PROVE  /\ WakeFetch \in FetchType' /\ WakeFetch.answer = None
           /\ FetchType' = FetchType
<1>1. FetchType' = FetchType
    BY DEF FetchType, Answers
<1>2. WakeFetch \in FetchType
    BY NewFetchTyped, GensTyped DEF WakeFetch
<1> QED BY <1>1, <1>2 DEF WakeFetch, Fetch

\* A body was served by the handler.
Body(f) == f \in BagToSet(fetches) /\ f.answer # None /\ f.answer.status = 200

LEMMA BodyTyped ==
    ASSUME TypeOK, NEW f, Body(f)
    PROVE  /\ f \in FetchType /\ f \in InFlight
           /\ f.answer.quality \in {"fresh", "stale", "upsample"}
           /\ f.answer.gen \in 1..content_gen
<1>1. f \in FetchType /\ f \in InFlight
    BY FetchTyped DEF Body, InFlight
<1> QED BY <1>1 DEF Body, FetchType, Answers

\* tile-decoded: what it draws and what it leaves.
LEMMA DecodedStep ==
    ASSUME TypeOK, NEW f, Body(f), Decoded(f), UNCHANGED content_gen
    PROVE  /\ UNCHANGED tileRev
           /\ CanvasRanges /\ CanvasAdds
           /\ \/ UNCHANGED <<bitmap, tileGen>>
              \/ ~shouldDiscardStaleGen(f.answer.gen) /\ Draw(f.answer)
<1> DEFINE gen == f.answer.gen
           fresh == f.answer.quality = "fresh"
           ready == IF fresh THEN gen ELSE 0
           needs == pending # None /\ pending.needsRefetch
           done == pending # None /\ pending.refetchDone
           max == Larger(IF pending = None THEN Or(tileMaxGen, 0) ELSE pending.maxKnownGen,
                         Larger(ready, Or(tileMaxGen, 0)))
           lags == Lags(f.answer, max)
           retry == ~done /\ (needs \/ lags)
           awaits == done /\ lags
           discard == shouldDiscardStaleGen(gen)
           better == tileGen = None \/ gen > tileGen
<1>1. /\ maxKnownGen' = Larger(maxKnownGen, ready)
      /\ tileMaxGen' = IF fresh THEN max ELSE tileMaxGen
      /\ fetches' = IF retry THEN And(Without(f), WakeFetch) ELSE Without(f)
      /\ pending' = CASE retry -> Tracked(TRUE, FALSE, TRUE, max)
                      [] ~retry /\ awaits /\ discard -> [pending EXCEPT !.inflight = FALSE]
                      [] ~retry /\ awaits /\ ~discard -> Tracked(FALSE, FALSE, TRUE, max)
                      [] OTHER -> None
      /\ IF discard \/ (retry /\ ~better)
         THEN UNCHANGED <<bitmap, tileGen, tileSource>>
         ELSE Draw(f.answer)
      /\ UNCHANGED tileRev
    BY DEF Decoded
<1>2. /\ gen \in 1..content_gen /\ ready \in 0..content_gen /\ content_gen \in Nat
      /\ f.answer.quality \in {"fresh", "stale", "upsample"}
    BY BodyTyped, GensTyped
<1>3. max \in 0..content_gen /\ max >= ready
    <2>1. Larger(ready, Or(tileMaxGen, 0)) \in 0..content_gen
          /\ Larger(ready, Or(tileMaxGen, 0)) >= ready
        <3> HIDE DEF ready
        <3> QED BY <1>2, KnownRanges, LargerTyped
    <2> DEFINE a == IF pending = None THEN Or(tileMaxGen, 0) ELSE pending.maxKnownGen
               b == Larger(ready, Or(tileMaxGen, 0))
    <2>2. a \in 0..content_gen
        BY KnownRanges
    <2>3. Larger(a, b) \in 0..content_gen /\ Larger(a, b) >= b
        <3> HIDE DEF a, b
        <3> b \in 0..content_gen
            BY <2>1 DEF b
        <3> QED BY <1>2, <2>2, LargerTyped
    <2>4. max = Larger(a, b) /\ b >= ready /\ b \in Nat /\ ready \in Nat
        BY <2>1, <1>2
    <2> HIDE DEF a, b, max, ready
    <2> QED BY <2>3, <2>4
<1>4. maxKnownGen' \in 0..content_gen
    <2> HIDE DEF ready
    <2> QED BY <1>1, <1>2, KnownRanges, LargerTyped
<1>5. tileMaxGen' \in {None} \cup 1..content_gen
    <2>1. CASE fresh
        <3>1. max >= gen /\ tileMaxGen' = max
            BY <1>1, <1>3, <2>1
        <3> HIDE DEF max, gen
        <3> QED BY <3>1, <1>2, <1>3
    <2>2. CASE ~fresh
        BY <1>1, <2>2, KnownRanges
    <2> QED BY <2>1, <2>2
<1>6. pending' \in {None} \cup PendingType
    <2> awaits => pending # None
        OBVIOUS
    <2> HIDE DEF retry, awaits, discard, max
    <2>1. CASE retry
        BY <1>1, <1>3, <2>1, TrackedTyped
    <2>2. CASE ~retry /\ awaits /\ discard
        BY <1>1, <2>2, KnownRanges DEF PendingType
    <2>3. CASE ~retry /\ awaits /\ ~discard
        BY <1>1, <1>3, <2>3, TrackedTyped
    <2>4. CASE ~retry /\ ~awaits
        BY <1>1, <2>4
    <2> QED BY <2>1, <2>2, <2>3, <2>4
<1>7. \/ UNCHANGED <<bitmap, tileGen, tileSource>>
      \/ ~discard /\ Draw(f.answer)
    <2> HIDE DEF retry, discard, better
    <2> QED BY <1>1
<1>8. /\ bitmap' \in {None} \cup [gen : 1..content_gen, quality : {"fresh", "stale", "upsample"}]
      /\ tileGen' \in {None} \cup 1..content_gen
      /\ tileSource' \in {None, "fresh", "stale", "upsample"}
    <2>1. CASE UNCHANGED <<bitmap, tileGen, tileSource>>
        BY <2>1 DEF TypeOK
    <2>2. CASE Draw(f.answer)
        BY <2>2, <1>2 DEF Draw
    <2> QED BY <2>1, <2>2, <1>7
<1>9. CanvasAdds
    <2>1. (BagToSet(fetches))' \subseteq BagToSet(fetches) \cup {WakeFetch}
        <3> HIDE DEF retry
        <3> QED BY <1>1, MembersAfter
    <2> QED BY <2>1, <1>1, WakeTyped DEF CanvasAdds
<1> QED BY <1>1, <1>4, <1>5, <1>6, <1>7, <1>8, <1>9 DEF CanvasRanges
LEMMA DropDecodedStep ==
    ASSUME TypeOK, NEW f, DropDecoded(f), UNCHANGED content_gen
    PROVE  CanvasRanges /\ CanvasAdds /\ UNCHANGED <<bitmap, tileGen, tileRev>>
<1>1. UNCHANGED <<bitmap, tileGen, tileSource, tileMaxGen, maxKnownGen, tileRev>>
    BY DEF DropDecoded, tracked
<1>2. pending' \in {None} \cup PendingType
    BY KnownRanges DEF DropDecoded, PendingType
<1>3. (BagToSet(fetches))' \subseteq BagToSet(fetches)
    BY MembersAfter DEF DropDecoded
<1>4. CanvasAdds
    BY <1>1, <1>3, WakeTyped DEF CanvasAdds
<1> QED BY <1>1, <1>2, <1>4 DEF CanvasRanges, TypeOK

LEMMA TilePendingStep ==
    ASSUME TypeOK, NEW f, TilePending(f), UNCHANGED content_gen
    PROVE  CanvasRanges /\ CanvasAdds /\ UNCHANGED <<bitmap, tileGen, tileRev>>
<1>1. UNCHANGED <<bitmap, tileGen, tileSource, tileMaxGen, maxKnownGen, tileRev>>
    BY DEF TilePending, tracked
<1>2. pending' \in {None} \cup PendingType
    BY KnownRanges, TrackedTyped DEF TilePending
<1>3. (BagToSet(fetches))' \subseteq BagToSet(fetches)
    BY MembersAfter DEF TilePending
<1>4. CanvasAdds
    BY <1>1, <1>3, WakeTyped DEF CanvasAdds
<1> QED BY <1>1, <1>2, <1>4 DEF CanvasRanges, TypeOK

LEMMA RetryQueuedStep ==
    ASSUME TypeOK, NEW f \in BagToSet(fetches), RetryQueued(f), UNCHANGED content_gen
    PROVE  CanvasRanges /\ CanvasAdds /\ UNCHANGED <<bitmap, tileGen, tileRev>>
<1>1. UNCHANGED canvas
    BY DEF RetryQueued
<1>2. CanvasRanges
    BY <1>1 DEF canvas, tracked, CanvasRanges, PendingType, TypeOK
<1>3. CanvasAdds
    <2>1. CASE f.tries < MaxRetries /\ fetches' = And(Without(f), [f EXCEPT !.tries = @ + 1, !.answer = None])
        <3> DEFINE g == [f EXCEPT !.tries = @ + 1, !.answer = None]
        <3>1. f \in FetchType /\ None \in Answers
            BY DEF TypeOK, Answers
        <3>2. f.tries + 1 \in 0..MaxRetries
            BY <2>1, <3>1, DeliveryAssumption DEF DeliveryAssumption, FetchType
        <3>3. g \in FetchType /\ g.answer = None
            BY <3>1, <3>2 DEF FetchType
        <3>4. FetchType' = FetchType
            BY <1>1, WakeTyped DEF canvas
        <3>5. (BagToSet(fetches))' \subseteq BagToSet(fetches) \cup {g}
            BY <2>1, MembersAfter
        <3> QED BY <3>3, <3>4, <3>5 DEF CanvasAdds
    <2>2. CASE fetches' = Without(f)
        <3>1. (BagToSet(fetches))' \subseteq BagToSet(fetches)
            BY <2>2, MembersAfter
        <3> QED BY <1>1, <3>1, WakeTyped DEF CanvasAdds, canvas
    <2> QED BY <2>1, <2>2 DEF RetryQueued
<1> QED BY <1>1, <1>2, <1>3 DEF canvas, tracked

LEMMA FirstEvent ==
    ASSUME TypeOK, events # <<>>, events' = Tail(events), UNCHANGED content_gen
    PROVE  Head(events).gen \in 1..content_gen /\ EventsOK'
<1> DEFINE T == [type : EditKinds \cup {"tile-ready"}, gen : 1..content_gen]
<1>1. events \in Seq(T) /\ Len(events) <= MaxEvents
    BY DEF TypeOK
<1>2. Head(events) \in T /\ Tail(events) \in Seq(T) /\ Len(Tail(events)) = Len(events) - 1
    <2> HIDE DEF T
    <2> QED BY <1>1, HeadTailProperties
<1>3. Len(events) \in Nat /\ MaxEvents \in Nat
    BY <1>1, DeliveryAssumption DEF DeliveryAssumption
<1> QED BY <1>1, <1>2, <1>3 DEF EventsOK

LEMMA ChangedStep ==
    ASSUME TypeOK, Changed
    PROVE  /\ CanvasRanges /\ CanvasAdds /\ EventsOK'
           /\ tileRev' = tileRev + 1 /\ tileGen' = None /\ UNCHANGED bitmap
<1>0. UNCHANGED content_gen /\ tileRev' = tileRev + 1 /\ UNCHANGED <<bitmap>>
      /\ tileGen' = None /\ tileSource' = None /\ tileMaxGen' = None /\ pending' = None
    BY DEF Changed, backend
<1>1. Head(events).gen \in 1..content_gen /\ EventsOK'
    BY <1>0, FirstEvent DEF Changed
<1>2. maxKnownGen' \in 0..content_gen
    BY <1>1, KnownRanges, GensTyped DEF Changed
<1>3. Fetch(tileRev + 1) \in FetchType' /\ Fetch(tileRev + 1).answer = None
    BY <1>0, GensTyped, DeliveryAssumption DEF DeliveryAssumption, Fetch, FetchType, Answers
<1>4. (BagToSet(fetches))' \subseteq BagToSet(fetches) \cup {Fetch(tileRev + 1)}
    BY MembersAfter DEF Changed
<1>5. CanvasAdds
    BY <1>3, <1>4 DEF CanvasAdds
<1> QED BY <1>0, <1>1, <1>2, <1>5 DEF CanvasRanges, TypeOK

\* A wake posts a fetch or notes that one is on its way.
LEMMA WakeAdds ==
    ASSUME TypeOK, UNCHANGED <<content_gen, tileRev>>, NEW known \in PendingType,
           \/ pending' = [known EXCEPT !.needsRefetch = TRUE] /\ UNCHANGED fetches
           \/ pending' = [known EXCEPT !.inflight = TRUE] /\ fetches' = And(fetches, WakeFetch)
    PROVE  pending' \in PendingType /\ CanvasAdds
<1>1. pending' \in PendingType
    BY DEF PendingType
<1>2. (BagToSet(fetches))' \subseteq BagToSet(fetches) \cup {WakeFetch}
    BY MembersAfter
<1> QED BY <1>1, <1>2, WakeTyped DEF CanvasAdds

LEMMA TileReadyStep ==
    ASSUME TypeOK, TileReady
    PROVE  /\ CanvasRanges /\ CanvasAdds /\ EventsOK' /\ UNCHANGED <<bitmap, tileGen, tileRev>>
           /\ pending' \in PendingType
<1> DEFINE gen == Head(events).gen
           max == Larger(IF pending = None THEN Or(tileMaxGen, 0) ELSE pending.maxKnownGen, gen)
           known == IF pending = None THEN Tracked(FALSE, FALSE, FALSE, max)
                                      ELSE [pending EXCEPT !.maxKnownGen = max]
<1>0. /\ UNCHANGED <<content_gen, bitmap, tileGen, tileSource, tileRev>>
      /\ maxKnownGen' = Larger(maxKnownGen, gen) /\ tileMaxGen' = max
      /\ IF known.inflight
         THEN pending' = [known EXCEPT !.needsRefetch = TRUE] /\ UNCHANGED fetches
         ELSE pending' = [known EXCEPT !.inflight = TRUE] /\ fetches' = And(fetches, WakeFetch)
    BY DEF TileReady, backend
<1>1. gen \in 1..content_gen /\ EventsOK' /\ content_gen \in Nat
    BY <1>0, FirstEvent, GensTyped DEF TileReady
<1>2. max \in 1..content_gen
    <2> DEFINE a == IF pending = None THEN Or(tileMaxGen, 0) ELSE pending.maxKnownGen
    <2>1. a \in 0..content_gen
        BY KnownRanges
    <2> HIDE DEF a, gen
    <2>g. gen \in 0..content_gen
        BY <1>1
    <2>2. Larger(a, gen) \in 0..content_gen /\ Larger(a, gen) >= gen
        BY <1>1, <2>1, <2>g, LargerTyped
    <2>3. Larger(a, gen) \in 1..content_gen
        BY <1>1, <2>2
    <2> QED BY <2>3 DEF a
<1>3. maxKnownGen' \in 0..content_gen
    <2> HIDE DEF gen
    <2> QED BY <1>0, <1>1, KnownRanges, LargerTyped
<1>4. known \in PendingType
    <2>1. max \in 0..content_gen
        <3> HIDE DEF max
        <3> QED BY <1>1, <1>2
    <2> HIDE DEF max
    <2> QED BY <2>1, KnownRanges, TrackedTyped DEF PendingType
<1>5. pending' \in PendingType /\ CanvasAdds
    <2> HIDE DEF known
    <2> QED BY <1>0, <1>4, WakeAdds
<1>6. tileMaxGen' \in {None} \cup 1..content_gen
    <2> HIDE DEF max
    <2> QED BY <1>0, <1>2
<1> QED BY <1>0, <1>1, <1>3, <1>5, <1>6 DEF CanvasRanges, TypeOK

LEMMA WakeStep ==
    ASSUME TypeOK, NEW known \in PendingType, Wake(known)
    PROVE  /\ CanvasRanges /\ CanvasAdds /\ EventsOK' /\ UNCHANGED <<bitmap, tileGen, tileRev>>
           /\ pending' \in PendingType
<1>1. UNCHANGED <<content_gen, events, bitmap, tileGen, tileSource, tileMaxGen, maxKnownGen, tileRev>>
    BY DEF Wake, tracked, backend
<1>2. pending' \in PendingType /\ CanvasAdds
    BY <1>1, WakeAdds DEF Wake
<1>3. EventsOK'
    BY <1>1, TypeParts DEF EventsOK
<1> QED BY <1>1, <1>2, <1>3 DEF CanvasRanges, TypeOK

\* The three things a step of the canvas may do to what is drawn.
KeepsBitmap == UNCHANGED <<bitmap, tileGen, tileRev>>

DrawsBody ==
    \E f : /\ Body(f) /\ f.rev = tileRev /\ ~shouldDiscardStaleGen(f.answer.gen)
           /\ Draw(f.answer) /\ UNCHANGED tileRev

ForgetsTile == UNCHANGED bitmap /\ tileGen' = None /\ tileRev' = tileRev + 1

CanvasStep == Responses \/ Changed \/ TileReady \/ EdProgress \/ SafetyTimer

LEMMA CanvasSteps ==
    ASSUME TypeOK, CanvasStep
    PROVE  /\ UNCHANGED <<backend, handler>>
           /\ EventsOK' /\ CanvasRanges /\ CanvasAdds
           /\ KeepsBitmap \/ DrawsBody \/ ForgetsTile
           /\ Responses \/ Changed \/ pending' \in PendingType
<1>1. ASSUME NEW f \in BagToSet(fetches), Deliver(f)
      PROVE  /\ UNCHANGED <<backend, handler>>
             /\ EventsOK' /\ CanvasRanges /\ CanvasAdds
             /\ KeepsBitmap \/ DrawsBody
    <2>0. UNCHANGED <<backend, handler, events, content_gen>> /\ f.answer # None
        BY <1>1 DEF Deliver, backend
    <2>1. EventsOK'
        BY <2>0, TypeParts DEF EventsOK
    <2>2. CASE f.answer.status = 200 /\ f.rev = tileRev /\ Decoded(f)
        <3>1. Body(f)
            BY <2>0, <2>2 DEF Body
        <3>2. /\ UNCHANGED tileRev /\ CanvasRanges /\ CanvasAdds
              /\ \/ UNCHANGED <<bitmap, tileGen>>
                 \/ ~shouldDiscardStaleGen(f.answer.gen) /\ Draw(f.answer)
            BY <2>0, <2>2, <3>1, DecodedStep
        <3> QED BY <2>0, <2>1, <2>2, <3>1, <3>2 DEF KeepsBitmap, DrawsBody
    <2>3. CASE DropDecoded(f)
        BY <2>0, <2>1, <2>3, DropDecodedStep DEF KeepsBitmap
    <2>4. CASE TilePending(f)
        BY <2>0, <2>1, <2>4, TilePendingStep DEF KeepsBitmap
    <2>5. CASE RetryQueued(f)
        BY <2>0, <2>1, <2>5, RetryQueuedStep DEF KeepsBitmap
    <2> QED BY <1>1, <2>2, <2>3, <2>4, <2>5 DEF Deliver
<1>2. CASE Changed
    BY <1>2, ChangedStep DEF Changed, ForgetsTile
<1>3. CASE TileReady
    BY <1>3, TileReadyStep DEF TileReady, KeepsBitmap
<1>4. CASE EdProgress
    <2>1. pending \in PendingType
        BY <1>4, KnownRanges DEF EdProgress
    <2>2. Wake(pending)
        BY <1>4 DEF EdProgress
    <2> QED BY <2>1, <2>2, WakeStep DEF Wake, KeepsBitmap
<1>5. CASE SafetyTimer
    <2> DEFINE known ==
            CASE pending = None -> Tracked(FALSE, FALSE, FALSE, Or(tileMaxGen, maxKnownGen))
              [] pending # None /\ pending.inflight -> pending
              [] OTHER -> [pending EXCEPT !.refetchDone = FALSE, !.needsRefetch = FALSE]
    <2>1. known \in PendingType
        <3>1. CASE pending = None
            BY <3>1, KnownRanges, TrackedTyped
        <3>2. CASE pending # None /\ pending.inflight
            BY <3>2, KnownRanges
        <3>3. CASE pending # None /\ ~pending.inflight
            BY <3>3, KnownRanges DEF PendingType
        <3> QED BY <3>1, <3>2, <3>3
    <2>2. Wake(known)
        BY <1>5 DEF SafetyTimer
    <2> HIDE DEF known
    <2> QED BY <2>1, <2>2, WakeStep DEF Wake, KeepsBitmap
<1> QED BY <1>1, <1>2, <1>3, <1>4, <1>5 DEF CanvasStep, Responses
-----------------------------------------------------------------------------
LEMMA TypeStep == TypeOK /\ [Next]_vars => TypeOK'
<1> SUFFICES ASSUME TypeOK, [Next]_vars PROVE TypeOK'
    OBVIOUS
<1>1. CASE Edit
    BY <1>1, EditTyped
<1>2. CASE Backend
    BY <1>2, BackendTyped
<1>3. CASE Handler
    BY <1>3, HandlerTyped
<1>4. CASE CanvasStep
    <2>1. tileRev' \in Nat \ {0} /\ tileRev' >= tileRev
        <3>1. tileRev' = tileRev \/ tileRev' = tileRev + 1
            BY <1>4, CanvasSteps DEF KeepsBitmap, DrawsBody, ForgetsTile
        <3> QED BY <3>1, GensTyped
    <2> QED BY <1>4, <2>1, CanvasSteps, CanvasTyped
<1>5. CASE UNCHANGED vars
    BY <1>5 DEF vars, backend, canvas, tracked, TypeOK, FetchType, Answers, BagToSet
<1> QED BY <1>1, <1>2, <1>3, <1>4, <1>5 DEF Next, CanvasStep

\* Every generation that is cached, on its way, drawn or remembered is one the
\* document has had, and every queue keeps its bound.
THEOREM TypeCorrect == Spec => []TypeOK
<1> QED BY TypeInit, TypeStep, PTL DEF Spec

-----------------------------------------------------------------------------
(* The cache, what is in flight and the screen.                            *)

\* Only Publish and Edit touch the cached tile, and neither takes its
\* generation back.
EntryGrows == entry # None => entry' # None /\ entry'.generation >= entry.generation

LEMMA EntryTyped ==
    ASSUME TypeOK, entry # None
    PROVE  entry \in [generation : Nat, dirty : BOOLEAN] /\ entry.generation \in 1..content_gen
<1>1. entry \in [generation : 1..content_gen, dirty : BOOLEAN]
    BY DEF TypeOK
<1> QED BY <1>1, GensTyped

LEMMA EntryNeverOlder ==
    ASSUME TypeOK, Edit \/ Backend \/ UNCHANGED entry
    PROVE  EntryGrows
<1> SUFFICES ASSUME entry # None
             PROVE  entry' # None /\ entry'.generation >= entry.generation
    BY DEF EntryGrows
<1>0. /\ None \notin [generation : Nat, dirty : BOOLEAN] /\ content_gen \in Nat
      /\ entry \in [generation : Nat, dirty : BOOLEAN] /\ entry.generation \in 1..content_gen
    BY DeliveryAssumption, GensTyped, EntryTyped DEF DeliveryAssumption
<1>1. CASE UNCHANGED entry
    BY <1>0, <1>1
<1>2. CASE entry' = [entry EXCEPT !.dirty = TRUE]
    <2>1. entry' \in [generation : Nat, dirty : BOOLEAN] /\ entry'.generation = entry.generation
        BY <1>0, <1>2
    <2> QED BY <2>1, <1>0
<1>3. CASE entry' = [generation |-> content_gen, dirty |-> FALSE]
    <2>1. entry' \in [generation : Nat, dirty : BOOLEAN] /\ entry'.generation = content_gen
        BY <1>0, <1>3
    <2> QED BY <2>1, <1>0
<1>4. entry' = entry \/ entry' = [entry EXCEPT !.dirty = TRUE]
        \/ entry' = [generation |-> content_gen, dirty |-> FALSE]
    BY DEF Edit, Backend, TakeTask, Publish, Look, NotifyIfPending, EmitReady
<1> QED BY <1>1, <1>2, <1>3, <1>4

\* What was cached before the step is cached, or superseded, after it.
LEMMA CachedStays ==
    ASSUME TypeOK, TypeOK', EntryGrows, NEW gen \in Nat, entry # None, gen <= entry.generation
    PROVE  entry' # None /\ gen <= entry'.generation
<1>1. entry' # None /\ entry'.generation >= entry.generation
    BY DEF EntryGrows
<1>2. entry.generation \in Nat
    BY EntryTyped
<1>3. entry'.generation \in Nat
    <2>0. BackendOK'
        BY TypePartsNext
    <2>1. entry' \in [generation : 1..content_gen', dirty : BOOLEAN]
        BY <1>1, <2>0 DEF BackendOK
    <2>2. content_gen' \in Nat
        <3>1. content_gen' = edits' + 1 /\ edits' \in 0..MaxEdits
            BY <2>0 DEF BackendOK
        <3>2. MaxEdits \in Nat
            BY DeliveryAssumption DEF DeliveryAssumption
        <3>3. \A e, m : m \in Nat /\ e \in 0..m => e + 1 \in Nat
            OBVIOUS
        <3> QED BY <3>1, <3>2, <3>3, Zenon
    <2> QED BY <2>1, <2>2
<1> QED BY <1>1, <1>2, <1>3

LEMMA SharpTyped ==
    ASSUME TypeOK
    PROVE  /\ Sharp => bitmap.gen \in Nat
           /\ \A f \in InFlight : SharpAnswer(f) => f.answer.gen \in Nat /\ f.rev \in 1..tileRev
<1>1. Sharp => bitmap.gen \in Nat
    BY GensTyped DEF TypeOK, Sharp
<1>2. ASSUME NEW f \in InFlight, SharpAnswer(f)
      PROVE  f.answer.gen \in Nat /\ f.rev \in 1..tileRev
    <2>1. f \in FetchType
        BY FetchTyped
    <2>2. f.answer \in [status : {200}, quality : {"fresh", "stale", "upsample"}, gen : 1..content_gen]
        BY <1>2, <2>1 DEF FetchType, Answers, SharpAnswer
    <2> QED BY <2>1, <2>2, GensTyped DEF FetchType
<1> QED BY <1>1, <1>2

\* A step that adds one fetch g, answered with the cached tile if at all, and
\* draws nothing.
LEMMA NothingDrawn ==
    ASSUME DeliveryInv, TypeOK', EntryGrows, UNCHANGED bitmap,
           \/ UNCHANGED <<tileGen, tileRev>>
           \/ tileGen' = None /\ tileRev' = tileRev + 1,
           NEW g, SharpAnswer(g) => g \in InFlight \/ (AsCached(g) /\ UNCHANGED tileRev),
           InFlight' \subseteq InFlight \cup {g}
    PROVE  DeliveryInv'
<1>0. TypeOK /\ FromCache /\ Remembered /\ NewRevNotOlder
    BY DEF DeliveryInv
<1>1. Sharp' => Sharp /\ entry' # None /\ bitmap'.gen <= entry'.generation
    <2>1. Sharp' => Sharp
        BY DEF Sharp
    <2>2. Sharp => bitmap.gen \in Nat /\ entry # None /\ bitmap.gen <= entry.generation
        BY <1>0, SharpTyped DEF FromCache
    <2>3. Sharp => entry' # None /\ bitmap.gen <= entry'.generation
        BY <1>0, <2>2, CachedStays
    <2> QED BY <2>1, <2>3
<1>2. ASSUME NEW f \in InFlight', SharpAnswer(f)
      PROVE  /\ entry # None /\ f.answer.gen \in Nat /\ f.answer.gen <= entry.generation
             /\ f \in InFlight \/ (AsCached(f) /\ UNCHANGED tileRev)
    <2>1. CASE f \in InFlight
        <3>1. entry # None /\ f.answer.gen <= entry.generation
            BY <1>0, <1>2, <2>1 DEF FromCache
        <3>2. f.answer.gen \in Nat
            BY <1>0, <1>2, <2>1, SharpTyped
        <3> QED BY <2>1, <3>1, <3>2
    <2>2. CASE AsCached(f) /\ UNCHANGED tileRev
        BY <1>0, <1>2, <2>2, EntryTyped, GensTyped DEF AsCached
    <2> QED BY <1>2, <2>1, <2>2
<1>3. FromCache'
    <2>1. \A f \in InFlight' : SharpAnswer(f) => entry' # None /\ f.answer.gen <= entry'.generation
        BY <1>0, <1>2, CachedStays
    <2> QED BY <1>1, <2>1 DEF FromCache
<1>4. Remembered'
    BY <1>0 DEF Remembered
<1>5. NewRevNotOlder'
    <2> SUFFICES ASSUME tileGen' = None, Sharp', NEW f \in InFlight', f.rev = tileRev', SharpAnswer(f)
                 PROVE  bitmap'.gen <= f.answer.gen
        BY DEF NewRevNotOlder
    <2>1. CASE UNCHANGED <<tileGen, tileRev>> /\ f \in InFlight
        BY <1>0, <1>1, <2>1 DEF NewRevNotOlder
    <2>2. CASE AsCached(f)
        BY <1>0, <1>1, <2>2 DEF AsCached, FromCache
    <2>3. CASE tileRev' = tileRev + 1 /\ f \in InFlight
        BY <1>0, <2>3, SharpTyped, GensTyped
    <2> QED BY <1>2, <2>1, <2>2, <2>3
<1> QED BY <1>3, <1>4, <1>5 DEF DeliveryInv

LEMMA InFlightAfter ==
    ASSUME TypeOK
    PROVE  /\ Edit \/ Backend \/ UNCHANGED vars => InFlight' = InFlight
           /\ \A g : HandlerAdds(g) => InFlight' \subseteq InFlight \cup {g}
           /\ \A g : UNCHANGED handler /\ (BagToSet(fetches))' \subseteq BagToSet(fetches) \cup {g}
                        => InFlight' \subseteq InFlight \cup {g}
<1>1. InFlight' = (BagToSet(fetches))' \cup (IF handler' = None THEN {} ELSE {handler'.fetch})
    BY DEF InFlight
<1>2. Edit \/ Backend \/ UNCHANGED vars => InFlight' = InFlight
    <2>1. Edit \/ Backend \/ UNCHANGED vars => UNCHANGED <<fetches, handler>>
        BY DEF Edit, Backend, TakeTask, Publish, Look, NotifyIfPending, EmitReady, vars
    <2> QED BY <1>1, <2>1, MembersAfter DEF InFlight
<1>3. ASSUME NEW g, HandlerAdds(g)
      PROVE  InFlight' \subseteq InFlight \cup {g}
    <2>1. handler' # None => handler'.fetch = g
        BY <1>3 DEF HandlerAdds
    <2> QED BY <1>1, <1>3, <2>1 DEF HandlerAdds
<1>4. ASSUME NEW g, UNCHANGED handler, (BagToSet(fetches))' \subseteq BagToSet(fetches) \cup {g}
      PROVE  InFlight' \subseteq InFlight \cup {g}
    BY <1>1, <1>4 DEF InFlight
<1> QED BY <1>2, <1>3, <1>4

\* A step that draws the body of f.
LEMMA BodyDrawn ==
    ASSUME DeliveryInv, UNCHANGED <<content_gen, entry, tileRev>>,
           NEW f, Body(f), f.rev = tileRev, ~shouldDiscardStaleGen(f.answer.gen), Draw(f.answer),
           NEW g, g.answer = None, InFlight' \subseteq InFlight \cup {g}, TypeOK'
    PROVE  DeliveryInv' /\ (Sharp /\ Sharp' => bitmap'.gen >= bitmap.gen)
<1>0. TypeOK /\ FromCache /\ Remembered /\ NewRevNotOlder
    BY DEF DeliveryInv
<1>1. /\ bitmap' = [gen |-> f.answer.gen, quality |-> f.answer.quality]
      /\ tileGen' = f.answer.gen
      /\ f \in InFlight /\ f.answer.gen \in 1..content_gen /\ content_gen \in Nat
    BY <1>0, BodyTyped, GensTyped DEF Draw
<1>2. bitmap'.gen = f.answer.gen /\ (Sharp' => SharpAnswer(f)) /\ tileGen' # None
    <2>1. tileGen' \in Nat
        BY <1>1
    <2>2. Sharp' => f.answer.quality # "upsample"
        BY <1>1 DEF Sharp
    <2> QED BY <1>1, <2>1, <2>2, DeliveryAssumption DEF Body, SharpAnswer, DeliveryAssumption
<1>3. FromCache'
    <2>1. Sharp' => entry' # None /\ bitmap'.gen <= entry'.generation
        BY <1>0, <1>1, <1>2 DEF FromCache
    <2>2. \A h \in InFlight' : SharpAnswer(h) => entry' # None /\ h.answer.gen <= entry'.generation
        BY <1>0 DEF FromCache, SharpAnswer
    <2> QED BY <2>1, <2>2 DEF FromCache
<1>4. Remembered' /\ NewRevNotOlder'
    BY <1>1, <1>2 DEF Remembered, NewRevNotOlder
<1>5. Sharp /\ Sharp' => bitmap'.gen >= bitmap.gen
    <2> SUFFICES ASSUME Sharp, Sharp' PROVE bitmap'.gen >= bitmap.gen
        OBVIOUS
    <2>0. bitmap.gen \in Nat /\ f.answer.gen \in Nat
        BY <1>0, <1>1, SharpTyped
    <2>1. CASE tileGen = None
        <3>1. bitmap.gen <= f.answer.gen
            BY <1>0, <1>1, <1>2, <2>1 DEF NewRevNotOlder
        <3> QED BY <3>1, <1>2, <2>0
    <2>2. CASE tileGen # None
        <3>1. tileGen = bitmap.gen /\ ~(f.answer.gen < tileGen)
            BY <1>0, <2>2 DEF Remembered, shouldDiscardStaleGen
        <3> QED BY <3>1, <1>2, <2>0
    <2> QED BY <2>1, <2>2
<1> QED BY <1>3, <1>4, <1>5 DEF DeliveryInv

LEMMA DeliveryStep ==
    ASSUME DeliveryInv, [Next]_vars
    PROVE  DeliveryInv' /\ (Sharp /\ Sharp' => bitmap'.gen >= bitmap.gen)
<1>0. TypeOK /\ TypeOK'
    BY TypeStep DEF DeliveryInv
<1>k. ASSUME UNCHANGED bitmap PROVE Sharp /\ Sharp' => bitmap'.gen >= bitmap.gen
    BY <1>0, <1>k, SharpTyped
<1>1. CASE Edit \/ Backend \/ UNCHANGED vars
    <2>1. UNCHANGED <<bitmap, tileGen, tileRev>>
        BY <1>1 DEF Edit, Backend, TakeTask, Publish, Look, NotifyIfPending, EmitReady,
                    vars, canvas, tracked
    <2>2. EntryGrows
        BY <1>0, <1>1, EntryNeverOlder DEF vars, backend
    <2>3. InFlight' \subseteq InFlight \cup {Fetch(1)} /\ ~SharpAnswer(Fetch(1))
        BY <1>0, <1>1, InFlightAfter DEF Fetch, SharpAnswer
    <2> QED BY <1>0, <1>k, <2>1, <2>2, <2>3, NothingDrawn
<1>2. CASE Handler
    <2>1. UNCHANGED <<entry, bitmap, tileGen, tileRev>>
        BY <1>0, <1>2, HandlerStep DEF canvas, tracked
    <2>2. EntryGrows
        BY <1>0, <2>1, EntryNeverOlder
    <2>p. PICK g : HandlerAdds(g)
        BY <1>0, <1>2, HandlerStep
    <2>3. InFlight' \subseteq InFlight \cup {g}
        BY <1>0, <2>p, InFlightAfter
    <2> QED BY <1>0, <1>k, <2>1, <2>2, <2>3, <2>p, NothingDrawn DEF HandlerAdds
<1>3. CASE CanvasStep
    <2>1. UNCHANGED <<entry, content_gen, handler>>
        BY <1>0, <1>3, CanvasSteps DEF backend
    <2>2. EntryGrows
        BY <1>0, <2>1, EntryNeverOlder
    <2>p. PICK g : g.answer = None /\ (BagToSet(fetches))' \subseteq BagToSet(fetches) \cup {g}
        BY <1>0, <1>3, CanvasSteps DEF CanvasAdds
    <2>3. InFlight' \subseteq InFlight \cup {g} /\ ~SharpAnswer(g)
        BY <1>0, <2>1, <2>p, InFlightAfter DEF SharpAnswer
    <2>4. CASE KeepsBitmap \/ ForgetsTile
        BY <1>0, <1>k, <2>2, <2>3, <2>4, NothingDrawn DEF KeepsBitmap, ForgetsTile
    <2>5. CASE DrawsBody
        BY <1>0, <2>1, <2>3, <2>p, <2>5, BodyDrawn DEF DrawsBody
    <2> QED BY <1>0, <1>3, <2>4, <2>5, CanvasSteps
<1> QED BY <1>1, <1>2, <1>3 DEF Next, CanvasStep

LEMMA DeliveryInit == Init => DeliveryInv
<1> SUFFICES ASSUME Init PROVE DeliveryInv
    OBVIOUS
<1>1. InFlight = {Fetch(1)}
    BY DEF Init, InFlight, BagToSet, SetToBag
<1>2. ~SharpAnswer(Fetch(1))
    BY DEF SharpAnswer, Fetch
<1> QED BY <1>1, <1>2, TypeInit DEF Init, DeliveryInv, FromCache, Remembered, NewRevNotOlder, Sharp

\* Whatever the order of requests, announcements and responses, pixels of the
\* document are never replaced on the screen by pixels of an earlier
\* generation; an upsampled preview is not among them.
THEOREM NeverGoesBack == Spec => NeverOlder
<1>1. DeliveryInv /\ [Next]_vars => [Sharp /\ Sharp' => bitmap'.gen >= bitmap.gen]_vars
    BY DeliveryStep
<1>2. DeliveryInv /\ [Next]_vars => DeliveryInv'
    BY DeliveryStep
<1> QED BY <1>1, <1>2, DeliveryInit, PTL DEF Spec, NeverOlder

-----------------------------------------------------------------------------
(* The canvas stops asking only when it shows the live document.           *)

\* The bag of fetches is one: what leaves it is one fetch, not two.
LEMMA BagAnd ==
    ASSUME NEW bag, IsABag(bag), NEW f
    PROVE  IsABag(And(bag, f))
<1>1. And(bag, f) = [e \in DOMAIN bag \cup {f} |->
                        (IF e \in DOMAIN bag THEN bag[e] ELSE 0) + (IF e \in {f} THEN 1 ELSE 0)]
    BY DEF And, SetToBag, (+)
<1>2. ASSUME NEW e \in DOMAIN bag \cup {f}
      PROVE  (IF e \in DOMAIN bag THEN bag[e] ELSE 0) + (IF e \in {f} THEN 1 ELSE 0)
                \in {n \in Nat : n > 0}
    <2>1. CASE e \in DOMAIN bag
        BY <2>1 DEF IsABag
    <2>2. CASE e \notin DOMAIN bag
        BY <1>2, <2>2
    <2> QED BY <2>1, <2>2
<1> QED BY <1>1, <1>2 DEF IsABag

LEMMA BagWithout ==
    ASSUME IsABag(fetches), NEW f
    PROVE  /\ IsABag(Without(f))
           /\ BagToSet(fetches) \ {f} \subseteq BagToSet(Without(f))
<1> DEFINE B == [e \in DOMAIN fetches |-> IF e \in {f} THEN fetches[e] - 1 ELSE fetches[e]]
<1>1. Without(f) = [e \in {d \in DOMAIN B : B[d] > 0} |-> B[e]]
    BY DEF Without, SetToBag, (-)
<1>2. ASSUME NEW e \in DOMAIN fetches
      PROVE  B[e] \in Int /\ (e # f => B[e] > 0)
    BY <1>2 DEF IsABag
<1>3. DOMAIN B = DOMAIN fetches
    OBVIOUS
<1> HIDE DEF B
<1>4. ASSUME NEW e \in {d \in DOMAIN B : B[d] > 0}
      PROVE  B[e] \in {n \in Nat : n > 0}
    BY <1>2, <1>3
<1> QED BY <1>1, <1>2, <1>3, <1>4 DEF IsABag, BagToSet

LEMMA MembersStay ==
    ASSUME IsABag(fetches)
    PROVE  /\ \A f, g : fetches' = And(Without(f), g) =>
                  /\ IsABag(fetches')
                  /\ BagToSet(fetches) \ {f} \subseteq (BagToSet(fetches))'
                  /\ g \in (BagToSet(fetches))'
           /\ \A f : fetches' = Without(f) =>
                  IsABag(fetches') /\ BagToSet(fetches) \ {f} \subseteq (BagToSet(fetches))'
           /\ \A g : fetches' = And(fetches, g) =>
                  /\ IsABag(fetches')
                  /\ BagToSet(fetches) \cup {g} \subseteq (BagToSet(fetches))'
<1>0. (BagToSet(fetches))' = BagToSet(fetches')
    BY DEF BagToSet
<1>1. ASSUME NEW f, NEW g, fetches' = And(Without(f), g)
      PROVE  /\ IsABag(fetches')
             /\ BagToSet(fetches) \ {f} \subseteq (BagToSet(fetches))'
             /\ g \in (BagToSet(fetches))'
    <2>1. BagToSet(And(Without(f), g)) = BagToSet(Without(f)) \cup {g}
        BY AndMembers
    <2>2. IsABag(And(Without(f), g))
        BY BagWithout, BagAnd
    <2> QED BY <2>1, <2>2, <1>0, <1>1, BagWithout
<1>2. ASSUME NEW f, fetches' = Without(f)
      PROVE  IsABag(fetches') /\ BagToSet(fetches) \ {f} \subseteq (BagToSet(fetches))'
    BY <1>0, <1>2, BagWithout
<1>3. ASSUME NEW g, fetches' = And(fetches, g)
      PROVE  IsABag(fetches') /\ BagToSet(fetches) \cup {g} \subseteq (BagToSet(fetches))'
    <2>1. BagToSet(And(fetches, g)) = BagToSet(fetches) \cup {g}
        BY AndMembers
    <2> QED BY <2>1, <1>0, <1>3, BagAnd
<1> QED BY <1>1, <1>2, <1>3

\* "Nothing" is neither an entry nor a request.
LEMMA EntryIsSomething ==
    ASSUME TypeOK, NEW p \in PendingType
    PROVE  p # None
<1>1. 0..content_gen \subseteq Nat
    BY GensTyped
<1>2. p \in [inflight : BOOLEAN, needsRefetch : BOOLEAN, refetchDone : BOOLEAN, maxKnownGen : Nat]
    BY <1>1 DEF PendingType
<1> QED BY <1>2, NothingAssumption DEF NothingAssumption

LEMMA RequestIsSomething ==
    ASSUME TypeOK, NEW f \in FetchType, NEW at \in {"enqueue", "classify"}
    PROVE  [at |-> at, fetch |-> f] # None
<1> DEFINE A == {None}
                  \cup [status : {200}, quality : {"fresh", "stale", "upsample"}, gen : Nat]
                  \cup [status : {202}, reason : {"ed_prefix", "queued", "computing"}]
           R == [rev : Nat, tries : Nat, answer : A]
<1>1. 1..content_gen \subseteq Nat /\ 1..tileRev \subseteq Nat /\ 0..MaxRetries \subseteq Nat
    BY GensTyped, DeliveryAssumption DEF DeliveryAssumption
<1>2. Answers \subseteq A
    BY <1>1 DEF Answers
<1> HIDE DEF A
<1>3. f \in R
    BY <1>1, <1>2 DEF FetchType
<1>4. None \notin [at : {"enqueue", "classify"}, fetch : R]
    BY NothingAssumption DEF NothingAssumption, A
<1> HIDE DEF R
<1> QED BY <1>3, <1>4

\* Every change of the document has reached the canvas.
Current == \A i \in 1..Len(events) : events[i].type = "tile-ready"

\* A job that will publish was given the live document whole.
JobCurrent ==
    worker.at = "computing" /\ worker.generation = content_gen => worker.document_gen = document_gen

\* The tile is awaited, and a job that will announce it is due or running.
Announcing ==
    /\ registered
    /\ \/ task
       \/ worker.at = "computing"
       \/ worker.at = "look" /\ Fresh /\ worker.document_gen = document_gen
       \/ worker.at = "notify" /\ Fresh

\* The canvas has something of the tile, tracks it, or will hear of it.
Backed ==
    \/ Announcing
    \/ \E i \in 1..Len(events) : events[i].type = "tile-ready"
    \/ tileGen # None
    \/ pending # None

\* The fetch worker retries this fetch, and will not tell when it gives up.
SilentlyRetried(f) ==
    \/ f.tries > 0
    \/ f.answer # None /\ f.answer.status = 202 /\ f.answer.reason = "queued"

FreshBody(f) == f.answer # None /\ f.answer.status = 200 /\ f.answer.quality = "fresh"

Drawn == tileGen # None => tileSource \in {"fresh", "stale", "upsample"}
FinalBodies == \A f \in InFlight : f.rev = tileRev /\ FreshBody(f) => f.answer.gen = content_gen
ShownFinal == tileGen # None /\ tileSource = "fresh" => ShowsLive
RetriesBacked == \A f \in InFlight : f.rev = tileRev /\ SilentlyRetried(f) => Backed
AskedFor == tileGen = None /\ pending = None => FetchOutstanding \/ Backed

Settling == FinalBodies /\ ShownFinal /\ RetriesBacked /\ AskedFor

RestInv == TypeOK /\ IsABag(fetches) /\ Drawn /\ JobCurrent /\ (Current => Settling)

LEMMA RestInvImplies == RestInv => RestShowsLive
<1> SUFFICES ASSUME RestInv, events = <<>>, InFlight = {}, ~task, worker.at = "idle",
                    pending = None, tileSource \notin {"stale", "upsample"}
             PROVE  ShowsLive
    BY DEF RestShowsLive
<1>1. Current /\ ~(\E i \in 1..Len(events) : events[i].type = "tile-ready")
    BY DEF Current
<1>2. ~Announcing /\ ~FetchOutstanding
    BY DEF Announcing, FetchOutstanding
<1>3. tileGen # None
    BY <1>1, <1>2 DEF RestInv, Settling, AskedFor, Backed
<1>4. tileSource = "fresh"
    BY <1>3 DEF RestInv, Drawn
<1> QED BY <1>1, <1>3, <1>4 DEF RestInv, Settling, ShownFinal

LEMMA RestInit == Init => RestInv
<1> SUFFICES ASSUME Init PROVE RestInv
    OBVIOUS
<1>1. InFlight = {Fetch(1)}
    BY DEF Init, InFlight, BagToSet, SetToBag
<1>2. Fetch(1) = [rev |-> 1, tries |-> 0, answer |-> None]
    BY DEF Fetch
<1>3. ~FreshBody(Fetch(1)) /\ ~SilentlyRetried(Fetch(1)) /\ Fetch(1).rev = 1
    BY <1>2 DEF FreshBody, SilentlyRetried
<1>4. IsABag(fetches)
    BY DEF Init, IsABag, SetToBag
<1>5. tileGen = None /\ tileRev = 1 /\ worker.at = "idle"
    BY DEF Init, WorkerIdle
<1>6. FinalBodies /\ RetriesBacked /\ FetchOutstanding
    BY <1>1, <1>3, <1>5 DEF FinalBodies, RetriesBacked, FetchOutstanding
<1> QED BY <1>4, <1>5, <1>6, TypeInit DEF RestInv, Drawn, JobCurrent, Settling, ShownFinal, AskedFor

\* The queue of events.
LEMMA NewsKept ==
    ASSUME TypeOK, NEW gen, Emit([type |-> "tile-ready", gen |-> gen])
    PROVE  /\ Current' => Current
           /\ \E i \in 1..Len(events') : events'[i].type = "tile-ready"
<1>1. events \in Seq([type : EditKinds \cup {"tile-ready"}, gen : 1..content_gen])
    BY DEF TypeOK
<1>2. /\ Len(events') = Len(events) + 1 /\ Len(events) \in Nat
      /\ \A i \in 1..Len(events) : events'[i] = events[i]
      /\ events'[Len(events) + 1] = [type |-> "tile-ready", gen |-> gen]
    BY <1>1, AppendProperties DEF Emit
<1>3. Len(events) + 1 \in 1..Len(events') /\ 1..Len(events) \subseteq 1..Len(events')
    BY <1>2
<1>4. Current' => Current
    BY <1>2, <1>3 DEF Current
<1> QED BY <1>2, <1>3, <1>4

LEMMA ChangeSeen ==
    ASSUME TypeOK, NEW e, e.type # "tile-ready", Emit(e)
    PROVE  ~Current'
<1>1. events \in Seq([type : EditKinds \cup {"tile-ready"}, gen : 1..content_gen])
    BY DEF TypeOK
<1>2. /\ Len(events') = Len(events) + 1 /\ Len(events) \in Nat
      /\ events'[Len(events) + 1] = e
    BY <1>1, AppendProperties DEF Emit
<1>3. Len(events) + 1 \in 1..Len(events')
    BY <1>2
<1> QED BY <1>2, <1>3 DEF Current

LEMMA ReadyTaken ==
    ASSUME TypeOK, events # <<>>, Head(events).type = "tile-ready", events' = Tail(events)
    PROVE  Current' => Current
<1>1. events \in Seq([type : EditKinds \cup {"tile-ready"}, gen : 1..content_gen])
    BY DEF TypeOK
<1>2. /\ Len(events) \in Nat \ {0} /\ Len(events') = Len(events) - 1
      /\ \A i \in 1..Len(events') : events'[i] = events[i + 1]
      /\ events[1] = Head(events)
    BY <1>1, HeadTailProperties
<1> SUFFICES ASSUME Current', NEW i \in 1..Len(events), i # 1 PROVE events[i].type = "tile-ready"
    BY <1>2 DEF Current
<1>3. i - 1 \in 1..Len(events') /\ events'[i - 1] = events[i]
    BY <1>2
<1> QED BY <1>3 DEF Current

\* The worker's steps: whoever is to announce the tile still is, or has.
LEMMA NewsBackend ==
    ASSUME TypeOK, Backend
    PROVE  /\ UNCHANGED <<content_gen, document_gen, handler, fetches, canvas>>
           /\ Current' => Current
           /\ (\E i \in 1..Len(events) : events[i].type = "tile-ready")
                => (\E i \in 1..Len(events') : events'[i].type = "tile-ready")
<1>1. CASE UNCHANGED events
    BY <1>1 DEF Current, Backend, TakeTask, Publish, Look, NotifyIfPending, EmitReady
<1>2. CASE NotifyIfPending /\ ~UNCHANGED events
    <2>1. Emit([type |-> "tile-ready", gen |-> entry.generation])
        BY <1>2 DEF NotifyIfPending
    <2> QED BY <2>1, <1>2, NewsKept DEF NotifyIfPending
<1>3. CASE EmitReady
    BY <1>3, NewsKept DEF EmitReady
<1>4. TakeTask \/ Publish \/ Look => UNCHANGED events
    BY DEF TakeTask, Publish, Look
<1> QED BY <1>1, <1>2, <1>3, <1>4 DEF Backend

LEMMA StillAnnounced ==
    ASSUME TypeOK, JobCurrent, Backend, Announcing
    PROVE  Backed'
<1>0. UNCHANGED <<content_gen, document_gen>> /\ content_gen \in Nat
    BY NewsBackend, GensTyped
<1>1. CASE TakeTask
    <2>1. worker'.at = "computing" /\ registered'
        BY <1>1 DEF TakeTask, Announcing
    <2> QED BY <2>1 DEF Backed, Announcing
<1>2. CASE Publish
    <2>w. /\ worker'.at = "look" /\ worker'.document_gen = worker.document_gen
          /\ registered'
        BY <1>2 DEF Publish, Announcing, TypeOK
    <2>1. CASE worker.generation = content_gen
        <3>1. entry' = [generation |-> content_gen, dirty |-> FALSE]
            BY <1>2, <2>1 DEF Publish
        <3>2. entry' # None
            <4>1. entry' \in [generation : Nat, dirty : BOOLEAN]
                BY <3>1, <1>0
            <4> QED BY <4>1, DeliveryAssumption DEF DeliveryAssumption
        <3>3. Fresh'
            BY <1>0, <3>1, <3>2 DEF Fresh
        <3>4. worker'.document_gen = document_gen'
            BY <1>0, <1>2, <2>1, <2>w DEF Publish, JobCurrent
        <3> QED BY <2>w, <3>3, <3>4 DEF Backed, Announcing
    <2>2. CASE worker.generation # content_gen
        BY <1>2, <2>2, <2>w DEF Publish, Backed, Announcing
    <2> QED BY <2>1, <2>2
<1>3. CASE Look
    <2>0. UNCHANGED <<entry, task, registered>> /\ worker.at = "look" /\ registered
        BY <1>3 DEF Look, Announcing
    <2>1. CASE task
        BY <2>0, <2>1 DEF Backed, Announcing
    <2>2. CASE Fresh /\ worker.document_gen = document_gen
        <3>1. ~(worker.document_gen < document_gen)
            BY <2>2, GensTyped
        <3>2. worker' = [WorkerIdle EXCEPT !.at = "notify"]
            BY <1>3, <2>0, <2>2, <3>1 DEF Look
        <3>3. worker'.at = "notify" /\ Fresh'
            BY <1>0, <2>0, <2>2, <3>2 DEF WorkerIdle, Fresh
        <3> QED BY <2>0, <3>3 DEF Backed, Announcing
    <2> QED BY <2>0, <2>1, <2>2 DEF Announcing
<1>4. CASE NotifyIfPending
    <2>0. UNCHANGED <<entry, task>> /\ worker.at = "notify" /\ registered
        BY <1>4 DEF NotifyIfPending, Announcing
    <2>1. CASE Fresh
        <3>1. Emit([type |-> "tile-ready", gen |-> entry.generation])
            BY <1>4, <2>0, <2>1 DEF NotifyIfPending
        <3> QED BY <3>1, NewsKept DEF Backed
    <2>2. CASE ~Fresh
        <3>1. registered' /\ task'
            BY <1>4, <2>0, <2>2 DEF NotifyIfPending, Announcing
        <3> QED BY <3>1 DEF Backed, Announcing
    <2> QED BY <2>1, <2>2
<1>5. CASE EmitReady
    BY <1>5, NewsKept DEF EmitReady, Backed
<1> QED BY <1>1, <1>2, <1>3, <1>4, <1>5 DEF Backend

LEMMA RestBackend ==
    ASSUME RestInv, Backend
    PROVE  RestInv'
<1>0. TypeOK /\ TypeOK'
    BY TypeStep DEF RestInv, Next
<1>1. /\ UNCHANGED <<content_gen, document_gen, handler, fetches, canvas>>
      /\ Current' => Current
      /\ InFlight' = InFlight
    BY <1>0, NewsBackend, InFlightAfter
<1>2. UNCHANGED <<tileRev, bitmap, tileGen, tileSource, pending>>
    BY <1>1 DEF canvas, tracked
<1>3. JobCurrent'
    <2>1. CASE TakeTask
        BY <1>1, <2>1 DEF TakeTask, JobCurrent
    <2>2. CASE Publish \/ Look \/ NotifyIfPending \/ EmitReady
        <3>1. CASE Publish
            <4>1. worker'.at = "look"
                BY <1>0, <3>1 DEF Publish, TypeOK
            <4> QED BY <4>1 DEF JobCurrent
        <3>2. CASE Look \/ NotifyIfPending \/ EmitReady
            <4>1. \/ worker' = WorkerIdle
                  \/ worker' = [WorkerIdle EXCEPT !.at = "notify"]
                  \/ worker' = [WorkerIdle EXCEPT !.at = "emit", !.generation = entry.generation]
                BY <3>2 DEF Look, NotifyIfPending, EmitReady
            <4>2. worker'.at # "computing"
                <5>1. CASE worker' = WorkerIdle
                    BY <5>1 DEF WorkerIdle
                <5>2. CASE worker' = [WorkerIdle EXCEPT !.at = "notify"]
                    BY <5>2 DEF WorkerIdle
                <5>3. CASE worker' = [WorkerIdle EXCEPT !.at = "emit", !.generation = entry.generation]
                    BY <5>3 DEF WorkerIdle
                <5> QED BY <4>1, <5>1, <5>2, <5>3
            <4> QED BY <4>2 DEF JobCurrent
        <3> QED BY <2>2, <3>1, <3>2
    <2> QED BY <2>1, <2>2 DEF Backend
<1>4. Backed => Backed'
    <2>1. CASE Announcing
        BY <1>0, <2>1, StillAnnounced DEF RestInv
    <2>2. CASE \E i \in 1..Len(events) : events[i].type = "tile-ready"
        BY <1>0, <2>2, NewsBackend DEF Backed
    <2>3. CASE tileGen # None \/ pending # None
        BY <1>2, <2>3 DEF Backed
    <2> QED BY <2>1, <2>2, <2>3 DEF Backed
<1>5. Settling => Settling'
    <2>1. FinalBodies => FinalBodies'
        BY <1>1, <1>2 DEF FinalBodies
    <2>2. ShownFinal => ShownFinal'
        BY <1>1, <1>2 DEF ShownFinal, ShowsLive
    <2>3. RetriesBacked => RetriesBacked'
        BY <1>1, <1>2, <1>4 DEF RetriesBacked
    <2>4. AskedFor => AskedFor'
        BY <1>1, <1>2, <1>4 DEF AskedFor, FetchOutstanding
    <2> QED BY <2>1, <2>2, <2>3, <2>4 DEF Settling
<1>6. IsABag(fetches') /\ Drawn'
    BY <1>1, <1>2 DEF RestInv, Drawn
<1> QED BY <1>0, <1>1, <1>3, <1>5, <1>6 DEF RestInv

\* An edit: its event is still to come.
LEMMA RestEdit ==
    ASSUME RestInv, Edit
    PROVE  RestInv'
<1>0. TypeOK /\ TypeOK'
    BY TypeStep DEF RestInv, Next
<1>1. UNCHANGED <<worker, fetches, tileGen, tileSource>> /\ content_gen' = content_gen + 1
    BY DEF Edit, canvas, tracked
<1>2. ~Current'
    <2>p. PICK kind \in EditKinds : Emit([type |-> kind, gen |-> content_gen + 1])
        BY DEF Edit
    <2>1. kind # "tile-ready"
        BY DeliveryAssumption DEF DeliveryAssumption
    <2> QED BY <1>0, <2>p, <2>1, ChangeSeen
<1>3. JobCurrent'
    <2>1. worker.generation \in 0..content_gen /\ content_gen \in Nat
        BY <1>0, GensTyped DEF TypeOK
    <2>2. worker'.generation # content_gen'
        BY <1>1, <2>1
    <2> QED BY <2>2 DEF JobCurrent
<1> QED BY <1>0, <1>1, <1>2, <1>3 DEF RestInv, Drawn

\* One of the handler's steps puts g in the place of f.
HandlerMoves(f, g) ==
    /\ f \in InFlight /\ g.rev = f.rev
    /\ FreshBody(g) => g = f \/ g.answer.gen = content_gen
    /\ SilentlyRetried(g) => SilentlyRetried(f) \/ (registered' /\ task')
    /\ InFlight' \subseteq InFlight \cup {g}
    /\ InFlight \ {f} \subseteq InFlight' /\ g \in InFlight'

LEMMA ServedAs ==
    ASSUME TypeOK, NEW f \in FetchType, NEW quality \in {"fresh", "stale", "upsample"},
           NEW gen \in 1..content_gen
    PROVE  /\ Served(f, quality, gen) \in FetchType
           /\ Served(f, quality, gen).rev = f.rev /\ Served(f, quality, gen).tries = f.tries
           /\ Served(f, quality, gen).answer.gen = gen
           /\ Served(f, quality, gen).answer.status = 200
           /\ FreshBody(Served(f, quality, gen)) => quality = "fresh"
           /\ SilentlyRetried(Served(f, quality, gen)) => SilentlyRetried(f)
<1> DEFINE a == [status |-> 200, quality |-> quality, gen |-> gen]
           g == Served(f, quality, gen)
<1>1. g.rev = f.rev /\ g.tries = f.tries
    BY DEF Served, FetchType
<1>2. g \in FetchType /\ g.answer = a
    BY ServedTyped
<1>3. a.status = 200 /\ a.quality = quality /\ a.gen = gen
    OBVIOUS
<1> HIDE DEF a, g
<1>4. FreshBody(g) => quality = "fresh"
    BY <1>2, <1>3 DEF FreshBody
<1>5. SilentlyRetried(g) => SilentlyRetried(f)
    BY <1>1, <1>2, <1>3 DEF SilentlyRetried
<1> QED BY <1>1, <1>2, <1>3, <1>4, <1>5 DEF g

LEMMA InFlightIs ==
    /\ handler = None => InFlight = BagToSet(fetches)
    /\ handler' = None => InFlight' = (BagToSet(fetches))'
    /\ \A at, g : handler' = [at |-> at, fetch |-> g] /\ handler' # None
                    => InFlight' = (BagToSet(fetches))' \cup {g}
<1>1. InFlight' = (BagToSet(fetches))' \cup (IF handler' = None THEN {} ELSE {handler'.fetch})
    BY DEF InFlight
<1>2. handler = None => InFlight = BagToSet(fetches)
    BY DEF InFlight
<1>3. handler' = None => InFlight' = (BagToSet(fetches))'
    BY <1>1
<1>4. ASSUME NEW at, NEW g, handler' = [at |-> at, fetch |-> g], handler' # None
      PROVE  InFlight' = (BagToSet(fetches))' \cup {g}
    <2>1. handler'.fetch = g
        BY <1>4
    <2> QED BY <1>1, <1>4, <2>1
<1> QED BY <1>2, <1>3, <1>4

\* A request that leaves the bag for the handler.
LEMMA HandlerTakes ==
    ASSUME TypeOK, IsABag(fetches), handler = None, NEW f \in BagToSet(fetches), NEW g \in FetchType,
           fetches' = Without(f), handler' = [at |-> "enqueue", fetch |-> g]
    PROVE  /\ InFlight' \subseteq InFlight \cup {g}
           /\ InFlight \ {f} \subseteq InFlight' /\ g \in InFlight'
<1>1. handler' # None
    BY RequestIsSomething
<1>2. InFlight' = (BagToSet(fetches))' \cup {g} /\ InFlight = BagToSet(fetches)
    BY <1>1, InFlightIs
<1> QED BY <1>2, MembersAfter, MembersStay

LEMMA ResolveMoves ==
    ASSUME TypeOK, IsABag(fetches), NEW f \in BagToSet(fetches), Resolve(f)
    PROVE  \E g : HandlerMoves(f, g)
<1>0. f \in FetchType /\ f \in InFlight /\ handler = None
    BY FetchTyped DEF InFlight, Resolve
<1>g. /\ entry # None => entry.generation \in 1..content_gen
      /\ document_gen \in 1..content_gen /\ content_gen \in Nat
    BY GensTyped DEF TypeOK
<1>1. CASE Fresh /\ fetches' = And(Without(f), Served(f, "fresh", entry.generation))
                 /\ UNCHANGED handler
    <2> DEFINE g == Served(f, "fresh", entry.generation)
    <2>1. /\ g.rev = f.rev /\ g.answer.gen = entry.generation
          /\ SilentlyRetried(g) => SilentlyRetried(f)
        BY <1>0, <1>1, <1>g, ServedAs DEF Fresh
    <2>2. g.answer.gen = content_gen
        BY <2>1, <1>1, <1>g DEF Fresh
    <2>3. /\ InFlight' \subseteq InFlight \cup {g}
          /\ InFlight \ {f} \subseteq InFlight' /\ g \in InFlight'
        <3>1. InFlight = BagToSet(fetches) /\ InFlight' = (BagToSet(fetches))'
            BY <1>0, <1>1, InFlightIs
        <3> QED BY <3>1, <1>1, MembersAfter, MembersStay
    <2> HIDE DEF g
    <2> QED BY <1>0, <2>1, <2>2, <2>3 DEF HandlerMoves
<1>2. CASE entry # None /\ fetches' = Without(f)
           /\ handler' = [at |-> "enqueue", fetch |-> Served(f, "stale", entry.generation)]
    <2> DEFINE g == Served(f, "stale", entry.generation)
    <2>1. /\ g \in FetchType /\ g.rev = f.rev /\ ~FreshBody(g)
          /\ SilentlyRetried(g) => SilentlyRetried(f)
        BY <1>0, <1>2, <1>g, ServedAs
    <2> HIDE DEF g
    <2> QED BY <1>0, <1>2, <2>1, HandlerTakes DEF HandlerMoves, g
<1>3. CASE fetches' = Without(f)
           /\ handler' = [at |-> "enqueue", fetch |-> Served(f, "upsample", document_gen)]
    <2> DEFINE g == Served(f, "upsample", document_gen)
    <2>1. /\ g \in FetchType /\ g.rev = f.rev /\ ~FreshBody(g)
          /\ SilentlyRetried(g) => SilentlyRetried(f)
        <3>1. "upsample" \in {"fresh", "stale", "upsample"} /\ "upsample" # "fresh"
            OBVIOUS
        <3> QED BY <1>0, <1>g, <3>1, ServedAs
    <2> HIDE DEF g
    <2> QED BY <1>0, <1>3, <2>1, HandlerTakes DEF HandlerMoves, g
<1>4. CASE fetches' = Without(f) /\ handler' = [at |-> "enqueue", fetch |-> f]
    BY <1>0, <1>4, HandlerTakes DEF HandlerMoves
<1> QED BY <1>1, <1>2, <1>3, <1>4 DEF Resolve

\* A request that the handler answers: it is back in the bag.
LEMMA HandlerGives ==
    ASSUME TypeOK, IsABag(fetches), handler # None, handler' = None,
           NEW g, fetches' = And(fetches, g)
    PROVE  /\ InFlight' \subseteq InFlight \cup {g}
           /\ InFlight \ {handler.fetch} \subseteq InFlight' /\ g \in InFlight'
<1>1. InFlight' = (BagToSet(fetches))' /\ InFlight = BagToSet(fetches) \cup {handler.fetch}
    BY InFlightIs DEF InFlight
<1> QED BY <1>1, MembersAfter, MembersStay

LEMMA EnqueueMoves ==
    ASSUME TypeOK, IsABag(fetches), Enqueue
    PROVE  HandlerMoves(handler.fetch, handler.fetch)
<1>0. /\ handler # None /\ handler.fetch \in FetchType /\ handler.fetch \in InFlight
      /\ handler = [at |-> "enqueue", fetch |-> handler.fetch]
    BY DEF Enqueue, TypeOK, InFlight
<1>1. CASE fetches' = And(fetches, handler.fetch) /\ handler' = None
    BY <1>0, <1>1, HandlerGives DEF HandlerMoves
<1>2. CASE handler' = [handler EXCEPT !.at = "classify"] /\ UNCHANGED fetches
    <2>1. handler' = [at |-> "classify", fetch |-> handler.fetch]
        BY <1>0, <1>2
    <2>2. handler' # None
        BY <1>0, <2>1, RequestIsSomething
    <2>3. InFlight' = (BagToSet(fetches))' \cup {handler.fetch}
        BY <2>1, <2>2, InFlightIs
    <2>4. InFlight' = InFlight
        BY <2>3, <1>0, <1>2, MembersAfter DEF InFlight
    <2> QED BY <1>0, <2>4 DEF HandlerMoves
<1> QED BY <1>1, <1>2 DEF Enqueue

LEMMA RegisterMoves ==
    ASSUME TypeOK, IsABag(fetches), Register
    PROVE  \E g : HandlerMoves(handler.fetch, g)
<1>0. /\ handler # None /\ handler' = None /\ registered' /\ task' = task /\ task \in BOOLEAN
      /\ handler.fetch \in FetchType /\ handler.fetch \in InFlight
    BY DEF Register, TypeOK, InFlight
<1>r. PICK reason \in PendingReason :
        fetches' = And(fetches, [handler.fetch EXCEPT !.answer = [status |-> 202, reason |-> reason]])
    BY DEF Register
<1> DEFINE g == [handler.fetch EXCEPT !.answer = [status |-> 202, reason |-> reason]]
<1>1. g.rev = handler.fetch.rev /\ g.tries = handler.fetch.tries
    BY <1>0 DEF FetchType
<1>2. g.answer = [status |-> 202, reason |-> reason]
    BY <1>0 DEF FetchType
<1>3. reason = "queued" => task
    BY DEF PendingReason
<1>m. /\ InFlight' \subseteq InFlight \cup {g}
      /\ InFlight \ {handler.fetch} \subseteq InFlight' /\ g \in InFlight'
    BY <1>0, <1>r, HandlerGives
<1> HIDE DEF g
<1>4. ~FreshBody(g)
    BY <1>2 DEF FreshBody
<1>5. SilentlyRetried(g) => SilentlyRetried(handler.fetch) \/ (registered' /\ task')
    <2>1. g.answer.reason = reason
        BY <1>2
    <2> QED BY <1>0, <1>1, <1>3, <2>1 DEF SilentlyRetried
<1> QED BY <1>0, <1>1, <1>4, <1>5, <1>m DEF HandlerMoves

LEMMA RestHandler ==
    ASSUME RestInv, Handler
    PROVE  RestInv'
<1>0. TypeOK /\ TypeOK' /\ IsABag(fetches)
    BY TypeStep DEF RestInv, Next
<1>1. UNCHANGED <<content_gen, document_gen, entry, worker, events,
                  tileRev, bitmap, tileGen, tileSource, pending>>
    BY <1>0, HandlerStep DEF canvas, tracked
<1>2. (task => task') /\ (registered => registered')
    BY DEF Handler, Enqueue, Register, Resolve, backend
<1>3. Backed => Backed'
    BY <1>1, <1>2 DEF Backed, Announcing, Fresh
<1>p. PICK f, g : HandlerMoves(f, g)
    <2>1. CASE Enqueue
        BY <1>0, <2>1, EnqueueMoves
    <2>2. CASE Register
        BY <1>0, <2>2, RegisterMoves
    <2>3. CASE \E h \in BagToSet(fetches) : Resolve(h)
        BY <1>0, <2>3, ResolveMoves
    <2> QED BY <2>1, <2>2, <2>3 DEF Handler
<1>4. IsABag(fetches')
    BY <1>0, MembersStay DEF Handler, Enqueue, Register, Resolve
<1>5. Settling => Settling'
    <2> SUFFICES ASSUME Settling PROVE Settling'
        OBVIOUS
    <2>1. FinalBodies'
        BY <1>1, <1>p DEF HandlerMoves, Settling, FinalBodies
    <2>2. ShownFinal'
        BY <1>1 DEF Settling, ShownFinal, ShowsLive
    <2>3. RetriesBacked'
        <3> SUFFICES ASSUME NEW h \in InFlight', h.rev = tileRev, SilentlyRetried(h)
                     PROVE  Backed'
            BY <1>1 DEF RetriesBacked
        <3>1. CASE h \in InFlight
            BY <1>3, <3>1 DEF Settling, RetriesBacked
        <3>2. CASE h = g /\ SilentlyRetried(f)
            BY <1>3, <1>p, <3>2 DEF Settling, RetriesBacked, HandlerMoves
        <3>3. CASE registered' /\ task'
            BY <3>3 DEF Backed, Announcing
        <3> QED BY <1>p, <3>1, <3>2, <3>3 DEF HandlerMoves
    <2>4. AskedFor'
        <3>1. FetchOutstanding => FetchOutstanding'
            BY <1>1, <1>p DEF HandlerMoves, FetchOutstanding
        <3> QED BY <1>1, <1>3, <3>1 DEF Settling, AskedFor
    <2> QED BY <2>1, <2>2, <2>3, <2>4 DEF Settling
<1> QED BY <1>0, <1>1, <1>4, <1>5 DEF RestInv, Drawn, JobCurrent, Current

\* The canvas: a step after which it has something of the tile, tracks it, or
\* will still hear of it.
LEMMA StaysBacked ==
    ASSUME RestInv, TypeOK', UNCHANGED <<backend, handler, tileRev>>,
           IsABag(fetches'), CanvasAdds, Current' => Current, Backed',
           \/ UNCHANGED <<bitmap, tileGen, tileSource>>
           \/ \E f : Body(f) /\ f.rev = tileRev /\ Draw(f.answer)
    PROVE  RestInv'
<1>0. TypeOK /\ UNCHANGED <<content_gen, document_gen, worker>>
    BY DEF RestInv, backend
<1>p. PICK g : g.answer = None /\ (BagToSet(fetches))' \subseteq BagToSet(fetches) \cup {g}
    BY DEF CanvasAdds
<1>1. InFlight' \subseteq InFlight \cup {g} /\ ~FreshBody(g)
    BY <1>0, <1>p, InFlightAfter DEF FreshBody
<1>2. JobCurrent'
    BY <1>0 DEF RestInv, JobCurrent
<1>3. Drawn'
    <2>1. CASE UNCHANGED <<bitmap, tileGen, tileSource>>
        BY <2>1 DEF RestInv, Drawn
    <2>2. ASSUME NEW f, Body(f), Draw(f.answer) PROVE Drawn'
        BY <1>0, <2>2, BodyTyped DEF Draw, Drawn
    <2> QED BY <2>1, <2>2
<1>4. ASSUME Settling PROVE Settling'
    <2>1. FinalBodies'
        BY <1>0, <1>1, <1>4 DEF Settling, FinalBodies
    <2>2. ShownFinal'
        <3>1. CASE UNCHANGED <<bitmap, tileGen, tileSource>>
            BY <1>0, <1>4, <3>1 DEF Settling, ShownFinal, ShowsLive
        <3>2. ASSUME NEW f, Body(f), f.rev = tileRev, Draw(f.answer), tileSource' = "fresh"
              PROVE  ShowsLive'
            <4>1. FreshBody(f) /\ f \in InFlight
                BY <1>0, <3>2, BodyTyped DEF Body, FreshBody, Draw
            <4>2. f.answer.gen = content_gen
                BY <1>4, <3>2, <4>1 DEF Settling, FinalBodies
            <4> QED BY <1>0, <3>2, <4>1, <4>2 DEF Draw, FreshBody, ShowsLive
        <3> QED BY <3>1, <3>2 DEF ShownFinal
    <2>3. RetriesBacked' /\ AskedFor'
        BY DEF RetriesBacked, AskedFor
    <2> QED BY <2>1, <2>2, <2>3 DEF Settling
<1> QED BY <1>2, <1>3, <1>4 DEF RestInv

\* The canvas: a response of an earlier tileRev is dropped or retried.
LEMMA OldResponse ==
    ASSUME RestInv, TypeOK',
           UNCHANGED <<backend, handler, events, tileRev, bitmap, tileGen, tileSource>>,
           NEW f, f.rev # tileRev, IsABag(fetches'),
           BagToSet(fetches) \ {f} \subseteq (BagToSet(fetches))',
           \A h \in (BagToSet(fetches))' : h \in BagToSet(fetches) \/ h.rev # tileRev,
           pending = None <=> pending' = None
    PROVE  RestInv'
<1>0. TypeOK /\ UNCHANGED <<content_gen, document_gen, entry, task, registered, worker>>
    BY DEF RestInv, backend
<1>1. /\ \A h \in InFlight' : h \in InFlight \/ h.rev # tileRev
      /\ \A h \in InFlight : h.rev = tileRev => h \in InFlight'
    <2>1. InFlight' = (BagToSet(fetches))' \cup (IF handler' = None THEN {} ELSE {handler'.fetch})
        BY DEF InFlight
    <2>2. handler' = handler
        OBVIOUS
    <2> QED BY <2>1, <2>2 DEF InFlight
<1>2. JobCurrent' /\ Drawn'
    BY <1>0 DEF RestInv, JobCurrent, Drawn
<1>3. Backed <=> Backed'
    BY <1>0 DEF Backed, Announcing, Fresh
<1>4. ASSUME Settling PROVE Settling'
    <2>1. FinalBodies'
        BY <1>0, <1>1, <1>4 DEF Settling, FinalBodies
    <2>2. ShownFinal'
        BY <1>0, <1>4 DEF Settling, ShownFinal, ShowsLive
    <2>3. RetriesBacked'
        BY <1>1, <1>3, <1>4 DEF Settling, RetriesBacked
    <2>4. AskedFor'
        BY <1>1, <1>3, <1>4 DEF Settling, AskedFor, FetchOutstanding
    <2> QED BY <2>1, <2>2, <2>3, <2>4 DEF Settling
<1> QED BY <1>2, <1>4 DEF RestInv, Current

\* After tile-decoded something is drawn.
LEMMA DecodedDraws ==
    ASSUME TypeOK, IsABag(fetches), NEW f, Body(f), Decoded(f)
    PROVE  /\ IsABag(fetches') /\ tileGen' # None
           /\ UNCHANGED <<bitmap, tileGen, tileSource>> \/ Draw(f.answer)
<1>1. fetches' = And(Without(f), WakeFetch) \/ fetches' = Without(f)
    BY DEF Decoded
<1>2. Draw(f.answer) => tileGen' # None
    <2>1. f.answer.gen \in Nat
        BY BodyTyped, GensTyped
    <2> QED BY <2>1, DeliveryAssumption DEF DeliveryAssumption, Draw
<1>3. \/ UNCHANGED <<bitmap, tileGen, tileSource>> /\ tileGen # None
      \/ Draw(f.answer)
    BY DEF Decoded, shouldDiscardStaleGen
<1> QED BY <1>1, <1>2, <1>3, MembersStay

LEMMA RestResponse ==
    ASSUME RestInv, NEW f \in BagToSet(fetches), Deliver(f)
    PROVE  RestInv'
<1>c. CanvasStep
    BY DEF CanvasStep, Responses
<1>0. TypeOK /\ IsABag(fetches) /\ TypeOK' /\ UNCHANGED <<backend, handler, events>> /\ f.answer # None
    BY <1>c, TypeStep DEF RestInv, Next, CanvasStep, Deliver
<1>1. CanvasAdds /\ (Current' => Current) /\ UNCHANGED content_gen
    BY <1>0, <1>c, CanvasSteps DEF Current, backend
<1>2. CASE f.answer.status = 200 /\ f.rev = tileRev /\ Decoded(f)
    <2>1. Body(f) /\ UNCHANGED tileRev
        BY <1>0, <1>2 DEF Body, Decoded
    <2>2. /\ IsABag(fetches') /\ tileGen' # None
          /\ UNCHANGED <<bitmap, tileGen, tileSource>> \/ Draw(f.answer)
        BY <1>0, <1>2, <2>1, DecodedDraws
    <2>3. Backed'
        BY <2>2 DEF Backed
    <2> QED BY <1>0, <1>1, <1>2, <2>1, <2>2, <2>3, StaysBacked
<1>3. CASE f.rev # tileRev /\ DropDecoded(f)
    <2>1. UNCHANGED <<tileRev, bitmap, tileGen, tileSource>> /\ fetches' = Without(f)
        BY <1>3 DEF DropDecoded, tracked
    <2>2. pending = None <=> pending' = None
        <3>1. CASE pending # None
            <4>1. pending \in PendingType /\ pending' = [pending EXCEPT !.inflight = FALSE]
                BY <1>0, <1>3, <3>1, KnownRanges DEF DropDecoded
            <4>2. pending' \in PendingType
                BY <4>1 DEF PendingType
            <4> QED BY <1>0, <3>1, <4>2, EntryIsSomething
        <3>2. CASE pending = None
            BY <1>3, <3>2 DEF DropDecoded
        <3> QED BY <3>1, <3>2
    <2> QED BY <1>0, <1>3, <2>1, <2>2, MembersAfter, MembersStay, OldResponse
<1>4. CASE TilePending(f)
    <2>1. UNCHANGED <<tileRev, bitmap, tileGen, tileSource>> /\ fetches' = Without(f)
        BY <1>4 DEF TilePending, tracked
    <2>2. CASE f.rev # tileRev
        <3>1. pending' = pending
            BY <1>4, <2>2 DEF TilePending
        <3> QED BY <1>0, <2>1, <2>2, <3>1, MembersAfter, MembersStay, OldResponse
    <2>3. CASE f.rev = tileRev
        <3>1. pending' # None
            <4>1. CASE pending # None
                BY <1>4, <2>3, <4>1 DEF TilePending
            <4>2. CASE pending = None
                BY <1>0, <1>4, <2>3, <4>2, KnownRanges, TrackedTyped, EntryIsSomething DEF TilePending
            <4> QED BY <4>1, <4>2
        <3>2. Backed'
            BY <3>1 DEF Backed
        <3>3. IsABag(fetches')
            BY <1>0, <2>1, MembersStay
        <3> QED BY <1>0, <1>1, <2>1, <3>2, <3>3, StaysBacked
    <2> QED BY <2>2, <2>3
<1>5. CASE RetryQueued(f) /\ SilentlyRetried(f)
    <2> DEFINE g == [f EXCEPT !.tries = @ + 1, !.answer = None]
    <2>1. UNCHANGED <<tileRev, bitmap, tileGen, tileSource, pending>>
        BY <1>5 DEF RetryQueued, canvas, tracked
    <2>2. fetches' = And(Without(f), g) \/ fetches' = Without(f)
        BY <1>5 DEF RetryQueued
    <2>3. g.rev = f.rev /\ f \in InFlight
        BY <1>0, FetchTyped DEF FetchType, InFlight
    <2> HIDE DEF g
    <2>4. /\ IsABag(fetches')
          /\ BagToSet(fetches) \ {f} \subseteq (BagToSet(fetches))'
          /\ (BagToSet(fetches))' \subseteq BagToSet(fetches) \cup {g}
        BY <1>0, <2>2, MembersAfter, MembersStay
    <2>5. CASE f.rev # tileRev
        BY <1>0, <2>1, <2>3, <2>4, <2>5, OldResponse
    <2>6. CASE f.rev = tileRev /\ Current
        <3>1. Backed
            BY <1>5, <2>3, <2>6 DEF RestInv, Settling, RetriesBacked
        <3>2. Backed'
            BY <1>0, <2>1, <3>1 DEF Backed, Announcing, Fresh, backend
        <3> QED BY <1>0, <1>1, <2>1, <2>4, <3>2, StaysBacked
    <2>7. CASE ~Current
        BY <1>0, <1>1, <2>1, <2>4, <2>7 DEF RestInv, Drawn, JobCurrent, backend
    <2> QED BY <2>5, <2>6, <2>7
<1>6. f.answer.status = 202 /\ ~(f.tries = 0 /\ f.answer.reason # "queued") => SilentlyRetried(f)
    <2>1. f.tries \in Nat
        BY <1>0, DeliveryAssumption DEF DeliveryAssumption, TypeOK, FetchType
    <2> QED BY <1>0, <2>1 DEF SilentlyRetried
<1> QED BY <1>2, <1>3, <1>4, <1>5, <1>6 DEF Deliver

\* A change forgets the tile and asks for it anew.
LEMMA RestChanged ==
    ASSUME RestInv, Changed
    PROVE  RestInv'
<1>0. TypeOK /\ TypeOK' /\ IsABag(fetches)
    BY TypeStep DEF RestInv, Next
<1>1. /\ UNCHANGED <<content_gen, document_gen, worker, handler>>
      /\ tileRev' = tileRev + 1 /\ tileRev \in Nat
      /\ tileGen' = None /\ fetches' = And(fetches, Fetch(tileRev + 1))
    BY <1>0, GensTyped DEF Changed, backend
<1> DEFINE g == Fetch(tileRev + 1)
<1>2. /\ g.rev = tileRev + 1 /\ ~FreshBody(g) /\ ~SilentlyRetried(g)
    <2>1. g.rev = tileRev + 1 /\ g.tries = 0 /\ g.answer = None
        BY DEF Fetch
    <2> HIDE DEF g
    <2> QED BY <2>1 DEF FreshBody, SilentlyRetried
<1> HIDE DEF g
<1>3. /\ IsABag(fetches') /\ g \in InFlight' /\ InFlight' \subseteq InFlight \cup {g}
    <2>1. InFlight' = (BagToSet(fetches))' \cup (IF handler' = None THEN {} ELSE {handler'.fetch})
        BY DEF InFlight
    <2>2. /\ IsABag(fetches') /\ g \in (BagToSet(fetches))'
          /\ (BagToSet(fetches))' \subseteq BagToSet(fetches) \cup {g}
        BY <1>0, <1>1, MembersAfter, MembersStay DEF g
    <2> QED BY <1>0, <1>1, <2>1, <2>2, InFlightAfter
<1>4. \A f \in InFlight : f.rev # tileRev'
    BY <1>0, <1>1, FetchTyped DEF FetchType
<1>5. FinalBodies' /\ RetriesBacked'
    BY <1>2, <1>3, <1>4 DEF FinalBodies, RetriesBacked
<1>6. ShownFinal' /\ Drawn'
    BY <1>1 DEF ShownFinal, Drawn
<1>7. AskedFor'
    BY <1>1, <1>2, <1>3 DEF AskedFor, FetchOutstanding
<1> QED BY <1>0, <1>1, <1>3, <1>5, <1>6, <1>7 DEF RestInv, JobCurrent, Settling

LEMMA RestWake ==
    ASSUME RestInv, TileReady \/ EdProgress \/ SafetyTimer, pending' \in PendingType
    PROVE  RestInv'
<1>0. TypeOK /\ TypeOK' /\ IsABag(fetches)
    BY TypeStep DEF RestInv, Next
<1>1. CanvasAdds
    BY <1>0, CanvasSteps DEF CanvasStep
<1>2. /\ UNCHANGED <<backend, handler, tileRev, bitmap, tileGen, tileSource>>
      /\ fetches' = And(fetches, WakeFetch) \/ UNCHANGED fetches
    BY DEF TileReady, EdProgress, SafetyTimer, Wake, tracked
<1>3. Current' => Current
    <2>1. CASE TileReady
        BY <1>0, <2>1, ReadyTaken DEF TileReady
    <2>2. CASE UNCHANGED events
        BY <2>2 DEF Current
    <2> QED BY <2>1, <2>2 DEF EdProgress, SafetyTimer, Wake
<1>4. Backed'
    BY <1>0, EntryIsSomething DEF Backed
<1>5. IsABag(fetches')
    BY <1>0, <1>2, MembersStay
<1> QED BY <1>0, <1>1, <1>2, <1>3, <1>4, <1>5, StaysBacked

LEMMA RestStep == RestInv /\ [Next]_vars => RestInv'
<1> SUFFICES ASSUME RestInv, [Next]_vars PROVE RestInv'
    OBVIOUS
<1>0. TypeOK /\ TypeOK'
    BY TypeStep DEF RestInv
<1>1. CASE Edit
    BY <1>1, RestEdit
<1>2. CASE Backend
    BY <1>2, RestBackend
<1>3. CASE Handler
    BY <1>3, RestHandler
<1>4. CASE Responses
    BY <1>4, RestResponse DEF Responses
<1>5. CASE Changed
    BY <1>5, RestChanged
<1>6. CASE (TileReady \/ EdProgress \/ SafetyTimer) /\ ~Responses /\ ~Changed
    <2>1. pending' \in PendingType
        BY <1>0, <1>6, CanvasSteps DEF CanvasStep
    <2> QED BY <1>6, <2>1, RestWake
<1>7. CASE UNCHANGED vars
    <2>1. UNCHANGED <<content_gen, document_gen, entry, task, registered, worker, events,
                      tileRev, bitmap, tileGen, tileSource, pending>>
        BY <1>7 DEF vars, backend, canvas, tracked
    <2>2. InFlight' = InFlight /\ fetches' = fetches
        BY <1>0, <1>7, InFlightAfter DEF vars
    <2>3. (Backed <=> Backed') /\ (FetchOutstanding <=> FetchOutstanding')
        BY <2>1, <2>2 DEF Backed, Announcing, Fresh, FetchOutstanding
    <2>4. Settling => Settling'
        BY <2>1, <2>2, <2>3 DEF Settling, FinalBodies, ShownFinal, ShowsLive, RetriesBacked, AskedFor
    <2> QED BY <1>0, <2>1, <2>2, <2>4 DEF RestInv, Drawn, JobCurrent, Current
<1> QED BY <1>1, <1>2, <1>3, <1>4, <1>5, <1>6, <1>7 DEF Next

\* The canvas never falls silent over anything but the live document: with no
\* event, fetch or job left and the tile untracked, what is drawn is final.
THEOREM RestShown == Spec => []RestShowsLive
<1> QED BY RestInit, RestStep, RestInvImplies, PTL DEF Spec

=============================================================================
