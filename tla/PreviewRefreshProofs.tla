------------------------ MODULE PreviewRefreshProofs ------------------------
(***************************************************************************)
(* Type correctness of PreviewRefresh, that no request to clear a layer's  *)
(* dither caches is lost, and that every wave is closed: the timer stopped *)
(* and no count left on the busy counter when all has stopped, unless the  *)
(* queue's counter misled the last worker.  For any number of threads,     *)
(* edits, pulled tiles and tasks of a wave.                                *)
(***************************************************************************)
EXTENDS PreviewRefresh, FiniteSetTheorems, TLAPS

Labels == {"idle", "request", "request_queued", "stash", "run", "begin", "start_on", "start",
    "schedule", "recheck", "recheck_queued", "nothing", "end", "return_off", "return", "taken",
    "render", "rendering_on", "rendering", "computed_off", "computed", "finished",
    "finished_queued", "quiet", "clear", "drain_off", "drain", "count", "removed", "pulled"}

\* The workers between StartTask and EndTask are those that are counted.
Counted == {"computed", "render", "rendering_on", "rendering", "computed_off"}
Computing == {w \in Workers : pc[w] \in Counted}

CountOK ==
    /\ preview_pass_inflight = Cardinality(Computing)
    /\ \A c \in Commands \union Handlers : pc[c] \notin Counted

ThreadsOK ==
    /\ pc \in [Threads -> Labels]
    /\ refresh \in [Threads -> Refresh \union {NoRefresh}]
    /\ pending_preview_refresh \in Refresh \union {NoRefresh}
    /\ stale \subseteq Layers

CountersOK ==
    /\ tasks \in Nat /\ queued \in Int
    /\ wave \in [Threads -> 0..MaxWave]
    /\ full_document_busy \in 0..(BusyModulus - 1)
    /\ timer \in BOOLEAN /\ chip \in BOOLEAN /\ misled \in BOOLEAN
    /\ requests \in 0..MaxRequests
    /\ pulls \in 0..MaxPulls

\* A thread about to stash a refresh, or to clear for it, has it in hand.
HandLabels == {"request", "request_queued", "stash", "run"}
HandOK == \A t \in Threads : pc[t] \in HandLabels => refresh[t] \in Refresh

RefreshInv == ThreadsOK /\ HandOK

-----------------------------------------------------------------------------
(* Most steps of a thread only move it on: what it has in hand, the slot   *)
(* and the marks stay.                                                     *)

MovesOn(t) ==
    /\ \E to \in Labels :
        /\ pc' = [pc EXCEPT ![t] = to]
        /\ ((to \in HandLabels) <=> (pc[t] \in HandLabels))
    /\ UNCHANGED <<refresh, pending_preview_refresh, stale>>

\* The steps that do more, whichever thread takes them.
HandsOver(t) == Request(t) \/ Stash(t) \/ Invalidate(t) \/ Returned(t) \/ DrainPending(t)

LEMMA RunRefreshMoves ==
    ASSUME NEW t, RunRefresh(t), ~HandsOver(t)
    PROVE  MovesOn(t)
<1>1. CASE StartTimer(t) \/ Schedule(t) \/ Scheduled(t) \/ Count(t, "count", "schedule")
    BY <1>1 DEF StartTimer, Schedule, Scheduled, Count, Goto, MovesOn, HandLabels, Labels, requestVars
<1>2. CASE \/ BeginBusy(t, "begin", "start_on", "start") \/ Emit(t, "start_on", TRUE, "start")
           \/ FinishTimer(t, "nothing", "end")
           \/ EndBusy(t, "end", "return_off", "return") \/ Emit(t, "return_off", FALSE, "return")
    <2>2. CASE BeginBusy(t, "begin", "start_on", "start")
        BY <2>2 DEF BeginBusy, Goto, MovesOn, HandLabels, Labels, requestVars
    <2>3. CASE Emit(t, "start_on", TRUE, "start")
        BY <2>3 DEF Emit, Goto, MovesOn, HandLabels, Labels, requestVars
    <2>4. CASE FinishTimer(t, "nothing", "end")
        BY <2>4 DEF FinishTimer, Goto, MovesOn, HandLabels, Labels, requestVars
    <2>5. CASE EndBusy(t, "end", "return_off", "return")
        BY <2>5 DEF EndBusy, Goto, MovesOn, HandLabels, Labels, requestVars
    <2>6. CASE Emit(t, "return_off", FALSE, "return")
        BY <2>6 DEF Emit, Goto, MovesOn, HandLabels, Labels, requestVars
    <2> QED BY <1>2, <2>2, <2>3, <2>4, <2>5, <2>6
<1>3. CASE LookInflight(t, "recheck", "return", "recheck_queued")
    BY <1>3 DEF LookInflight, Goto, MovesOn, HandLabels, Labels, requestVars
<1>4. CASE LookQueued(t, "recheck_queued", "return", "nothing")
    BY <1>4 DEF LookQueued, Goto, MovesOn, HandLabels, Labels, requestVars
<1> QED BY <1>1, <1>2, <1>3, <1>4 DEF RunRefresh, HandsOver

LEMMA CommandMoves ==
    ASSUME NEW t, Command(t), ~HandsOver(t)
    PROVE  MovesOn(t)
<1>1. CASE LookInflight(t, "request", "stash", "request_queued")
    BY <1>1 DEF LookInflight, Goto, MovesOn, HandLabels, Labels, requestVars
<1>2. CASE LookQueued(t, "request_queued", "stash", "run")
    BY <1>2 DEF LookQueued, Goto, MovesOn, HandLabels, Labels, requestVars
<1> QED BY <1>1, <1>2 DEF Command, HandsOver

LEMMA WorkerMoves ==
    ASSUME NEW t, Worker(t), ~HandsOver(t)
    PROVE  MovesOn(t)
<1>1. CASE TakeTask(t) \/ Discount(t) \/ StartTask(t) \/ EndTask(t) \/ ClearBusy(t)
    BY <1>1 DEF TakeTask, Discount, StartTask, EndTask, ClearBusy, Goto, MovesOn, HandLabels, Labels,
                requestVars
<1>2. CASE BeginBusy(t, "render", "rendering_on", "rendering")
    BY <1>2 DEF BeginBusy, Goto, MovesOn, HandLabels, Labels, requestVars
<1>3. CASE Emit(t, "rendering_on", TRUE, "rendering")
    BY <1>3 DEF Emit, Goto, MovesOn, HandLabels, Labels, requestVars
<1>4. CASE EndBusy(t, "rendering", "computed_off", "computed")
    BY <1>4 DEF EndBusy, Goto, MovesOn, HandLabels, Labels, requestVars
<1>5. CASE Emit(t, "computed_off", FALSE, "computed")
    BY <1>5 DEF Emit, Goto, MovesOn, HandLabels, Labels, requestVars
<1>6. CASE LookInflight(t, "finished", "idle", "finished_queued")
    BY <1>6 DEF LookInflight, Goto, MovesOn, HandLabels, Labels, requestVars
<1>7. CASE LookAfterTask(t)
    BY <1>7 DEF LookAfterTask, LookQueued, Goto, MovesOn, HandLabels, Labels, requestVars
<1>8. CASE FinishTimer(t, "quiet", "clear")
    BY <1>8 DEF FinishTimer, Goto, MovesOn, HandLabels, Labels, requestVars
<1>9. CASE Emit(t, "drain_off", FALSE, "drain")
    BY <1>9 DEF Emit, Goto, MovesOn, HandLabels, Labels, requestVars
<1> QED BY <1>1, <1>2, <1>3, <1>4, <1>5, <1>6, <1>7, <1>8, <1>9
        DEF Worker, TaskFinished, HandsOver

LEMMA HandlerMoves ==
    ASSUME NEW t, Handler(t)
    PROVE  MovesOn(t)
BY DEF Handler, Pull, Count, Goto, MovesOn, HandLabels, Labels, requestVars

\* Every step, seen from what threads have in hand.
LEMMA StepKinds ==
    ASSUME [Next]_vars
    PROVE  \/ \E t \in Threads : HandsOver(t) \/ MovesOn(t)
           \/ UNCHANGED <<pc, refresh, pending_preview_refresh, stale>>
<1>1. ASSUME NEW c \in Commands, Command(c) \/ RunRefresh(c)
      PROVE  \E t \in Threads : HandsOver(t) \/ MovesOn(t)
    BY <1>1, CommandMoves, RunRefreshMoves DEF Threads
<1>2. ASSUME NEW w \in Workers, Worker(w) \/ RunRefresh(w)
      PROVE  \E t \in Threads : HandsOver(t) \/ MovesOn(t)
    BY <1>2, WorkerMoves, RunRefreshMoves DEF Threads
<1>3. ASSUME NEW h \in Handlers, Handler(h)
      PROVE  \E t \in Threads : HandsOver(t) \/ MovesOn(t)
    BY <1>3, HandlerMoves DEF Threads
<1>4. CASE UNCHANGED vars
    BY <1>4 DEF vars, requestVars
<1> QED BY <1>1, <1>2, <1>3, <1>4 DEF Next

-----------------------------------------------------------------------------
(* Requests to clear.                                                      *)

Carries(r, l) == r # NoRefresh /\ r.layer_id = l /\ r.clear_residuals

OnItsWay(l) ==
    \/ Carries(pending_preview_refresh, l)
    \/ \E t \in Threads : Carries(refresh[t], l) /\ pc[t] \in HandLabels

LEMMA NotLostMeans == ClearNotLost <=> (\A l \in stale : OnItsWay(l))
BY DEF ClearNotLost, OnItsWay, Carries, HandLabels, Labels

LEMMA NotLostMeansNext == ClearNotLost' <=> (\A l \in stale' : OnItsWay(l)')
BY DEF ClearNotLost, OnItsWay, Carries, HandLabels, Labels

LEMMA RefreshInvInit == Init => RefreshInv /\ ClearNotLost
BY DEF Init, RefreshInv, ThreadsOK, HandOK, HandLabels, Labels, ClearNotLost

LEMMA RefreshInvNext ==
    ASSUME RefreshInv, [Next]_vars
    PROVE  RefreshInv'
<1>0. ThreadsOK /\ HandOK
    BY DEF RefreshInv
<1>1. ASSUME NEW t \in Threads, MovesOn(t)
      PROVE  RefreshInv'
    BY <1>0, <1>1 DEF MovesOn, RefreshInv, ThreadsOK, HandOK
<1>2. ASSUME NEW t \in Threads, Request(t)
      PROVE  RefreshInv'
    BY <1>0, <1>2 DEF Request, Goto, RefreshInv, ThreadsOK, HandOK, Refresh, Labels
<1>3. ASSUME NEW t \in Threads, Stash(t)
      PROVE  RefreshInv'
    <2>1. refresh[t] \in Refresh
        BY <1>0, <1>3 DEF Stash, HandOK, HandLabels, Labels
    <2>2. Coalesce(refresh[t], pending_preview_refresh) \in Refresh
        BY <1>0, <2>1 DEF Coalesce, ThreadsOK, Refresh
    <2> QED BY <1>0, <1>3, <2>2 DEF Stash, Goto, RefreshInv, ThreadsOK, HandOK, HandLabels, Labels
<1>4. ASSUME NEW t \in Threads, Invalidate(t)
      PROVE  RefreshInv'
    BY <1>0, <1>4 DEF Invalidate, Goto, RefreshInv, ThreadsOK, HandOK, HandLabels, Labels
<1>5. ASSUME NEW t \in Threads, Returned(t)
      PROVE  RefreshInv'
    BY <1>0, <1>5 DEF Returned, Goto, RefreshInv, ThreadsOK, HandOK, HandLabels, Labels
<1>6. ASSUME NEW t \in Threads, DrainPending(t)
      PROVE  RefreshInv'
    BY <1>0, <1>6 DEF DrainPending, Goto, RefreshInv, ThreadsOK, HandOK, HandLabels, Labels
<1>7. CASE UNCHANGED <<pc, refresh, pending_preview_refresh, stale>>
    BY <1>0, <1>7 DEF RefreshInv, ThreadsOK, HandOK
<1> QED BY <1>1, <1>2, <1>3, <1>4, <1>5, <1>6, <1>7, StepKinds DEF HandsOver

\* One layer: a later request cannot push another layer's out of the slot.
OneLayer == \E l \in Layers : Layers = {l}

LEMMA ClearNext ==
    ASSUME OneLayer, RefreshInv, ClearNotLost, [Next]_vars
    PROVE  ClearNotLost'
<1>0. /\ ThreadsOK /\ HandOK /\ \A l \in stale : OnItsWay(l)
      /\ NoRefresh \notin Refresh /\ stale \subseteq Layers
    BY NotLostMeans, PreviewAssumption DEF RefreshInv, PreviewAssumption, Refresh, ThreadsOK
<1>l. PICK only \in Layers : Layers = {only}
    BY DEF OneLayer
<1>t. \A r \in Refresh : r.layer_id = only /\ r # NoRefresh
    BY <1>0, <1>l DEF Refresh
<1>1. ASSUME NEW t \in Threads, MovesOn(t)
      PROVE  \A l \in stale' : OnItsWay(l)'
    BY <1>0, <1>1 DEF MovesOn, ThreadsOK, OnItsWay
<1>2. ASSUME NEW t \in Threads, Request(t)
      PROVE  \A l \in stale' : OnItsWay(l)'
    <2>p. PICK r \in Refresh : /\ refresh' = [refresh EXCEPT ![t] = r]
                               /\ stale' = IF r.clear_residuals THEN stale \union {r.layer_id} ELSE stale
        BY <1>2 DEF Request
    <2>1. /\ pc[t] \notin HandLabels /\ pc' = [pc EXCEPT ![t] = "request"] /\ "request" \in HandLabels
          /\ UNCHANGED pending_preview_refresh
        BY <1>2 DEF Request, Goto, HandLabels
    <2>2. \A u \in Threads : u # t => refresh'[u] = refresh[u] /\ pc'[u] = pc[u]
        BY <1>0, <2>p, <2>1 DEF ThreadsOK
    <2>3. refresh'[t] = r /\ pc'[t] = "request"
        BY <1>0, <2>p, <2>1 DEF ThreadsOK
    <2>4. CASE r.clear_residuals
        <3>1. \A l \in stale' : l = r.layer_id
            BY <1>0, <1>l, <1>t, <2>p
        <3> QED BY <1>t, <2>1, <2>3, <2>4, <3>1 DEF OnItsWay, Carries
    <2>5. CASE ~r.clear_residuals
        BY <1>0, <2>p, <2>1, <2>2, <2>5 DEF OnItsWay
    <2> QED BY <2>4, <2>5
<1>3. ASSUME NEW t \in Threads, Stash(t)
      PROVE  \A l \in stale' : OnItsWay(l)'
    <2>0. /\ refresh[t] \in Refresh
          /\ refresh' = [refresh EXCEPT ![t] = NoRefresh] /\ pc' = [pc EXCEPT ![t] = "idle"]
          /\ pending_preview_refresh' = Coalesce(refresh[t], pending_preview_refresh)
          /\ UNCHANGED stale
        BY <1>0, <1>3 DEF Stash, Goto, HandOK, HandLabels
    <2>1. /\ Coalesce(refresh[t], pending_preview_refresh) \in Refresh
          /\ Carries(refresh[t], only) => Coalesce(refresh[t], pending_preview_refresh).clear_residuals
          /\ Carries(pending_preview_refresh, only)
                => Coalesce(refresh[t], pending_preview_refresh).clear_residuals
        BY <1>0, <2>0 DEF Coalesce, ThreadsOK, Refresh, Carries
    <2>2. \A u \in Threads : u # t => refresh'[u] = refresh[u] /\ pc'[u] = pc[u]
        BY <1>0, <2>0 DEF ThreadsOK
    <2>3. SUFFICES ASSUME NEW l \in stale PROVE OnItsWay(l)'
        BY <2>0
    <2>4. l = only /\ OnItsWay(l)
        BY <1>0, <1>l
    <2>5. CASE Carries(pending_preview_refresh, only) \/ Carries(refresh[t], only)
        BY <1>t, <2>0, <2>1, <2>4, <2>5 DEF OnItsWay, Carries
    <2>6. CASE \E u \in Threads : u # t /\ Carries(refresh[u], only) /\ pc[u] \in HandLabels
        BY <2>2, <2>4, <2>6 DEF OnItsWay
    <2> QED BY <2>4, <2>5, <2>6 DEF OnItsWay
<1>4. ASSUME NEW t \in Threads, Invalidate(t)
      PROVE  \A l \in stale' : OnItsWay(l)'
    <2>0. /\ refresh[t] \in Refresh /\ pc' = [pc EXCEPT ![t] = "begin"]
          /\ stale' = IF refresh[t].clear_residuals THEN stale \ {refresh[t].layer_id} ELSE stale
          /\ UNCHANGED <<refresh, pending_preview_refresh>>
        BY <1>0, <1>4 DEF Invalidate, Goto, HandOK, HandLabels
    <2>1. CASE refresh[t].clear_residuals
        BY <1>0, <1>l, <1>t, <2>0, <2>1
    <2>2. CASE ~refresh[t].clear_residuals
        <3>1. \A u \in Threads : u # t => pc'[u] = pc[u]
            BY <1>0, <2>0 DEF ThreadsOK
        <3> QED BY <1>0, <2>0, <2>2, <3>1 DEF OnItsWay, Carries
    <2> QED BY <2>1, <2>2
<1>5. ASSUME NEW t \in Threads, Returned(t)
      PROVE  \A l \in stale' : OnItsWay(l)'
    <2>0. /\ pc[t] \notin HandLabels /\ UNCHANGED <<pending_preview_refresh, stale>>
          /\ \A u \in Threads : u # t => refresh'[u] = refresh[u] /\ pc'[u] = pc[u]
        BY <1>0, <1>5 DEF Returned, Goto, ThreadsOK, HandLabels
    <2> QED BY <1>0, <2>0 DEF OnItsWay
<1>6. ASSUME NEW t \in Threads, DrainPending(t)
      PROVE  \A l \in stale' : OnItsWay(l)'
    <2>0. /\ pc[t] \notin HandLabels /\ UNCHANGED stale
          /\ refresh'[t] = pending_preview_refresh
          /\ pc'[t] = IF pending_preview_refresh = NoRefresh THEN "idle" ELSE "run"
          /\ \A u \in Threads : u # t => refresh'[u] = refresh[u] /\ pc'[u] = pc[u]
        BY <1>0, <1>6 DEF DrainPending, Goto, ThreadsOK, HandLabels
    <2>1. \A l : Carries(pending_preview_refresh, l) => Carries(refresh'[t], l) /\ pc'[t] \in HandLabels
        BY <2>0 DEF Carries, HandLabels
    <2> QED BY <1>0, <2>0, <2>1 DEF OnItsWay
<1>7. CASE UNCHANGED <<pc, refresh, pending_preview_refresh, stale>>
    <2>1. SUFFICES ASSUME NEW l \in stale PROVE OnItsWay(l)'
        BY <1>7, NotLostMeansNext
    <2>2. OnItsWay(l)
        BY <1>0
    <2>3. CASE Carries(pending_preview_refresh, l)
        BY <1>7, <2>3 DEF OnItsWay, Carries
    <2>4. CASE \E t \in Threads : Carries(refresh[t], l) /\ pc[t] \in HandLabels
        BY <1>7, <2>4 DEF OnItsWay, Carries
    <2> QED BY <2>2, <2>3, <2>4 DEF OnItsWay
<1> QED BY <1>1, <1>2, <1>3, <1>4, <1>5, <1>6, <1>7, StepKinds, NotLostMeansNext DEF HandsOver

\* A request to clear a layer's dither caches is never dropped between the look
\* at the counters, the stash, the coalescing and the drain, for any number of
\* command threads and workers (commands/mod.rs:528-572, 584-605, 664-697).
THEOREM ClearKept ==
    ASSUME OneLayer
    PROVE  Spec => []ClearNotLost
<1>1. RefreshInv /\ ClearNotLost /\ [Next]_vars => RefreshInv' /\ ClearNotLost'
    BY RefreshInvNext, ClearNext, OneLayer
<1> QED BY <1>1, RefreshInvInit, PTL DEF Spec

-----------------------------------------------------------------------------
(* Type correctness.  The counter of tasks in flight is the number of      *)
(* workers between StartTask and EndTask.                                  *)

\* Steps that do not count, seen from the workers that are counted.
KeepsCount ==
    /\ UNCHANGED preview_pass_inflight
    /\ \/ UNCHANGED pc
       \/ \E t \in Threads, to \in Labels :
            /\ pc' = [pc EXCEPT ![t] = to]
            /\ ((to \in Counted) <=> (pc[t] \in Counted))

LEMMA CountKept ==
    ASSUME ThreadsOK, CountOK, KeepsCount
    PROVE  CountOK'
<1>1. \A t \in Threads : ((pc'[t] \in Counted) <=> (pc[t] \in Counted))
    BY DEF KeepsCount, ThreadsOK
<1>2. Computing' = Computing /\ \A c \in Commands \union Handlers : pc'[c] \notin Counted
    BY <1>1 DEF Computing, CountOK, Threads
<1> QED BY <1>2 DEF CountOK, KeepsCount

LEMMA CountSteps ==
    ASSUME ThreadsOK, CountOK, [Next]_vars, IsFiniteSet(Workers)
    PROVE  CountOK'
<1>1. ASSUME NEW w \in Workers, StartTask(w)
      PROVE  CountOK'
    <2>p. PICK to \in {"computed", "render"} : pc' = [pc EXCEPT ![w] = to]
        BY <1>1 DEF StartTask, Goto
    <2>1. w \in Threads /\ w \notin Commands \union Handlers /\ w \notin Computing
        BY <1>1, PreviewAssumption DEF PreviewAssumption, Threads, StartTask, Computing, Counted
    <2>2. Computing' = Computing \union {w}
        BY <2>p, <2>1 DEF Computing, ThreadsOK, Threads, Counted
    <2>3. IsFiniteSet(Computing)
        BY FS_Subset DEF Computing
    <2>4. Cardinality(Computing') = Cardinality(Computing) + 1
        BY <2>1, <2>2, <2>3, FS_AddElement
    <2>5. \A c \in Commands \union Handlers : pc'[c] \notin Counted
        BY <2>p, <2>1 DEF CountOK, ThreadsOK, Threads
    <2> QED BY <1>1, <2>4, <2>5 DEF CountOK, StartTask
<1>2. ASSUME NEW w \in Workers, EndTask(w)
      PROVE  CountOK'
    <2>1. /\ w \in Threads /\ w \notin Commands \union Handlers /\ w \in Computing
          /\ pc' = [pc EXCEPT ![w] = "finished"]
        BY <1>2, PreviewAssumption DEF PreviewAssumption, Threads, EndTask, Goto, Computing, Counted
    <2>2. Computing' = Computing \ {w}
        BY <2>1 DEF Computing, ThreadsOK, Threads, Counted
    <2>3. IsFiniteSet(Computing)
        BY FS_Subset DEF Computing
    <2>4. Cardinality(Computing') = Cardinality(Computing) - 1
        BY <2>1, <2>2, <2>3, FS_RemoveElement
    <2>5. \A c \in Commands \union Handlers : pc'[c] \notin Counted
        BY <2>1 DEF CountOK, ThreadsOK, Threads
    <2> QED BY <1>2, <2>4, <2>5 DEF CountOK, EndTask
<1>3. ASSUME NEW t \in Threads, RunRefresh(t)
      PROVE  KeepsCount
    BY <1>3 DEF RunRefresh, Invalidate, BeginBusy, Emit, StartTimer, Schedule, Scheduled, Count,
                LookInflight, LookQueued, FinishTimer, EndBusy, Returned, Goto, KeepsCount, Counted, Labels
<1>4. ASSUME NEW c \in Commands, Command(c)
      PROVE  KeepsCount
    BY <1>4
       DEF Command, Request, Stash, LookInflight, LookQueued, Goto, KeepsCount, Counted, Labels, Threads
<1>5. ASSUME NEW w \in Workers, Worker(w), ~StartTask(w), ~EndTask(w)
      PROVE  KeepsCount
    <2>1. w \in Threads
        BY DEF Threads
    <2>2. CASE TaskFinished(w)
        BY <2>1, <2>2 DEF TaskFinished, LookAfterTask, LookInflight, LookQueued, FinishTimer, ClearBusy,
                Emit, DrainPending, Goto, KeepsCount, Counted, Labels
    <2>3. CASE ~TaskFinished(w)
        BY <1>5, <2>1, <2>3 DEF Worker, TakeTask, Discount, BeginBusy, Emit, EndBusy, Goto, KeepsCount,
                Counted, Labels
    <2> QED BY <2>2, <2>3
<1>6. CASE UNCHANGED vars
    <2>1. KeepsCount
        BY <1>6 DEF vars, KeepsCount
    <2> QED BY <2>1, CountKept
<1>7. ASSUME NEW c \in Commands, Command(c) \/ RunRefresh(c)
      PROVE  CountOK'
    BY <1>3, <1>4, <1>7, CountKept DEF Threads
<1>8. ASSUME NEW w \in Workers, Worker(w) \/ RunRefresh(w)
      PROVE  CountOK'
    BY <1>1, <1>2, <1>3, <1>5, <1>8, CountKept DEF Threads
<1>9. ASSUME NEW h \in Handlers, Handler(h)
      PROVE  CountOK'
    <2>1. KeepsCount
        BY <1>9 DEF Handler, Pull, Count, Goto, KeepsCount, Counted, Labels, Threads
    <2> QED BY <2>1, CountKept
<1> QED BY <1>6, <1>7, <1>8, <1>9 DEF Next

\* The counters, the flags and the bounds keep their ranges.
LEMMA BusyRange ==
    ASSUME full_document_busy \in 0..(BusyModulus - 1)
    PROVE  /\ (full_document_busy + 1) % BusyModulus \in 0..(BusyModulus - 1)
           /\ (full_document_busy - 1) % BusyModulus \in 0..(BusyModulus - 1)
           /\ 0 \in 0..(BusyModulus - 1)
<1>1. BusyModulus \in Nat /\ BusyModulus > 0
    BY PreviewAssumption DEF PreviewAssumption
<1>2. \A n \in Int : n % BusyModulus \in 0..(BusyModulus - 1)
    BY <1>1
<1> QED BY <1>1, <1>2

\* The counters after a step of a refresh that any thread can take.
LEMMA RunRefreshCounters ==
    ASSUME NEW t \in Threads, RunRefresh(t), CountersOK
    PROVE  CountersOK'
<1> USE DEF queueVars, busyVars, requestVars
<1>0. MaxWave \in Nat
    BY PreviewAssumption DEF PreviewAssumption
<1>1. CASE Invalidate(t) \/ StartTimer(t) \/ Returned(t)
    BY <1>1 DEF Invalidate, StartTimer, Returned, CountersOK
<1>2. CASE \/ BeginBusy(t, "begin", "start_on", "start")
           \/ EndBusy(t, "end", "return_off", "return")
    BY <1>2, BusyRange DEF BeginBusy, EndBusy, CountersOK
<1>3. CASE \/ Emit(t, "start_on", TRUE, "start") \/ Emit(t, "return_off", FALSE, "return")
           \/ FinishTimer(t, "nothing", "end")
    BY <1>3 DEF Emit, FinishTimer, CountersOK
<1>4. CASE \/ LookInflight(t, "recheck", "return", "recheck_queued")
           \/ LookQueued(t, "recheck_queued", "return", "nothing") /\ UNCHANGED misled
    BY <1>4 DEF LookInflight, LookQueued, CountersOK
<1>5. CASE Schedule(t)
    <2>1. wave[t] \in 0..MaxWave /\ wave[t] + 1 \in 0..MaxWave /\ tasks + 1 \in Nat
        BY <1>0, <1>5 DEF Schedule, CountersOK
    <2> QED BY <1>5, <2>1 DEF Schedule, CountersOK
<1>6. CASE Scheduled(t) \/ Count(t, "count", "schedule")
    BY <1>0, <1>6 DEF Scheduled, Count, CountersOK
<1> QED BY <1>1, <1>2, <1>3, <1>4, <1>5, <1>6 DEF RunRefresh

LEMMA CommandCounters ==
    ASSUME NEW c, Command(c), CountersOK
    PROVE  CountersOK'
<1> USE DEF queueVars, busyVars, requestVars
<1>1. CASE Request(c)
    BY <1>1, PreviewAssumption DEF Request, CountersOK, PreviewAssumption
<1>2. CASE \/ LookInflight(c, "request", "stash", "request_queued")
           \/ LookQueued(c, "request_queued", "stash", "run") /\ UNCHANGED misled
           \/ Stash(c)
    BY <1>2 DEF LookInflight, LookQueued, Stash, CountersOK
<1> QED BY <1>1, <1>2 DEF Command

LEMMA WorkerCounters ==
    ASSUME NEW w, Worker(w), CountersOK
    PROVE  CountersOK'
<1> USE DEF queueVars, busyVars, requestVars
<1>1. CASE TakeTask(w) \/ Discount(w) \/ StartTask(w) \/ EndTask(w) \/ DrainPending(w)
    BY <1>1 DEF TakeTask, Discount, StartTask, EndTask, DrainPending, CountersOK
<1>2. CASE \/ ClearBusy(w) \/ BeginBusy(w, "render", "rendering_on", "rendering")
           \/ EndBusy(w, "rendering", "computed_off", "computed")
    BY <1>2, BusyRange DEF ClearBusy, BeginBusy, EndBusy, CountersOK
<1>3. CASE \/ Emit(w, "rendering_on", TRUE, "rendering") \/ Emit(w, "computed_off", FALSE, "computed")
           \/ Emit(w, "drain_off", FALSE, "drain") \/ FinishTimer(w, "quiet", "clear")
    BY <1>3 DEF Emit, FinishTimer, CountersOK
<1>4. CASE LookInflight(w, "finished", "idle", "finished_queued") \/ LookAfterTask(w)
    <2>1. (queued < 0) \in BOOLEAN
        OBVIOUS
    <2> QED BY <1>4, <2>1 DEF LookInflight, LookAfterTask, LookQueued, CountersOK
<1> QED BY <1>1, <1>2, <1>3, <1>4 DEF Worker, TaskFinished

LEMMA HandlerCounters ==
    ASSUME NEW h, Handler(h), CountersOK
    PROVE  CountersOK'
<1> USE DEF queueVars, busyVars, requestVars
<1>1. CASE Pull(h)
    BY <1>1, PreviewAssumption DEF Pull, CountersOK, PreviewAssumption
<1>2. CASE Count(h, "pulled", "idle")
    BY <1>2 DEF Count, CountersOK
<1> QED BY <1>1, <1>2 DEF Handler

LEMMA CountersSteps ==
    ASSUME CountersOK, [Next]_vars
    PROVE  CountersOK'
<1>1. CASE UNCHANGED vars
    BY <1>1 DEF vars, CountersOK, queueVars, busyVars, requestVars
<1> QED BY <1>1, RunRefreshCounters, CommandCounters, WorkerCounters, HandlerCounters DEF Next, Threads

LEMMA CountInit == Init => CountOK
<1>1. ASSUME Init
      PROVE  CountOK
    <2>1. Computing = {} /\ \A c \in Commands \union Handlers : pc[c] \notin Counted
        BY <1>1 DEF Init, Computing, Counted, Threads
    <2>2. Cardinality({}) = 0
        BY FS_EmptySet
    <2> QED BY <1>1, <2>1, <2>2 DEF Init, CountOK
<1> QED BY <1>1

LEMMA CountersInit == Init => CountersOK
<1>1. 0 \in 0..(BusyModulus - 1) /\ 0 \in 0..MaxRequests /\ 0 \in 0..MaxPulls /\ 0 \in 0..MaxWave
    BY PreviewAssumption DEF PreviewAssumption
<1>2. ASSUME Init
      PROVE  CountersOK
    <2>1. wave \in [Threads -> 0..MaxWave]
        BY <1>1, <1>2 DEF Init
    <2>2. tasks \in Nat /\ queued \in Int
        BY <1>2 DEF Init
    <2>3. misled = FALSE /\ timer = FALSE /\ chip = FALSE
        BY <1>2 DEF Init
    <2> QED BY <1>1, <1>2, <2>1, <2>2, <2>3 DEF Init, CountersOK
<1> QED BY <1>2

\* The counter of tasks in flight never leaves the number of workers and
\* everything else keeps its type, for any finite pool, any number of command
\* threads and any width of the busy counter (commands/mod.rs:528-697).
THEOREM TypeCorrect ==
    ASSUME IsFiniteSet(Workers)
    PROVE  Spec => []TypeOK
<1> DEFINE Inv == RefreshInv /\ CountOK /\ CountersOK
<1>1. Init => Inv
    BY CountInit, CountersInit, RefreshInvInit
<1>2. Inv /\ [Next]_vars => Inv'
    <2>1. ASSUME Inv, [Next]_vars
          PROVE  Inv'
        <3>1. RefreshInv' /\ CountersOK'
            BY <2>1, RefreshInvNext, CountersSteps
        <3>2. CountOK'
            BY <2>1, CountSteps DEF RefreshInv
        <3> QED BY <3>1, <3>2
    <2> QED BY <2>1
<1>3. Inv => TypeOK
    <2>1. ASSUME Inv
          PROVE  TypeOK
        <3>1. /\ IsFiniteSet(Computing) /\ Cardinality(Computing) <= Cardinality(Workers)
              /\ Cardinality(Workers) \in Nat /\ Cardinality(Computing) \in Nat
            <4>1. Computing \subseteq Workers
                BY DEF Computing
            <4>2. IsFiniteSet(Computing) /\ Cardinality(Computing) <= Cardinality(Workers)
                BY <4>1, FS_Subset
            <4> QED BY <4>2, FS_CardinalityType
        <3>2. preview_pass_inflight \in 0..Cardinality(Workers)
            BY <2>1, <3>1 DEF CountOK
        <3> QED BY <2>1, <3>2 DEF TypeOK, RefreshInv, ThreadsOK, CountersOK
    <2> QED BY <2>1
<1> QED BY <1>1, <1>2, <1>3, PTL DEF Spec

-----------------------------------------------------------------------------
(* The busy counter.  A refresh that gives its tasks away returns without  *)
(* EndBusy: its count leaks, and ClearBusy forgets it.  ClearBusy also     *)
(* forgets the counts of the threads that still hold one; their EndBusy    *)
(* then takes the counter below zero.                                      *)

\* Arithmetic of a counter that wraps.
LEMMA ModParts ==
    ASSUME NEW m \in Nat \ {0}, NEW n \in Int
    PROVE  \E q \in Int : n = m * q + (n % m)
<1>1. n \div m \in Int
    OBVIOUS
<1>2. n = m * (n \div m) + (n % m)
    OBVIOUS
<1> QED BY <1>1, <1>2

LEMMA ModOf ==
    ASSUME NEW m \in Nat \ {0}, NEW q \in Int, NEW r \in 0..(m - 1)
    PROVE  (m * q + r) % m = r
OBVIOUS

LEMMA ModSmall ==
    ASSUME NEW m \in Nat \ {0}, NEW n \in 0..(m - 1)
    PROVE  n % m = n
OBVIOUS

LEMMA ModBelowZero ==
    ASSUME NEW m \in Nat \ {0}, NEW n \in Nat, 0 < n, n < m
    PROVE  (-n) % m = m - n
OBVIOUS

LEMMA ModSucc ==
    ASSUME NEW m \in Nat \ {0}, NEW n \in Int
    PROVE  ((n % m) + 1) % m = (n + 1) % m
<1>1. PICK q \in Int : n = m * q + (n % m)
    BY ModParts
<1> DEFINE r == n % m
<1>2. r \in 0..(m - 1) /\ n = m * q + r
    BY <1>1
<1> HIDE DEF r
<1>3. CASE r + 1 < m
    <2>1. r + 1 \in 0..(m - 1) /\ n + 1 = m * q + (r + 1)
        BY <1>2, <1>3
    <2>2. (r + 1) % m = r + 1 /\ (m * q + (r + 1)) % m = r + 1
        BY <2>1, ModSmall, ModOf
    <2> QED BY <2>1, <2>2 DEF r
<1>4. CASE r + 1 = m
    <2>1. r + 1 = m * 1 + 0 /\ n + 1 = m * (q + 1) + 0 /\ q + 1 \in Int /\ 0 \in 0..(m - 1)
        BY <1>2, <1>4
    <2>2. (m * 1 + 0) % m = 0 /\ (m * (q + 1) + 0) % m = 0
        BY <2>1, ModOf
    <2> QED BY <2>1, <2>2 DEF r
<1> QED BY <1>2, <1>3, <1>4

LEMMA ModPred ==
    ASSUME NEW m \in Nat \ {0}, NEW n \in Int
    PROVE  ((n % m) - 1) % m = (n - 1) % m
<1>1. PICK q \in Int : n = m * q + (n % m)
    BY ModParts
<1> DEFINE r == n % m
<1>2. r \in 0..(m - 1) /\ n = m * q + r
    BY <1>1
<1> HIDE DEF r
<1>3. CASE r > 0
    <2>1. r - 1 \in 0..(m - 1) /\ n - 1 = m * q + (r - 1)
        BY <1>2, <1>3
    <2>2. (r - 1) % m = r - 1 /\ (m * q + (r - 1)) % m = r - 1
        BY <2>1, ModSmall, ModOf
    <2> QED BY <2>1, <2>2 DEF r
<1>4. CASE r = 0
    <2>1. /\ r - 1 = m * (-1) + (m - 1) /\ -1 \in Int
          /\ n - 1 = m * (q - 1) + (m - 1) /\ q - 1 \in Int /\ m - 1 \in 0..(m - 1)
        BY <1>2, <1>4
    <2>2. (m * (-1) + (m - 1)) % m = m - 1 /\ (m * (q - 1) + (m - 1)) % m = m - 1
        BY <2>1, ModOf
    <2> QED BY <2>1, <2>2 DEF r
<1> QED BY <1>2, <1>3, <1>4

\* Work is left, or a thread is at one of these labels.
UnderWay(labels) == tasks > 0 \/ misled \/ \E t \in Threads : pc[t] \in labels

\* Workers that will still look at the queue, having ended a task.
LookLabels == Counted \union {"removed", "taken", "finished", "finished_queued"}

\* Whoever stops the timer, or clears the leaked counts, is still to come.
WaveLabels == LookLabels \union {"quiet"}
TimerLabels == WaveLabels \union {"schedule", "count", "recheck", "recheck_queued", "nothing"}
LeakLabels == WaveLabels \union {"clear"}

TimerOK == timer => UnderWay(TimerLabels)

\* A counter below zero has a worker behind it that will look, or has misled
\* the last one that did.
DriftOK == queued < 0 => UnderWay(LookLabels)

\* The threads between BeginBusy and the end of their busy section.
HoldLabels == {"start_on", "start", "schedule", "count", "recheck", "recheck_queued", "nothing", "end",
    "rendering_on", "rendering"}
Holding == {t \in Threads : pc[t] \in HoldLabels}

\* Since the last ClearBusy: forgotten are the holders it forgot, ended how
\* many of them have ended, leaked how many counts no thread holds.
Ledger(forgotten, ended, leaked) ==
    /\ ended + Cardinality(forgotten) <= Cardinality(Threads)
    /\ full_document_busy = (Cardinality(Holding \ forgotten) + leaked - ended) % BusyModulus
    /\ leaked > 0 => UnderWay(LeakLabels)

BusyOK == \E forgotten \in SUBSET Holding, ended \in Nat, leaked \in Nat :
            Ledger(forgotten, ended, leaked)

LEMMA Inflight ==
    ASSUME CountOK, preview_pass_inflight > 0
    PROVE  \E w \in Workers : pc[w] \in Counted
<1>1. Computing # {}
    <2>1. Cardinality({}) = 0
        BY FS_EmptySet
    <2> QED BY <2>1 DEF CountOK
<1> QED BY <1>1 DEF Computing

\* The queue's counter, its producers and its consumers between their steps.
AddLabels == {"count", "pulled"}
Adding == {t \in Threads : pc[t] \in AddLabels}
Removing == {t \in Threads : pc[t] = "removed"}
QueueOK == queued = tasks + Cardinality(Removing) - Cardinality(Adding)

\* One thread moves: what it does to the tasks, to the counter and to the two sets.
QueueStep(t) ==
    \E to \in Labels :
        /\ pc' = [pc EXCEPT ![t] = to]
        /\ \/ /\ UNCHANGED <<tasks, queued>>
              /\ ((to \in AddLabels) <=> (pc[t] \in AddLabels))
              /\ ((to = "removed") <=> (pc[t] = "removed"))
           \/ /\ tasks' = tasks + 1 /\ UNCHANGED queued
              /\ pc[t] \notin AddLabels \union {"removed"} /\ to \in AddLabels
           \/ /\ UNCHANGED tasks /\ queued' = queued + 1
              /\ pc[t] \in AddLabels /\ to \notin AddLabels \union {"removed"}
           \/ /\ tasks' = tasks - 1 /\ UNCHANGED queued
              /\ pc[t] \notin AddLabels \union {"removed"} /\ to = "removed"
           \/ /\ UNCHANGED tasks /\ queued' = queued - 1
              /\ pc[t] = "removed" /\ to \notin AddLabels \union {"removed"}

LEMMA QueueStepKeeps ==
    ASSUME IsFiniteSet(Threads), ThreadsOK, CountersOK, QueueOK, NEW t \in Threads, QueueStep(t)
    PROVE  QueueOK'
<1>1. PICK to \in Labels : /\ pc' = [pc EXCEPT ![t] = to]
                           /\ QueueStep(t)!(to)!2
    BY DEF QueueStep
<1>2. pc'[t] = to /\ \A u \in Threads : u # t => pc'[u] = pc[u]
    BY <1>1 DEF ThreadsOK
<1>3. /\ IsFiniteSet(Adding) /\ Cardinality(Adding) \in Nat
      /\ IsFiniteSet(Removing) /\ Cardinality(Removing) \in Nat
    BY FS_Subset, FS_CardinalityType DEF Adding, Removing
<1>4. CASE /\ UNCHANGED <<tasks, queued>>
           /\ ((to \in AddLabels) <=> (pc[t] \in AddLabels))
           /\ ((to = "removed") <=> (pc[t] = "removed"))
    <2>1. Adding' = Adding /\ Removing' = Removing
        BY <1>2, <1>4 DEF Adding, Removing
    <2> QED BY <1>4, <2>1 DEF QueueOK
<1>5. CASE /\ tasks' = tasks + 1 /\ UNCHANGED queued
           /\ pc[t] \notin AddLabels \union {"removed"} /\ to \in AddLabels
    <2>1. Adding' = Adding \union {t} /\ t \notin Adding /\ Removing' = Removing
        BY <1>2, <1>5 DEF Adding, Removing, AddLabels
    <2>2. Cardinality(Adding') = Cardinality(Adding) + 1
        BY <1>3, <2>1, FS_AddElement
    <2> QED BY <1>3, <1>5, <2>1, <2>2 DEF QueueOK, CountersOK
<1>6. CASE /\ UNCHANGED tasks /\ queued' = queued + 1
           /\ pc[t] \in AddLabels /\ to \notin AddLabels \union {"removed"}
    <2>1. Adding' = Adding \ {t} /\ t \in Adding /\ Removing' = Removing
        BY <1>2, <1>6 DEF Adding, Removing, AddLabels
    <2>2. Cardinality(Adding') = Cardinality(Adding) - 1
        BY <1>3, <2>1, FS_RemoveElement
    <2> QED BY <1>3, <1>6, <2>1, <2>2 DEF QueueOK, CountersOK
<1>7. CASE /\ tasks' = tasks - 1 /\ UNCHANGED queued
           /\ pc[t] \notin AddLabels \union {"removed"} /\ to = "removed"
    <2>1. Removing' = Removing \union {t} /\ t \notin Removing /\ Adding' = Adding
        BY <1>2, <1>7 DEF Adding, Removing, AddLabels
    <2>2. Cardinality(Removing') = Cardinality(Removing) + 1
        BY <1>3, <2>1, FS_AddElement
    <2> QED BY <1>3, <1>7, <2>1, <2>2 DEF QueueOK, CountersOK
<1>8. CASE /\ UNCHANGED tasks /\ queued' = queued - 1
           /\ pc[t] = "removed" /\ to \notin AddLabels \union {"removed"}
    <2>1. Removing' = Removing \ {t} /\ t \in Removing /\ Adding' = Adding
        BY <1>2, <1>8 DEF Adding, Removing, AddLabels
    <2>2. Cardinality(Removing') = Cardinality(Removing) - 1
        BY <1>3, <2>1, FS_RemoveElement
    <2> QED BY <1>3, <1>8, <2>1, <2>2 DEF QueueOK, CountersOK
<1> QED BY <1>1, <1>4, <1>5, <1>6, <1>7, <1>8

LEMMA QueueStepInit == Init => QueueOK
<1>1. ASSUME Init
      PROVE  QueueOK
    <2>1. Adding = {} /\ Removing = {} /\ tasks = 0 /\ queued = 0
        BY <1>1 DEF Init, Adding, Removing, AddLabels
    <2>2. Cardinality({}) = 0
        BY FS_EmptySet
    <2> QED BY <2>1, <2>2 DEF QueueOK
<1> QED BY <1>1

LEMMA RunQueueSteps ==
    ASSUME NEW t \in Threads, RunRefresh(t)
    PROVE  QueueStep(t)
<1> USE DEF Goto, Labels, AddLabels, queueVars, QueueStep
<1>1. CASE Invalidate(t) \/ StartTimer(t) \/ Scheduled(t) \/ Returned(t)
    BY <1>1 DEF Invalidate, StartTimer, Scheduled, Returned
<1>2. CASE Schedule(t)
    BY <1>2 DEF Schedule
<1>3. CASE Count(t, "count", "schedule")
    BY <1>3 DEF Count
<1>4. CASE \/ BeginBusy(t, "begin", "start_on", "start") \/ EndBusy(t, "end", "return_off", "return")
    BY <1>4 DEF BeginBusy, EndBusy
<1>5. CASE \/ Emit(t, "start_on", TRUE, "start") \/ Emit(t, "return_off", FALSE, "return")
           \/ FinishTimer(t, "nothing", "end")
    BY <1>5 DEF Emit, FinishTimer
<1>6. CASE \/ LookInflight(t, "recheck", "return", "recheck_queued")
           \/ LookQueued(t, "recheck_queued", "return", "nothing")
    BY <1>6 DEF LookInflight, LookQueued
<1> QED BY <1>1, <1>2, <1>3, <1>4, <1>5, <1>6 DEF RunRefresh

LEMMA WorkerQueueSteps ==
    ASSUME NEW t \in Threads, Worker(t)
    PROVE  QueueStep(t)
<1> USE DEF Goto, Labels, AddLabels, queueVars, QueueStep
<1>1. CASE TakeTask(t)
    BY <1>1 DEF TakeTask
<1>2. CASE Discount(t)
    BY <1>2 DEF Discount
<1>3. CASE StartTask(t) \/ EndTask(t) \/ ClearBusy(t) \/ DrainPending(t)
    BY <1>3 DEF StartTask, EndTask, ClearBusy, DrainPending
<1>4. CASE \/ BeginBusy(t, "render", "rendering_on", "rendering")
           \/ EndBusy(t, "rendering", "computed_off", "computed")
    BY <1>4 DEF BeginBusy, EndBusy
<1>5. CASE \/ Emit(t, "rendering_on", TRUE, "rendering") \/ Emit(t, "computed_off", FALSE, "computed")
           \/ Emit(t, "drain_off", FALSE, "drain") \/ FinishTimer(t, "quiet", "clear")
    BY <1>5 DEF Emit, FinishTimer
<1>6. CASE LookInflight(t, "finished", "idle", "finished_queued") \/ LookAfterTask(t)
    BY <1>6 DEF LookInflight, LookAfterTask, LookQueued
<1> QED BY <1>1, <1>2, <1>3, <1>4, <1>5, <1>6 DEF Worker, TaskFinished

LEMMA QueueNext ==
    ASSUME IsFiniteSet(Threads), ThreadsOK, CountersOK, QueueOK, [Next]_vars
    PROVE  QueueOK'
<1> USE DEF Goto, Labels, AddLabels, queueVars
<1>1. ASSUME NEW c \in Commands, Command(c)
      PROVE  QueueStep(c)
    BY <1>1 DEF Command, Request, LookInflight, LookQueued, Stash, QueueStep
<1>2. ASSUME NEW h \in Handlers, Handler(h)
      PROVE  QueueStep(h)
    <2>1. CASE Pull(h)
        BY <2>1 DEF Pull, QueueStep
    <2>2. CASE Count(h, "pulled", "idle")
        BY <2>2 DEF Count, QueueStep
    <2> QED BY <1>2, <2>1, <2>2 DEF Handler
<1>3. CASE UNCHANGED vars
    <2>1. UNCHANGED <<pc, tasks, queued>>
        BY <1>3 DEF vars
    <2> QED BY <2>1 DEF QueueOK, Adding, Removing
<1>4. ASSUME NEW t \in Threads, QueueStep(t)
      PROVE  QueueOK'
    BY <1>4, QueueStepKeeps
<1>5. ASSUME NEW c \in Commands, Command(c) \/ RunRefresh(c)
      PROVE  QueueOK'
    BY <1>1, <1>4, <1>5, RunQueueSteps DEF Threads
<1>6. ASSUME NEW w \in Workers, Worker(w) \/ RunRefresh(w)
      PROVE  QueueOK'
    BY <1>4, <1>6, RunQueueSteps, WorkerQueueSteps DEF Threads
<1> QED BY <1>2, <1>3, <1>4, <1>5, <1>6 DEF Next, Threads

LEMMA QueueAhead ==
    ASSUME IsFiniteSet(Threads), CountersOK, QueueOK, queued > 0
    PROVE  tasks > 0 \/ \E t \in Threads : pc[t] = "removed"
<1>1. Cardinality(Adding) \in Nat
    BY FS_Subset, FS_CardinalityType DEF Adding
<1>2. ASSUME tasks = 0, Removing = {}
      PROVE  FALSE
    <2>1. Cardinality(Removing) = 0
        BY <1>2, FS_EmptySet
    <2> QED BY <1>1, <1>2, <2>1 DEF QueueOK, CountersOK
<1> QED BY <1>2 DEF CountersOK, Removing


\* A step that takes no task, forgets no misled look and keeps its place
\* among the labels.
Stays(t, to, labels) ==
    /\ tasks' >= tasks
    /\ misled => misled'
    /\ pc[t] \in labels => to \in labels

LEMMA UnderWayKept ==
    ASSUME NEW labels, ThreadsOK, CountersOK, CountersOK', UnderWay(labels),
           NEW t \in Threads, NEW to, pc' = [pc EXCEPT ![t] = to],
           to \in labels \/ Stays(t, to, labels)
    PROVE  UnderWay(labels)'
<1>1. pc'[t] = to /\ \A u \in Threads : u # t => pc'[u] = pc[u]
    BY DEF ThreadsOK
<1>2. CASE to \in labels
    BY <1>1, <1>2 DEF UnderWay
<1>3. CASE Stays(t, to, labels)
    <2>1. CASE tasks > 0
        BY <1>3, <2>1 DEF UnderWay, CountersOK, Stays
    <2>2. CASE misled
        BY <1>3, <2>2 DEF UnderWay, Stays
    <2>3. CASE \E u \in Threads : pc[u] \in labels
        BY <1>1, <1>3, <2>3 DEF UnderWay, Stays
    <2> QED BY <2>1, <2>2, <2>3 DEF UnderWay
<1> QED BY <1>2, <1>3

LEMMA UnderWayGrows ==
    ASSUME NEW small, NEW large, small \subseteq large, UnderWay(small)
    PROVE  UnderWay(large)
BY DEF UnderWay

\* A thread that finds work, or a counter that says so, leaves the rest to it.
SeesWork(t) ==
    /\ UNCHANGED <<tasks, queued, timer, full_document_busy>>
    /\ pc[t] \notin Counted \union {"removed"}
    /\ \/ preview_pass_inflight > 0 /\ UNCHANGED misled
       \/ queued # 0 /\ UNCHANGED misled /\ pc[t] \notin LookLabels
       \/ queued # 0 /\ misled' = (queued < 0)
    /\ \E to \in Labels \ HoldLabels : pc' = [pc EXCEPT ![t] = to]

LEMMA WorkSeen ==
    ASSUME IsFiniteSet(Threads), ThreadsOK, CountOK, CountersOK, QueueOK, DriftOK,
           NEW t \in Threads, SeesWork(t)
    PROVE  UnderWay(LookLabels)'
<1>0. PICK to \in Labels : pc' = [pc EXCEPT ![t] = to]
    BY DEF SeesWork
<1>1. \A u \in Threads : u # t => pc'[u] = pc[u]
    BY <1>0 DEF ThreadsOK
<1>2. CASE preview_pass_inflight > 0
    <2>1. PICK w \in Workers : pc[w] \in Counted
        BY <1>2, Inflight
    <2>2. w \in Threads /\ w # t
        BY <2>1 DEF Threads, SeesWork
    <2> QED BY <1>1, <2>1, <2>2 DEF UnderWay, LookLabels
<1>3. CASE queued > 0
    <2>1. tasks > 0 \/ \E u \in Threads : pc[u] = "removed"
        BY <1>3, QueueAhead
    <2>2. CASE tasks > 0
        BY <2>2 DEF UnderWay, SeesWork
    <2>3. CASE \E u \in Threads : pc[u] = "removed"
        <3>1. PICK u \in Threads : pc[u] = "removed"
            BY <2>3
        <3>2. u # t
            BY <3>1 DEF SeesWork
        <3> QED BY <1>1, <3>1, <3>2 DEF UnderWay, LookLabels
    <2> QED BY <2>1, <2>2, <2>3
<1>4. CASE queued < 0
    <2>1. CASE misled' = (queued < 0)
        BY <1>4, <2>1 DEF UnderWay
    <2>2. CASE UNCHANGED misled /\ pc[t] \notin LookLabels
        <3>1. UnderWay(LookLabels)
            BY <1>4 DEF DriftOK
        <3>2. UNCHANGED tasks
            BY DEF SeesWork
        <3> QED BY <1>1, <2>2, <3>1, <3>2 DEF UnderWay
    <2> QED BY <1>2, <2>1, <2>2 DEF SeesWork
<1> QED BY <1>2, <1>3, <1>4 DEF SeesWork, CountersOK

\* A step after which what was under way still is.
Follows(t, to) ==
    /\ pc' = [pc EXCEPT ![t] = to]
    /\ timer' = timer
    /\ \/ to \in LookLabels
       \/ /\ Stays(t, to, TimerLabels) /\ Stays(t, to, LeakLabels) /\ Stays(t, to, LookLabels)
          /\ queued' >= queued

LEMMA FollowsKeeps ==
    ASSUME ThreadsOK, CountersOK, CountersOK', NEW t \in Threads, NEW to, Follows(t, to)
    PROVE  /\ TimerOK => TimerOK'
           /\ UnderWay(LeakLabels) => UnderWay(LeakLabels)'
           /\ DriftOK => DriftOK'
<1>1. ASSUME UnderWay(TimerLabels)
      PROVE  UnderWay(TimerLabels)'
    BY <1>1, UnderWayKept DEF Follows, TimerLabels, WaveLabels
<1>2. ASSUME UnderWay(LeakLabels)
      PROVE  UnderWay(LeakLabels)'
    BY <1>2, UnderWayKept DEF Follows, LeakLabels, WaveLabels
<1>3. ASSUME DriftOK, queued' < 0
      PROVE  UnderWay(LookLabels)'
    <2>1. CASE to \in LookLabels
        BY <2>1 DEF Follows, ThreadsOK, UnderWay
    <2>2. CASE ~(to \in LookLabels)
        <3>1. Stays(t, to, LookLabels) /\ queued < 0
            BY <1>3, <2>2 DEF Follows, CountersOK
        <3> QED BY <1>3, <3>1, UnderWayKept DEF DriftOK, Follows
    <2> QED BY <2>1, <2>2
<1> QED BY <1>1, <1>2, <1>3 DEF TimerOK, DriftOK, Follows

\* The four steps of the ledger, and none.
LEMMA LedgerSame ==
    ASSUME BusyOK, UNCHANGED full_document_busy, Holding' = Holding,
           UnderWay(LeakLabels) => UnderWay(LeakLabels)'
    PROVE  BusyOK'
<1>1. PICK forgotten \in SUBSET Holding, ended \in Nat, leaked \in Nat :
            Ledger(forgotten, ended, leaked)
    BY DEF BusyOK
<1>2. Ledger(forgotten, ended, leaked)'
    BY <1>1 DEF Ledger
<1> QED BY <1>1, <1>2 DEF BusyOK

LEMMA Finite ==
    ASSUME IsFiniteSet(Threads), NEW S, S \subseteq Threads
    PROVE  IsFiniteSet(S) /\ Cardinality(S) \in Nat /\ Cardinality(S) <= Cardinality(Threads)
           /\ Cardinality(Threads) \in Nat
BY FS_Subset, FS_CardinalityType

LEMMA LedgerBegin ==
    ASSUME BusyOK, IsFiniteSet(Threads), NEW t \in Threads, t \notin Holding,
           Holding' = Holding \union {t},
           full_document_busy' = (full_document_busy + 1) % BusyModulus,
           UnderWay(LeakLabels) => UnderWay(LeakLabels)'
    PROVE  BusyOK'
<1>1. PICK forgotten \in SUBSET Holding, ended \in Nat, leaked \in Nat :
            Ledger(forgotten, ended, leaked)
    BY DEF BusyOK
<1>2. Holding' \ forgotten = (Holding \ forgotten) \union {t} /\ t \notin Holding \ forgotten
    BY <1>1
<1>3. IsFiniteSet(Holding \ forgotten) /\ Cardinality(Holding \ forgotten) \in Nat
    BY Finite DEF Holding
<1>4. Cardinality(Holding' \ forgotten) = Cardinality(Holding \ forgotten) + 1
    BY <1>2, <1>3, FS_AddElement
<1>5. full_document_busy' = (Cardinality(Holding' \ forgotten) + leaked - ended) % BusyModulus
    <2>1. BusyModulus \in Nat \ {0}
        BY PreviewAssumption DEF PreviewAssumption
    <2> DEFINE n == Cardinality(Holding \ forgotten) + leaked - ended
    <2>2. n \in Int /\ full_document_busy = n % BusyModulus
          /\ Cardinality(Holding' \ forgotten) + leaked - ended = n + 1
        BY <1>1, <1>3, <1>4 DEF Ledger
    <2> HIDE DEF n
    <2>3. ((n % BusyModulus) + 1) % BusyModulus = (n + 1) % BusyModulus
        BY <2>1, <2>2, ModSucc
    <2> QED BY <2>2, <2>3
<1>6. Ledger(forgotten, ended, leaked)'
    BY <1>1, <1>5 DEF Ledger
<1> QED BY <1>1, <1>6 DEF BusyOK

LEMMA LedgerEnd ==
    ASSUME BusyOK, IsFiniteSet(Threads), NEW t \in Threads, t \in Holding,
           Holding' = Holding \ {t},
           full_document_busy' = (full_document_busy - 1) % BusyModulus,
           UnderWay(LeakLabels) => UnderWay(LeakLabels)'
    PROVE  BusyOK'
<1>1. PICK forgotten \in SUBSET Holding, ended \in Nat, leaked \in Nat :
            Ledger(forgotten, ended, leaked)
    BY DEF BusyOK
<1>0. BusyModulus \in Nat \ {0}
    BY PreviewAssumption DEF PreviewAssumption
<1>2. /\ IsFiniteSet(Holding \ forgotten) /\ Cardinality(Holding \ forgotten) \in Nat
      /\ IsFiniteSet(forgotten) /\ Cardinality(forgotten) \in Nat
    BY <1>1, Finite DEF Holding
<1> DEFINE n == Cardinality(Holding \ forgotten) + leaked - ended
<1>3. n \in Int /\ full_document_busy = n % BusyModulus
    BY <1>1, <1>2 DEF Ledger
<1>4. full_document_busy' = (n - 1) % BusyModulus
    <2> HIDE DEF n
    <2> QED BY <1>0, <1>3, ModPred
<1>5. CASE t \in forgotten
    <2>1. Holding' \ (forgotten \ {t}) = Holding \ forgotten /\ forgotten \ {t} \subseteq Holding'
        BY <1>1, <1>5
    <2>2. Cardinality(forgotten \ {t}) = Cardinality(forgotten) - 1
        BY <1>2, <1>5, FS_RemoveElement
    <2>3. n - 1 = Cardinality(Holding' \ (forgotten \ {t})) + leaked - (ended + 1)
        <3>1. Cardinality(Holding' \ (forgotten \ {t})) = Cardinality(Holding \ forgotten)
            BY <2>1
        <3> QED BY <1>2, <3>1
    <2>4. ended + 1 + Cardinality(forgotten \ {t}) <= Cardinality(Threads)
        BY <1>1, <1>2, <2>2 DEF Ledger
    <2>5. Ledger(forgotten \ {t}, ended + 1, leaked)'
        BY <1>1, <1>4, <2>3, <2>4 DEF Ledger
    <2> QED BY <2>1, <2>5 DEF BusyOK
<1>6. CASE t \notin forgotten
    <2>1. /\ Holding' \ forgotten = (Holding \ forgotten) \ {t} /\ forgotten \subseteq Holding'
          /\ t \in Holding \ forgotten
        BY <1>1, <1>6
    <2>2. Cardinality(Holding' \ forgotten) = Cardinality(Holding \ forgotten) - 1
        <3>1. Cardinality((Holding \ forgotten) \ {t}) = Cardinality(Holding \ forgotten) - 1
            BY <1>2, <2>1, FS_RemoveElement
        <3> QED BY <2>1, <3>1
    <2>3. n - 1 = Cardinality(Holding' \ forgotten) + leaked - ended
        BY <1>2, <2>2
    <2>4. Ledger(forgotten, ended, leaked)'
        BY <1>1, <1>4, <2>3 DEF Ledger
    <2> QED BY <2>1, <2>4 DEF BusyOK
<1> QED BY <1>5, <1>6

\* A refresh returns and leaves its count to the tasks it saw.
LEMMA LedgerLeak ==
    ASSUME BusyOK, IsFiniteSet(Threads), NEW t \in Threads, t \in Holding,
           Holding' = Holding \ {t}, UNCHANGED full_document_busy, UnderWay(LeakLabels)'
    PROVE  BusyOK'
<1>1. PICK forgotten \in SUBSET Holding, ended \in Nat, leaked \in Nat :
            Ledger(forgotten, ended, leaked)
    BY DEF BusyOK
<1>2. /\ IsFiniteSet(Holding \ forgotten) /\ Cardinality(Holding \ forgotten) \in Nat
      /\ IsFiniteSet(forgotten) /\ Cardinality(forgotten) \in Nat
      /\ Cardinality(Threads) \in Nat
    BY <1>1, Finite DEF Holding
<1>5. CASE t \in forgotten
    <2>1. Holding' \ (forgotten \ {t}) = Holding \ forgotten /\ forgotten \ {t} \subseteq Holding'
        BY <1>1, <1>5
    <2>2. Cardinality(forgotten \ {t}) = Cardinality(forgotten) - 1
        BY <1>2, <1>5, FS_RemoveElement
    <2>3. ended + Cardinality(forgotten \ {t}) <= Cardinality(Threads)
        BY <1>1, <1>2, <2>2 DEF Ledger
    <2>4. Ledger(forgotten \ {t}, ended, leaked)'
        BY <1>1, <2>1, <2>3 DEF Ledger
    <2> QED BY <2>1, <2>4 DEF BusyOK
<1>6. CASE t \notin forgotten
    <2>1. /\ Holding' \ forgotten = (Holding \ forgotten) \ {t} /\ forgotten \subseteq Holding'
          /\ t \in Holding \ forgotten
        BY <1>1, <1>6
    <2>2. Cardinality(Holding' \ forgotten) = Cardinality(Holding \ forgotten) - 1
        <3>1. Cardinality((Holding \ forgotten) \ {t}) = Cardinality(Holding \ forgotten) - 1
            BY <1>2, <2>1, FS_RemoveElement
        <3> QED BY <2>1, <3>1
    <2>3. Cardinality(Holding' \ forgotten) + (leaked + 1) - ended
            = Cardinality(Holding \ forgotten) + leaked - ended
        BY <1>2, <2>2
    <2>4. Ledger(forgotten, ended, leaked + 1)'
        BY <1>1, <2>3 DEF Ledger
    <2> QED BY <2>1, <2>4 DEF BusyOK
<1> QED BY <1>5, <1>6

LEMMA LedgerClear ==
    ASSUME IsFiniteSet(Threads), full_document_busy' = 0, Holding' = Holding
    PROVE  BusyOK'
<1>1. BusyModulus \in Nat \ {0}
    BY PreviewAssumption DEF PreviewAssumption
<1>2. Cardinality(Holding) \in Nat /\ Cardinality(Holding) <= Cardinality(Threads)
    BY Finite DEF Holding
<1>3. Cardinality({}) = 0 /\ Holding' \ Holding = {}
    BY FS_EmptySet
<1>4. 0 % BusyModulus = 0
    BY <1>1, ModSmall
<1>5. PICK S : S = Holding
    OBVIOUS
<1>6. Ledger(S, 0, 0)'
    <2>1. Cardinality(Holding' \ S) + 0 - 0 = 0 /\ 0 + Cardinality(S) <= Cardinality(Threads)
        BY <1>2, <1>3, <1>5
    <2> QED BY <1>4, <2>1 DEF Ledger
<1> QED BY <1>5, <1>6 DEF BusyOK

\* What a step of one thread does to the set of holders.
LEMMA HoldingSteps ==
    ASSUME ThreadsOK, NEW t \in Threads, NEW to, pc' = [pc EXCEPT ![t] = to]
    PROVE  /\ (to \in HoldLabels <=> pc[t] \in HoldLabels) => Holding' = Holding
           /\ to \in HoldLabels => Holding' = Holding \union {t}
           /\ to \notin HoldLabels => Holding' = Holding \ {t}
           /\ t \in Holding <=> pc[t] \in HoldLabels
<1>1. pc'[t] = to /\ \A u \in Threads : u # t => pc'[u] = pc[u]
    BY DEF ThreadsOK
<1> QED BY <1>1 DEF Holding

-----------------------------------------------------------------------------
(* The steps, seen from the timer and the counter.                         *)

WaveInv == TimerOK /\ BusyOK /\ DriftOK

Plain(t) ==
    /\ UNCHANGED full_document_busy
    /\ \E to \in Labels : Follows(t, to) /\ ((to \in HoldLabels) <=> (pc[t] \in HoldLabels))

Begins(t) ==
    /\ full_document_busy' = (full_document_busy + 1) % BusyModulus
    /\ pc[t] \notin HoldLabels
    /\ \E to \in HoldLabels : Follows(t, to)

Ends(t) ==
    /\ full_document_busy' = (full_document_busy - 1) % BusyModulus
    /\ pc[t] \in HoldLabels
    /\ \E to \in Labels \ HoldLabels : Follows(t, to)

StopsTimer(t) ==
    /\ UNCHANGED <<tasks, queued, misled, full_document_busy>>
    /\ timer' = FALSE
    /\ \/ pc[t] = "nothing" /\ pc' = [pc EXCEPT ![t] = "end"]
       \/ pc[t] = "quiet" /\ pc' = [pc EXCEPT ![t] = "clear"]

Clears(t) ==
    /\ UNCHANGED <<tasks, queued, misled, timer>>
    /\ full_document_busy' = 0
    /\ pc[t] = "clear"
    /\ \E to \in {"drain", "drain_off"} : pc' = [pc EXCEPT ![t] = to]

\* The look that ends a wave: from now on nobody is misled.
SeesNone(t) ==
    /\ UNCHANGED <<tasks, queued, timer, full_document_busy>>
    /\ misled' = (queued < 0)
    /\ pc[t] = "finished_queued" /\ pc' = [pc EXCEPT ![t] = "quiet"]

WaveStep(t) ==
    \/ SeesNone(t)
    \/ Plain(t) \/ Begins(t) \/ Ends(t) \/ SeesWork(t) \/ StopsTimer(t) \/ StartTimer(t) \/ Clears(t)

LEMMA WaveStepKeeps ==
    ASSUME IsFiniteSet(Threads), ThreadsOK, CountOK, CountersOK, CountersOK', QueueOK, WaveInv,
           NEW t \in Threads, WaveStep(t)
    PROVE  WaveInv'
<1>0. TimerOK /\ BusyOK /\ DriftOK
    BY DEF WaveInv
<1>1. CASE Plain(t)
    <2>1. PICK to \in Labels : Follows(t, to) /\ ((to \in HoldLabels) <=> (pc[t] \in HoldLabels))
        BY <1>1 DEF Plain
    <2>2. Holding' = Holding
        BY <2>1, HoldingSteps DEF Follows
    <2> QED BY <1>0, <1>1, <2>1, <2>2, FollowsKeeps, LedgerSame DEF WaveInv, Plain
<1>2. CASE Begins(t)
    <2>1. PICK to \in HoldLabels : Follows(t, to)
        BY <1>2 DEF Begins
    <2>2. Holding' = Holding \union {t} /\ t \notin Holding
        BY <1>2, <2>1, HoldingSteps DEF Follows, Begins
    <2> QED BY <1>0, <1>2, <2>1, <2>2, FollowsKeeps, LedgerBegin DEF WaveInv, Begins
<1>3. CASE Ends(t)
    <2>1. PICK to \in Labels \ HoldLabels : Follows(t, to)
        BY <1>3 DEF Ends
    <2>2. Holding' = Holding \ {t} /\ t \in Holding
        BY <1>3, <2>1, HoldingSteps DEF Follows, Ends
    <2> QED BY <1>0, <1>3, <2>1, <2>2, FollowsKeeps, LedgerEnd DEF WaveInv, Ends
<1>4. CASE SeesWork(t)
    <2>1. PICK to \in Labels \ HoldLabels : pc' = [pc EXCEPT ![t] = to]
        BY <1>4 DEF SeesWork
    <2>2. LookLabels \subseteq TimerLabels /\ LookLabels \subseteq LeakLabels
        BY DEF TimerLabels, LeakLabels, WaveLabels
    <2>3. UnderWay(TimerLabels)' /\ UnderWay(LeakLabels)' /\ UnderWay(LookLabels)'
        BY <1>0, <1>4, <2>2, WorkSeen DEF UnderWay
    <2>d. TimerOK' /\ DriftOK'
        BY <2>3 DEF TimerOK, DriftOK
    <2>4. CASE pc[t] \in HoldLabels
        <3>1. Holding' = Holding \ {t} /\ t \in Holding
            BY <2>1, <2>4, HoldingSteps
        <3> QED BY <1>0, <1>4, <2>3, <2>d, <3>1, LedgerLeak DEF WaveInv, SeesWork
    <2>5. CASE pc[t] \notin HoldLabels
        <3>1. Holding' = Holding
            BY <2>1, <2>5, HoldingSteps
        <3> QED BY <1>0, <1>4, <2>3, <2>d, <3>1, LedgerSame DEF WaveInv, SeesWork
    <2> QED BY <2>4, <2>5
<1>5. CASE StopsTimer(t)
    <2>1. TimerOK'
        BY <1>5 DEF StopsTimer, TimerOK
    <2>2. PICK to \in {"end", "clear"} :
            /\ pc' = [pc EXCEPT ![t] = to]
            /\ pc[t] = IF to = "end" THEN "nothing" ELSE "quiet"
        BY <1>5 DEF StopsTimer
    <2>3. Holding' = Holding
        BY <2>2, HoldingSteps DEF HoldLabels
    <2>4. UNCHANGED <<tasks, queued, misled>> /\ tasks' >= tasks
        BY <1>5 DEF StopsTimer, CountersOK
    <2>5. Stays(t, to, LeakLabels) /\ Stays(t, to, LookLabels)
        BY <2>2, <2>4 DEF Stays, LeakLabels, WaveLabels, LookLabels, Counted
    <2>6. UnderWay(LeakLabels) => UnderWay(LeakLabels)'
        BY <2>2, <2>5, UnderWayKept
    <2>7. DriftOK'
        BY <1>0, <2>2, <2>4, <2>5, UnderWayKept DEF DriftOK
    <2> QED BY <1>0, <1>5, <2>1, <2>3, <2>6, <2>7, LedgerSame DEF WaveInv, StopsTimer
<1>6. CASE StartTimer(t)
    <2>1. pc' = [pc EXCEPT ![t] = "schedule"] /\ pc[t] = "start"
          /\ UNCHANGED <<tasks, queued, misled, full_document_busy>>
        BY <1>6 DEF StartTimer, Goto, queueVars, busyVars
    <2>2. "schedule" \in TimerLabels /\ pc'[t] = "schedule"
        BY <2>1 DEF TimerLabels, ThreadsOK
    <2>3. TimerOK'
        BY <2>2 DEF TimerOK, UnderWay
    <2>4. Holding' = Holding
        BY <2>1, HoldingSteps DEF HoldLabels
    <2>5. Stays(t, "schedule", LeakLabels) /\ Stays(t, "schedule", LookLabels)
        BY <2>1 DEF CountersOK, Stays, LeakLabels, WaveLabels, LookLabels, Counted
    <2>6. UnderWay(LeakLabels) => UnderWay(LeakLabels)'
        BY <2>1, <2>5, UnderWayKept
    <2>7. DriftOK'
        BY <1>0, <2>1, <2>5, UnderWayKept DEF DriftOK
    <2> QED BY <1>0, <2>1, <2>3, <2>4, <2>6, <2>7, LedgerSame DEF WaveInv
<1>7. CASE Clears(t)
    <2>1. PICK to \in {"drain", "drain_off"} : pc' = [pc EXCEPT ![t] = to]
        BY <1>7 DEF Clears
    <2>2. Holding' = Holding
        BY <1>7, <2>1, HoldingSteps DEF Clears, HoldLabels
    <2>3. Stays(t, to, TimerLabels) /\ Stays(t, to, LookLabels)
        BY <1>7 DEF Clears, CountersOK, Stays, TimerLabels, WaveLabels, LookLabels, Counted
    <2>4. UnderWay(TimerLabels) => UnderWay(TimerLabels)'
        BY <2>1, <2>3, UnderWayKept
    <2>5. TimerOK'
        BY <1>0, <1>7, <2>4 DEF TimerOK, Clears
    <2>6. DriftOK'
        BY <1>0, <1>7, <2>1, <2>3, UnderWayKept DEF DriftOK, Clears
    <2> QED BY <1>7, <2>2, <2>5, <2>6, LedgerClear DEF WaveInv, Clears
<1>8. CASE SeesNone(t)
    <2>1. pc'[t] = "quiet" /\ Holding' = Holding
        BY <1>8, HoldingSteps DEF SeesNone, HoldLabels, ThreadsOK
    <2>2. UnderWay(TimerLabels)' /\ UnderWay(LeakLabels)'
        BY <2>1 DEF UnderWay, TimerLabels, LeakLabels, WaveLabels
    <2>3. TimerOK' /\ DriftOK'
        BY <1>8, <2>2 DEF TimerOK, DriftOK, SeesNone, UnderWay
    <2> QED BY <1>0, <1>8, <2>1, <2>2, <2>3, LedgerSame DEF WaveInv, SeesNone
<1> QED BY <1>8, <1>1, <1>2, <1>3, <1>4, <1>5, <1>6, <1>7 DEF WaveStep

LEMMA QueueLen ==
    ASSUME queued_len > 0
    PROVE  queued # 0
<1>1. 0 % QueueModulus = 0
    BY ModSmall, PreviewAssumption DEF PreviewAssumption
<1> QED BY <1>1 DEF queued_len

LEMMA RunWaves ==
    ASSUME CountersOK, CountersOK', NEW t \in Threads, RunRefresh(t)
    PROVE  WaveStep(t)
<1> USE DEF Goto, Labels, HoldLabels, TimerLabels, LeakLabels, WaveLabels, LookLabels, Counted, Stays,
           queueVars, busyVars, requestVars
<1>0. queued \in Int /\ queued >= queued /\ tasks \in Nat /\ tasks >= tasks
    BY DEF CountersOK
<1>q. queued_len > 0 => queued # 0
    BY QueueLen
<1>1. CASE Invalidate(t)
    <2>1. Plain(t)
        BY <1>0, <1>1 DEF Invalidate, Plain, Follows
    <2> QED BY <2>1 DEF WaveStep
<1>2. CASE BeginBusy(t, "begin", "start_on", "start")
    <2>1. Begins(t)
        BY <1>0, <1>2 DEF BeginBusy, Begins, Follows
    <2> QED BY <2>1 DEF WaveStep
<1>3. CASE Emit(t, "start_on", TRUE, "start")
    <2>1. Plain(t)
        BY <1>0, <1>3 DEF Emit, Plain, Follows
    <2> QED BY <2>1 DEF WaveStep
<1>4. CASE Schedule(t) \/ Scheduled(t)
    <2>1. Plain(t)
        BY <1>0, <1>4 DEF Schedule, Scheduled, Plain, Follows
    <2> QED BY <2>1 DEF WaveStep
<1>c. CASE Count(t, "count", "schedule")
    <2>1. Plain(t)
        BY <1>0, <1>c DEF Count, Plain, Follows
    <2> QED BY <2>1 DEF WaveStep
<1>5. CASE LookInflight(t, "recheck", "return", "recheck_queued")
    <2>1. CASE preview_pass_inflight > 0
        <3>1. SeesWork(t)
            BY <1>0, <1>5, <2>1 DEF LookInflight, SeesWork
        <3> QED BY <3>1 DEF WaveStep
    <2>2. CASE ~(preview_pass_inflight > 0)
        <3>1. Plain(t)
            BY <1>0, <1>5, <2>2 DEF LookInflight, Plain, Follows
        <3> QED BY <3>1 DEF WaveStep
    <2> QED BY <2>1, <2>2
<1>6. CASE LookQueued(t, "recheck_queued", "return", "nothing") /\ UNCHANGED misled
    <2>1. CASE queued_len > 0
        <3>1. SeesWork(t)
            BY <1>0, <1>q, <1>6, <2>1 DEF LookQueued, SeesWork
        <3> QED BY <3>1 DEF WaveStep
    <2>2. CASE ~(queued_len > 0)
        <3>1. Plain(t)
            BY <1>0, <1>6, <2>2 DEF LookQueued, Plain, Follows
        <3> QED BY <3>1 DEF WaveStep
    <2> QED BY <2>1, <2>2
<1>7. CASE FinishTimer(t, "nothing", "end")
    <2>1. StopsTimer(t)
        BY <1>0, <1>7 DEF FinishTimer, StopsTimer
    <2> QED BY <2>1 DEF WaveStep
<1>8. CASE EndBusy(t, "end", "return_off", "return")
    <2>1. PICK to \in {"return_off", "return"} : pc' = [pc EXCEPT ![t] = to]
        BY <1>8 DEF EndBusy
    <2>2. Follows(t, to) /\ pc[t] \in HoldLabels /\ to \in Labels \ HoldLabels
        BY <1>0, <1>8, <2>1 DEF EndBusy, Follows
    <2>3. Ends(t)
        BY <1>8, <2>2 DEF EndBusy, Ends
    <2> QED BY <2>3 DEF WaveStep
<1>9. CASE Emit(t, "return_off", FALSE, "return")
    <2>1. Plain(t)
        BY <1>0, <1>9 DEF Emit, Plain, Follows
    <2> QED BY <2>1 DEF WaveStep
<1>10. CASE Returned(t)
    <2>1. Plain(t)
        BY <1>0, <1>10 DEF Returned, Plain, Follows
    <2> QED BY <2>1 DEF WaveStep
<1>s. CASE StartTimer(t)
    BY <1>s DEF WaveStep
<1> QED BY <1>1, <1>2, <1>3, <1>4, <1>5, <1>6, <1>7, <1>8, <1>9, <1>10, <1>s, <1>c
        DEF RunRefresh

LEMMA CommandWaves ==
    ASSUME CountersOK, CountersOK', NEW t \in Threads, Command(t)
    PROVE  WaveStep(t)
<1> USE DEF Goto, Labels, HoldLabels, TimerLabels, LeakLabels, WaveLabels, LookLabels, Counted, Stays,
           queueVars, busyVars, requestVars
<1>0. queued \in Int /\ queued >= queued /\ tasks \in Nat /\ tasks >= tasks
    BY DEF CountersOK
<1>q. queued_len > 0 => queued # 0
    BY QueueLen
<1>1. CASE Request(t)
    <2>1. Plain(t)
        BY <1>0, <1>1 DEF Request, Plain, Follows
    <2> QED BY <2>1 DEF WaveStep
<1>2. CASE LookInflight(t, "request", "stash", "request_queued")
    <2>1. CASE preview_pass_inflight > 0
        <3>1. SeesWork(t)
            BY <1>0, <1>2, <2>1 DEF LookInflight, SeesWork
        <3> QED BY <3>1 DEF WaveStep
    <2>2. CASE ~(preview_pass_inflight > 0)
        <3>1. Plain(t)
            BY <1>0, <1>2, <2>2 DEF LookInflight, Plain, Follows
        <3> QED BY <3>1 DEF WaveStep
    <2> QED BY <2>1, <2>2
<1>3. CASE LookQueued(t, "request_queued", "stash", "run") /\ UNCHANGED misled
    <2>1. CASE queued_len > 0
        <3>1. SeesWork(t)
            BY <1>0, <1>q, <1>3, <2>1 DEF LookQueued, SeesWork
        <3> QED BY <3>1 DEF WaveStep
    <2>2. CASE ~(queued_len > 0)
        <3>1. Plain(t)
            BY <1>0, <1>3, <2>2 DEF LookQueued, Plain, Follows
        <3> QED BY <3>1 DEF WaveStep
    <2> QED BY <2>1, <2>2
<1>4. CASE Stash(t)
    <2>1. Plain(t)
        BY <1>0, <1>4 DEF Stash, Plain, Follows
    <2> QED BY <2>1 DEF WaveStep
<1> QED BY <1>1, <1>2, <1>3, <1>4
        DEF Command

LEMMA WorkerWaves ==
    ASSUME CountersOK, CountersOK', NEW t \in Threads, Worker(t)
    PROVE  WaveStep(t)
<1> USE DEF Goto, Labels, HoldLabels, TimerLabels, LeakLabels, WaveLabels, LookLabels, Counted, Stays,
           queueVars, busyVars, requestVars
<1>0. queued \in Int /\ queued >= queued /\ tasks \in Nat /\ tasks >= tasks
    BY DEF CountersOK
<1>q. queued_len > 0 => queued # 0
    BY QueueLen
<1>1. CASE TakeTask(t) \/ Discount(t)
    <2>1. Plain(t)
        BY <1>0, <1>1 DEF TakeTask, Discount, Plain, Follows
    <2> QED BY <2>1 DEF WaveStep
<1>2. CASE StartTask(t)
    <2>1. Plain(t)
        BY <1>0, <1>2 DEF StartTask, Plain, Follows
    <2> QED BY <2>1 DEF WaveStep
<1>3. CASE BeginBusy(t, "render", "rendering_on", "rendering")
    <2>1. Begins(t)
        BY <1>0, <1>3 DEF BeginBusy, Begins, Follows
    <2> QED BY <2>1 DEF WaveStep
<1>4. CASE Emit(t, "rendering_on", TRUE, "rendering")
    <2>1. Plain(t)
        BY <1>0, <1>4 DEF Emit, Plain, Follows
    <2> QED BY <2>1 DEF WaveStep
<1>5. CASE EndBusy(t, "rendering", "computed_off", "computed")
    <2>1. Ends(t)
        BY <1>0, <1>5 DEF EndBusy, Ends, Follows
    <2> QED BY <2>1 DEF WaveStep
<1>6. CASE Emit(t, "computed_off", FALSE, "computed")
    <2>1. Plain(t)
        BY <1>0, <1>6 DEF Emit, Plain, Follows
    <2> QED BY <2>1 DEF WaveStep
<1>7. CASE EndTask(t)
    <2>1. Plain(t)
        BY <1>0, <1>7 DEF EndTask, Plain, Follows
    <2> QED BY <2>1 DEF WaveStep
<1>8. CASE LookInflight(t, "finished", "idle", "finished_queued")
    <2>1. CASE preview_pass_inflight > 0
        <3>1. SeesWork(t)
            BY <1>0, <1>8, <2>1 DEF LookInflight, SeesWork
        <3> QED BY <3>1 DEF WaveStep
    <2>2. CASE ~(preview_pass_inflight > 0)
        <3>1. Plain(t)
            BY <1>0, <1>8, <2>2 DEF LookInflight, Plain, Follows
        <3> QED BY <3>1 DEF WaveStep
    <2> QED BY <2>1, <2>2
<1>9. CASE LookAfterTask(t)
    <2>1. CASE queued_len > 0
        <3>1. SeesWork(t)
            BY <1>0, <1>q, <1>9, <2>1 DEF LookAfterTask, LookQueued, SeesWork
        <3> QED BY <3>1 DEF WaveStep
    <2>2. CASE ~(queued_len > 0)
        <3>1. SeesNone(t)
            BY <1>0, <1>9, <2>2 DEF LookAfterTask, LookQueued, SeesNone
        <3> QED BY <3>1 DEF WaveStep
    <2> QED BY <2>1, <2>2
<1>10. CASE FinishTimer(t, "quiet", "clear")
    <2>1. StopsTimer(t)
        BY <1>0, <1>10 DEF FinishTimer, StopsTimer
    <2> QED BY <2>1 DEF WaveStep
<1>11. CASE ClearBusy(t)
    <2>1. Clears(t)
        BY <1>0, <1>11 DEF ClearBusy, Clears
    <2> QED BY <2>1 DEF WaveStep
<1>12. CASE Emit(t, "drain_off", FALSE, "drain")
    <2>1. Plain(t)
        BY <1>0, <1>12 DEF Emit, Plain, Follows
    <2> QED BY <2>1 DEF WaveStep
<1>13. CASE DrainPending(t)
    <2>1. Plain(t)
        BY <1>0, <1>13 DEF DrainPending, Plain, Follows
    <2> QED BY <2>1 DEF WaveStep
<1> QED BY <1>1, <1>2, <1>3, <1>4, <1>5, <1>6, <1>7, <1>8, <1>9, <1>10, <1>11, <1>12, <1>13
        DEF Worker, TaskFinished

LEMMA HandlerWaves ==
    ASSUME CountersOK, CountersOK', NEW t \in Threads, Handler(t)
    PROVE  WaveStep(t)
<1> USE DEF Goto, Labels, HoldLabels, TimerLabels, LeakLabels, WaveLabels, LookLabels, Counted, Stays,
           queueVars, busyVars, requestVars
<1>0. queued \in Int /\ queued >= queued /\ tasks \in Nat /\ tasks >= tasks
    BY DEF CountersOK
<1>1. CASE Pull(t)
    <2>1. Plain(t)
        BY <1>0, <1>1 DEF Pull, Plain, Follows
    <2> QED BY <2>1 DEF WaveStep
<1>2. CASE Count(t, "pulled", "idle")
    <2>1. Plain(t)
        BY <1>0, <1>2 DEF Count, Plain, Follows
    <2> QED BY <2>1 DEF WaveStep
<1> QED BY <1>1, <1>2 DEF Handler

LEMMA WaveNext ==
    ASSUME IsFiniteSet(Threads), ThreadsOK, CountOK, CountersOK, CountersOK', QueueOK, WaveInv, [Next]_vars
    PROVE  WaveInv'
<1>1. ASSUME NEW c \in Commands, Command(c) \/ RunRefresh(c)
      PROVE  WaveInv'
    BY <1>1, CommandWaves, RunWaves, WaveStepKeeps DEF Threads
<1>2. ASSUME NEW w \in Workers, Worker(w) \/ RunRefresh(w)
      PROVE  WaveInv'
    BY <1>2, WorkerWaves, RunWaves, WaveStepKeeps DEF Threads
<1>3. ASSUME NEW h \in Handlers, Handler(h)
      PROVE  WaveInv'
    BY <1>3, HandlerWaves, WaveStepKeeps DEF Threads
<1>4. CASE UNCHANGED vars
    <2>1. UNCHANGED <<timer, full_document_busy, pc, tasks, queued, misled>>
        BY <1>4 DEF vars, queueVars, busyVars
    <2>2. Holding' = Holding
        BY <2>1 DEF Holding
    <2>3. \A labels : UnderWay(labels) <=> UnderWay(labels)'
        BY <2>1 DEF UnderWay
    <2> QED BY <2>1, <2>2, <2>3, LedgerSame DEF WaveInv, TimerOK, DriftOK
<1> QED BY <1>1, <1>2, <1>3, <1>4 DEF Next

LEMMA WaveInit ==
    ASSUME IsFiniteSet(Threads), Init
    PROVE  WaveInv
<1>1. Holding = {} /\ full_document_busy = 0 /\ ~timer /\ queued = 0
    BY DEF Init, Holding, HoldLabels
<1>2. Cardinality({}) = 0 /\ Cardinality(Threads) \in Nat
    BY FS_EmptySet, FS_CardinalityType
<1>3. 0 % BusyModulus = 0
    BY ModSmall, PreviewAssumption DEF PreviewAssumption
<1>4. Cardinality({} \ {}) + 0 - 0 = 0 /\ 0 + Cardinality({}) <= Cardinality(Threads)
    BY <1>2
<1>5. Ledger({}, 0, 0)
    BY <1>1, <1>3, <1>4 DEF Ledger
<1> QED BY <1>1, <1>5 DEF WaveInv, TimerOK, BusyOK, DriftOK

\* Nothing is held at rest and nobody has leaked a count.
LEMMA RestMeansClosed ==
    ASSUME IsFiniteSet(Threads), 2 * Cardinality(Threads) < BusyModulus, WaveInv
    PROVE  WaveClosed
<1>1. SUFFICES ASSUME AtRest, ~misled
               PROVE  ~timer /\ (full_document_busy = 0 \/ full_document_busy > BusyModulus \div 2)
    BY DEF WaveClosed
<1>2. \A t \in Threads : pc[t] \notin TimerLabels /\ pc[t] \notin LeakLabels /\ pc[t] \notin HoldLabels
    BY <1>1 DEF AtRest, TimerLabels, LeakLabels, WaveLabels, LookLabels, Counted, HoldLabels
<1>3. ~UnderWay(TimerLabels) /\ ~UnderWay(LeakLabels) /\ Holding = {}
    BY <1>1, <1>2 DEF AtRest, UnderWay, Holding
<1>4. PICK forgotten \in SUBSET Holding, ended \in Nat, leaked \in Nat :
            Ledger(forgotten, ended, leaked)
    BY DEF WaveInv, BusyOK
<1>5. Cardinality({}) = 0 /\ Cardinality(Threads) \in Nat /\ BusyModulus \in Nat \ {0}
    BY FS_EmptySet, FS_CardinalityType, PreviewAssumption DEF PreviewAssumption
<1>6. forgotten = {} /\ Holding \ forgotten = {} /\ leaked = 0
    BY <1>3, <1>4 DEF Ledger
<1>7. Cardinality(forgotten) = 0 /\ Cardinality(Holding \ forgotten) = 0
    BY <1>5, <1>6
<1>8. ended <= Cardinality(Threads) /\ full_document_busy = (-ended) % BusyModulus
    <2>1. ended + 0 <= Cardinality(Threads) /\ 0 + 0 - ended = -ended
        BY <1>4, <1>5, <1>7 DEF Ledger
    <2> QED BY <1>4, <1>6, <1>7, <2>1 DEF Ledger
<1>9. full_document_busy = 0 \/ full_document_busy > BusyModulus \div 2
    <2>1. CASE ended = 0
        BY <1>5, <1>8, <2>1, ModSmall
    <2>2. CASE ended > 0
        <3>1. ended < BusyModulus /\ 2 * ended < BusyModulus
            BY <1>5, <1>8
        <3>2. full_document_busy = BusyModulus - ended
            BY <1>5, <1>8, <2>2, <3>1, ModBelowZero
        <3>3. 2 * (BusyModulus \div 2) <= BusyModulus
            BY <1>5
        <3> QED BY <1>5, <3>1, <3>2, <3>3
    <2> QED BY <2>1, <2>2
<1> QED BY <1>3, <1>9 DEF WaveInv, TimerOK

\* When everything has stopped, the footer timer is stopped and no refresh
\* holds the busy counter above zero, unless the last look at the queue after a
\* task met a counter below zero and took it for work.  This holds whichever
\* refresh ended its wave and whichever worker cleared the count of the others
\* in between: the counter is at zero or has wrapped by at most one for each
\* thread.  For any number of threads the busy counter can count twice and any
\* width of the queue's (commands/mod.rs:274-298, 574-697; scheduler.rs:113-118,
\* 154-158).
THEOREM WavesClose ==
    ASSUME IsFiniteSet(Threads), 2 * Cardinality(Threads) < BusyModulus
    PROVE  Spec => []WaveClosed
<1> DEFINE Inv == RefreshInv /\ CountOK /\ CountersOK /\ QueueOK /\ WaveInv
<1>0. IsFiniteSet(Workers)
    BY FS_Subset DEF Threads
<1>1. Init => Inv
    BY CountInit, CountersInit, RefreshInvInit, QueueStepInit, WaveInit
<1>2. Inv /\ [Next]_vars => Inv'
    <2>1. ASSUME Inv, [Next]_vars
          PROVE  Inv'
        <3>1. RefreshInv' /\ CountersOK' /\ ThreadsOK
            BY <2>1, RefreshInvNext, CountersSteps DEF RefreshInv
        <3>2. CountOK'
            BY <1>0, <2>1, <3>1, CountSteps
        <3>3. QueueOK' /\ WaveInv'
            BY <2>1, <3>1, QueueNext, WaveNext
        <3> QED BY <3>1, <3>2, <3>3
    <2> QED BY <2>1
<1>3. Inv => WaveClosed
    BY RestMeansClosed
<1> QED BY <1>1, <1>2, <1>3, PTL DEF Spec

=============================================================================
