------------------------------ MODULE Scheduler ------------------------------
(***************************************************************************)
(* crates/engine-tiles/src/scheduler.rs: the lock-free pool of recompute   *)
(* tasks.  The truth is the sharded map "pending" (at most one task per    *)
(* tile key, every access to one key is atomic under its shard lock); four *)
(* FIFO lanes hold key hints only.  A call is several atomic steps, and    *)
(* the steps of producers, workers and clear_all interleave freely.        *)
(***************************************************************************)
EXTENDS Integers, Sequences, FiniteSets

CONSTANTS
    Keys,           \* tile keys
    Tasks,          \* the tasks producers submit
    Producers,      \* threads that enqueue
    Workers,        \* tile worker threads
    Clearers,       \* threads that call clear_all (none in the application)
    MaxEnqueues,    \* bound on enqueue calls
    CountModulus,   \* 2^w of the AtomicUsize queued_count
    NoTask          \* an empty slot of the map

\* Priority: Prefetch, ViewportEdge, ViewportCenter, Immediate.
Lane == 0..3
Highest == 3
Lowest == 0

Task == [key : Keys, generation : Nat, layer_generation : Nat, priority : Lane]

ASSUME TasksAssumption == Tasks \subseteq Task
ASSUME NoTaskAssumption == NoTask \notin Task
ASSUME ModulusAssumption == CountModulus \in Nat \ {0}
ASSUME BoundAssumption == MaxEnqueues \in Nat
ASSUME ThreadsAssumption ==
    /\ Producers \cap Workers = {}
    /\ Producers \cap Clearers = {}
    /\ Workers \cap Clearers = {}

VARIABLES
    pending,        \* DashMap<TileKey, RecomputeTask>
    lanes,          \* the four SegQueues of hints
    queued_count,   \* AtomicUsize
    pc,             \* where each thread is inside its call
    arg,            \* the task a producer's call carries
    lane,           \* the lane a worker or clear_all looks at next
    hint,           \* the key a worker popped from a lane, NoTask if none
    got,            \* the task a worker's dequeue returns
    enqueues        \* enqueue calls so far

vars == <<pending, lanes, queued_count, pc, arg, lane, hint, got, enqueues>>

Threads == Producers \union Workers \union Clearers
IsPending(k) == pending[k] # NoTask
InLane(k, l) == \E i \in 1..Len(lanes[l]) : lanes[l][i] = k
PushHint(k, l) == lanes' = [lanes EXCEPT ![l] = Append(@, k)]
Goto(t, label) == pc' = [pc EXCEPT ![t] = label]

Init ==
    /\ pending = [k \in Keys |-> NoTask]
    /\ lanes = [l \in Lane |-> <<>>]
    /\ queued_count = 0
    /\ pc = [t \in Threads |-> "idle"]
    /\ arg = [p \in Producers |-> NoTask]
    /\ lane = [t \in Workers \union Clearers |-> Highest]
    /\ hint = [w \in Workers |-> NoTask]
    /\ got = [w \in Workers |-> NoTask]
    /\ enqueues = 0

(***************************************************************************)
(* Producers: enqueue_dedup and enqueue_or_bump.  Each reads the map, lets *)
(* go of the entry, and only then calls upsert.                            *)
(***************************************************************************)
\* What the pending.get of enqueue_dedup rejects.
DedupRejects(t) == IsPending(t.key) /\ pending[t.key].generation >= t.generation

\* What the pending.get of enqueue_or_bump rejects.
BumpRejects(t) ==
    /\ IsPending(t.key)
    /\ \/ t.generation < pending[t.key].generation
       \/ /\ t.generation = pending[t.key].generation
          /\ t.priority <= pending[t.key].priority

Call(p, t, rejected) ==
    /\ pc[p] = "idle"
    /\ enqueues < MaxEnqueues
    /\ enqueues' = enqueues + 1
    /\ IF rejected THEN UNCHANGED <<pc, arg>>
       ELSE Goto(p, "upsert") /\ arg' = [arg EXCEPT ![p] = t]
    /\ UNCHANGED <<pending, lanes, queued_count, lane, hint, got>>

EnqueueDedup(p) == \E t \in Tasks : Call(p, t, DedupRejects(t))
EnqueueOrBump(p) == \E t \in Tasks : Call(p, t, BumpRejects(t))

\* Vacant entry: insert under the shard lock; count and hint come later.
UpsertVacant(p) ==
    /\ pc[p] = "upsert"
    /\ ~IsPending(arg[p].key)
    /\ pending' = [pending EXCEPT ![arg[p].key] = arg[p]]
    /\ Goto(p, "count")
    /\ UNCHANGED <<lanes, queued_count, arg, lane, hint, got, enqueues>>

CountUp(p) ==
    /\ pc[p] = "count"
    /\ queued_count' = (queued_count + 1) % CountModulus
    /\ Goto(p, "hint")
    /\ UNCHANGED <<pending, lanes, arg, lane, hint, got, enqueues>>

PushNewHint(p) ==
    /\ pc[p] = "hint"
    /\ PushHint(arg[p].key, arg[p].priority)
    /\ arg' = [arg EXCEPT ![p] = NoTask]
    /\ Goto(p, "idle")
    /\ UNCHANGED <<pending, queued_count, lane, hint, got, enqueues>>

\* Mutant: the occupied entry is overwritten instead of merged.
MergeReplace(prev, t) == t

\* Mutant: the layer generation of the last request wins.
MergeLatestLayer(prev, t) ==
    [key |-> t.key,
     generation |-> IF t.generation > prev.generation THEN t.generation ELSE prev.generation,
     layer_generation |-> t.layer_generation,
     priority |-> IF t.priority > prev.priority THEN t.priority ELSE prev.priority]

\* The merge of upsert's Occupied arm.
Merge(prev, t) ==
    [key |-> t.key,
     generation |-> IF t.generation > prev.generation THEN t.generation ELSE prev.generation,
     layer_generation |-> IF t.generation > prev.generation THEN t.layer_generation
                                                            ELSE prev.layer_generation,
     priority |-> IF t.priority > prev.priority THEN t.priority ELSE prev.priority]

\* Mutant: a bump that raises only the priority pushes no hint.
UpsertOccupiedNoHint(p) ==
    LET t == arg[p]
        prev == pending[t.key]
        merged == Merge(prev, t)
    IN  /\ pc[p] = "upsert"
        /\ IsPending(t.key)
        /\ pending' = [pending EXCEPT ![t.key] = merged]
        /\ IF t.generation > prev.generation
           THEN PushHint(t.key, merged.priority)
           ELSE UNCHANGED lanes
        /\ arg' = [arg EXCEPT ![p] = NoTask]
        /\ Goto(p, "idle")
        /\ UNCHANGED <<queued_count, lane, hint, got, enqueues>>

\* Occupied entry: merge and, if it matters, push a hint before the lock goes.
UpsertOccupied(p) ==
    LET t == arg[p]
        prev == pending[t.key]
        merged == Merge(prev, t)
    IN  /\ pc[p] = "upsert"
        /\ IsPending(t.key)
        /\ pending' = [pending EXCEPT ![t.key] = merged]
        /\ IF t.priority > prev.priority \/ t.generation > prev.generation
           THEN PushHint(t.key, merged.priority)
           ELSE UNCHANGED lanes
        /\ arg' = [arg EXCEPT ![p] = NoTask]
        /\ Goto(p, "idle")
        /\ UNCHANGED <<queued_count, lane, hint, got, enqueues>>

Enqueue(p) ==
    \/ EnqueueDedup(p)
    \/ EnqueueOrBump(p)
    \/ UpsertVacant(p)
    \/ CountUp(p)
    \/ PushNewHint(p)
    \/ UpsertOccupied(p)

(***************************************************************************)
(* Workers: dequeue.  One pop per lane, highest first; a popped hint whose *)
(* key is not pending restarts the loop.                                   *)
(***************************************************************************)
StartDequeue(w) ==
    /\ pc[w] = "idle"
    /\ lane' = [lane EXCEPT ![w] = Highest]
    /\ Goto(w, "scan")
    /\ UNCHANGED <<pending, lanes, queued_count, arg, hint, got, enqueues>>

PopHint(w) ==
    /\ pc[w] = "scan"
    /\ lanes[lane[w]] # <<>>
    /\ hint' = [hint EXCEPT ![w] = Head(lanes[lane[w]])]
    /\ lanes' = [lanes EXCEPT ![lane[w]] = Tail(@)]
    /\ Goto(w, "remove")
    /\ UNCHANGED <<pending, queued_count, arg, lane, got, enqueues>>

LaneEmpty(w) ==
    /\ pc[w] = "scan"
    /\ lanes[lane[w]] = <<>>
    /\ IF lane[w] = Lowest
       THEN Goto(w, "none") /\ lane' = [lane EXCEPT ![w] = Highest]
       ELSE lane' = [lane EXCEPT ![w] = @ - 1] /\ UNCHANGED pc
    /\ UNCHANGED <<pending, lanes, queued_count, arg, hint, got, enqueues>>

RemoveHit(w) ==
    /\ pc[w] = "remove"
    /\ IsPending(hint[w])
    /\ got' = [got EXCEPT ![w] = pending[hint[w]]]
    /\ pending' = [pending EXCEPT ![hint[w]] = NoTask]
    /\ hint' = [hint EXCEPT ![w] = NoTask]
    /\ lane' = [lane EXCEPT ![w] = Highest]
    /\ Goto(w, "sub")
    /\ UNCHANGED <<lanes, queued_count, arg, enqueues>>

\* Mutant: the counter is decremented for a stale hint too.
RemoveMissCounting(w) ==
    /\ pc[w] = "remove"
    /\ ~IsPending(hint[w])
    /\ queued_count' = (queued_count - 1) % CountModulus
    /\ hint' = [hint EXCEPT ![w] = NoTask]
    /\ lane' = [lane EXCEPT ![w] = Highest]
    /\ Goto(w, "scan")
    /\ UNCHANGED <<pending, lanes, arg, got, enqueues>>

RemoveMiss(w) ==
    /\ pc[w] = "remove"
    /\ ~IsPending(hint[w])
    /\ hint' = [hint EXCEPT ![w] = NoTask]
    /\ lane' = [lane EXCEPT ![w] = Highest]
    /\ Goto(w, "scan")
    /\ UNCHANGED <<pending, lanes, queued_count, arg, got, enqueues>>

\* Mutant: a counter that does not wrap.
CountDownUnwrapped(w) ==
    /\ pc[w] = "sub"
    /\ queued_count' = queued_count - 1
    /\ Goto(w, "got")
    /\ UNCHANGED <<pending, lanes, arg, lane, hint, got, enqueues>>

CountDown(w) ==
    /\ pc[w] = "sub"
    /\ queued_count' = (queued_count - 1) % CountModulus
    /\ Goto(w, "got")
    /\ UNCHANGED <<pending, lanes, arg, lane, hint, got, enqueues>>

Dequeue(w) ==
    \/ PopHint(w)
    \/ LaneEmpty(w)
    \/ RemoveHit(w)
    \/ RemoveMiss(w)
    \/ CountDown(w)

\* The caller is done with the answer and may dequeue again.
Return(w) ==
    /\ pc[w] \in {"got", "none"}
    /\ got' = [got EXCEPT ![w] = NoTask]
    /\ Goto(w, "idle")
    /\ UNCHANGED <<pending, lanes, queued_count, arg, lane, hint, enqueues>>

(***************************************************************************)
(* clear_all: drain each lane pop by pop, then the map, then the counter.  *)
(***************************************************************************)
StartClear(c) ==
    /\ pc[c] = "idle"
    /\ lane' = [lane EXCEPT ![c] = Highest]
    /\ Goto(c, "drain")
    /\ UNCHANGED <<pending, lanes, queued_count, arg, hint, got, enqueues>>

DrainOne(c) ==
    /\ pc[c] = "drain"
    /\ lanes[lane[c]] # <<>>
    /\ lanes' = [lanes EXCEPT ![lane[c]] = Tail(@)]
    /\ UNCHANGED <<pending, queued_count, pc, arg, lane, hint, got, enqueues>>

DrainNext(c) ==
    /\ pc[c] = "drain"
    /\ lanes[lane[c]] = <<>>
    /\ IF lane[c] = Lowest
       THEN Goto(c, "clear") /\ lane' = [lane EXCEPT ![c] = Highest]
       ELSE lane' = [lane EXCEPT ![c] = @ - 1] /\ UNCHANGED pc
    /\ UNCHANGED <<pending, lanes, queued_count, arg, hint, got, enqueues>>

\* Mutant: the lanes are drained and the map is kept.
ClearPendingKept(c) ==
    /\ pc[c] = "clear"
    /\ Goto(c, "zero")
    /\ UNCHANGED <<pending, lanes, queued_count, arg, lane, hint, got, enqueues>>

ClearPending(c) ==
    /\ pc[c] = "clear"
    /\ pending' = [k \in Keys |-> NoTask]
    /\ Goto(c, "zero")
    /\ UNCHANGED <<lanes, queued_count, arg, lane, hint, got, enqueues>>

ZeroCount(c) ==
    /\ pc[c] = "zero"
    /\ queued_count' = 0
    /\ Goto(c, "idle")
    /\ UNCHANGED <<pending, lanes, arg, lane, hint, got, enqueues>>

ClearAll(c) ==
    \/ StartClear(c)
    \/ DrainOne(c)
    \/ DrainNext(c)
    \/ ClearPending(c)
    \/ ZeroCount(c)

Next ==
    \/ \E p \in Producers : Enqueue(p)
    \/ \E w \in Workers : StartDequeue(w) \/ Dequeue(w) \/ Return(w)
    \/ \E c \in Clearers : ClearAll(c)

Spec == Init /\ [][Next]_vars

\* Threads inside a call keep running, and the worker loop dequeues for ever.
Fairness ==
    /\ \A p \in Producers : WF_vars(UpsertVacant(p) \/ UpsertOccupied(p)
                                     \/ CountUp(p) \/ PushNewHint(p))
    /\ \A w \in Workers : WF_vars(StartDequeue(w) \/ Dequeue(w) \/ Return(w))
    /\ \A c \in Clearers : WF_vars(ClearAll(c))

FairSpec == Spec /\ Fairness

-----------------------------------------------------------------------------
TypeOK ==
    /\ pending \in [Keys -> Task \union {NoTask}]
    /\ \A k \in Keys : IsPending(k) => pending[k].key = k
    /\ lanes \in [Lane -> Seq(Keys)]
    /\ queued_count \in 0..(CountModulus - 1)
    /\ pc \in [Threads -> {"idle", "upsert", "count", "hint", "scan", "remove",
                            "sub", "got", "none", "drain", "clear", "zero"}]
    /\ arg \in [Producers -> Tasks \union {NoTask}]
    /\ \A p \in Producers : pc[p] \in {"upsert", "count", "hint"} => arg[p] # NoTask
    /\ lane \in [Workers \union Clearers -> Lane]
    /\ hint \in [Workers -> Keys \union {NoTask}]
    /\ \A w \in Workers : pc[w] = "remove" => hint[w] \in Keys
    /\ got \in [Workers -> Task \union {NoTask}]
    /\ \A w \in Workers : pc[w] \notin {"sub", "got"} => got[w] = NoTask
    /\ enqueues \in 0..MaxEnqueues

\* A producer between its insert and its push: the hint of k is on the way.
HintOnTheWay(k) ==
    \E p \in Producers :
        /\ pc[p] \in {"count", "hint"}
        /\ arg[p].key = k
        /\ arg[p].priority = pending[k].priority

HintTaken(k) == \E w \in Workers : pc[w] = "remove" /\ hint[w] = k
BeingCleared == \E c \in Clearers : pc[c] \in {"drain", "clear"}

\* No task is stranded: whatever is pending can still be reached through a
\* hint in the lane of its own priority, or some thread is about to push that
\* hint, to remove the task, or to clear the map.  The map and the lanes are
\* never updated together, so every interleaving of upsert, dequeue and
\* clear_all has to keep this (scheduler.rs:110-175).
HintCovered ==
    \A k \in Keys : IsPending(k) =>
        \/ InLane(k, pending[k].priority)
        \/ HintOnTheWay(k)
        \/ HintTaken(k)
        \/ BeingCleared

\* queued_count lags the map by exactly the calls between the two updates; it
\* may wrap below zero on the way (a stale hint lets a worker take a task
\* whose producer has not counted it yet) but never drifts: with all threads
\* between calls it is the number of pending tasks.  gpu_resident_shadow.rs:38
\* uses it to decide that the engine is idle.
CountAccounts ==
    LET pendingNow == Cardinality({k \in Keys : IsPending(k)})
        uncounted == Cardinality({p \in Producers : pc[p] = "count"})
        taken == Cardinality({w \in Workers : pc[w] = "sub"})
    IN  queued_count = (pendingNow + taken - uncounted) % CountModulus

\* The generations of a pending task are those of one submitted task: the
\* merge never pairs the document generation of one request with the layer
\* generation of another, which the worker's stale test would then reject
\* (scheduler.rs:123-132, worker.rs:687-691).
GenerationsBelongTogether ==
    \A k \in Keys : IsPending(k) =>
        \E t \in Tasks :
            /\ t.key = k
            /\ t.generation = pending[k].generation
            /\ t.layer_generation = pending[k].layer_generation

\* Seen from its callers, the scheduler is one pool of tasks with atomic
\* submit, take and clear, and every submitted task is taken in the end.
Pool == INSTANCE TaskPool WITH pool <- pending, out <- got

PoolSpec == Pool!FairSpec

=============================================================================
