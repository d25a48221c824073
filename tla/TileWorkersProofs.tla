-------------------------- MODULE TileWorkersProofs --------------------------
(***************************************************************************)
(* Proofs about TileWorkers: for any number of producers and workers the   *)
(* one Boolean flag of WorkerWake loses no wake-up.  The scheduler's own   *)
(* invariants carry over, because every step here is a scheduler step or   *)
(* leaves the scheduler alone.                                             *)
(***************************************************************************)
EXTENDS TileWorkers, SchedulerProofs

USE DEF Goto, IsPending

LEMMA StepsOfScheduler == [WakeNext]_allVars => [Next]_vars
<1> SUFFICES ASSUME [WakeNext]_allVars PROVE [Next]_vars
  OBVIOUS
<1>1. CASE UNCHANGED allVars
  BY <1>1 DEF allVars
<1>2. ASSUME NEW p \in Producers, Producer(p) PROVE [Next]_vars
  BY <1>2 DEF Producer, EnqueueStep, NotifyOne, NotifyAll, Next
<1>3. ASSUME NEW w \in Workers, Worker(w) \/ SpuriousWake(w) PROVE [Next]_vars
  BY <1>3 DEF Worker, SpuriousWake, DequeueStep, TaskDone, ConsumeFlag, Sleep, Next
<1> QED
  BY <1>1, <1>2, <1>3 DEF WakeNext

\* The composition never lets the scheduler do what it could not do alone.
LEMMA SchedulerInside == WakeSpec => Spec
<1>1. WakeInit => Init
  BY DEF WakeInit
<1> QED
  BY <1>1, StepsOfScheduler, PTL DEF WakeSpec, Spec

LEMMA SchedulerInvariants == WakeSpec => [](TypeOK /\ HintCovered)
BY SchedulerInside, TypeCorrect, NoStrandedTask, PTL

-----------------------------------------------------------------------------
\* What each kind of step does to the program counters.
LEMMA ProducerMoves ==
    ASSUME TypeOK, NEW p \in Producers, Enqueue(p)
    PROVE  /\ \A t \in Threads : t # p => pc'[t] = pc[t]
           /\ pc'[p] \in {"idle", "upsert", "count", "hint"}
           /\ pc[p] = "idle" /\ pc'[p] # "idle" => pc'[p] = "upsert"
           /\ lane' = lane
<1> USE DEF TypeOK, Threads
<1>1. CASE \E t \in Tasks, r \in BOOLEAN : Call(p, t, r)
  <2> PICK t \in Tasks, r \in BOOLEAN : Call(p, t, r)
    BY <1>1
  <2>1. CASE r
    BY <2>1 DEF Call
  <2>2. CASE ~r
    BY <2>2 DEF Call
  <2> QED
    BY <2>1, <2>2
<1>2. CASE UpsertVacant(p) \/ CountUp(p)
  BY <1>2 DEF UpsertVacant, CountUp
<1>3. CASE PushNewHint(p) \/ UpsertOccupied(p)
  <2>1. pc[p] # "idle" /\ pc' = [pc EXCEPT ![p] = "idle"] /\ lane' = lane
    <3>1. CASE PushNewHint(p)
      BY <3>1 DEF PushNewHint
    <3>2. CASE UpsertOccupied(p)
      BY <3>2 DEF UpsertOccupied
    <3> QED
      BY <1>3, <3>1, <3>2
  <2> QED
    BY <2>1
<1> QED
  BY <1>1, <1>2, <1>3 DEF Enqueue, EnqueueDedup, EnqueueOrBump, DedupRejects, BumpRejects

LEMMA WorkerMoves ==
    ASSUME TypeOK, NEW w \in Workers, StartDequeue(w) \/ Dequeue(w) \/ Return(w)
    PROVE  /\ \A t \in Threads : t # w => pc'[t] = pc[t]
           /\ \A v \in Workers : v # w => lane'[v] = lane[v]
<1> USE DEF TypeOK, Threads
<1>1. CASE LaneEmpty(w)
  BY <1>1 DEF LaneEmpty
<1>2. CASE StartDequeue(w) \/ PopHint(w) \/ RemoveHit(w) \/ RemoveMiss(w) \/ CountDown(w) \/ Return(w)
  BY <1>2 DEF StartDequeue, PopHint, RemoveHit, RemoveMiss, CountDown, Return
<1> QED
  BY <1>1, <1>2 DEF Dequeue

-----------------------------------------------------------------------------
LEMMA WakeTypeInit == WakeInit => WakeTypeOK
BY TypeInit DEF WakeInit, WakeTypeOK

LEMMA WakeTypeNext == WakeTypeOK /\ [WakeNext]_allVars => WakeTypeOK'
<1> SUFFICES ASSUME WakeTypeOK, [WakeNext]_allVars PROVE WakeTypeOK'
  OBVIOUS
<1> USE ThreadsAssumption
<1>0. TypeOK /\ TypeOK'
  BY StepsOfScheduler, TypeNext DEF WakeTypeOK
<1>1. CASE UNCHANGED allVars
  BY <1>0, <1>1 DEF allVars, vars, wakeVars, WakeTypeOK
<1>2. ASSUME NEW p \in Producers, EnqueueStep(p) PROVE WakeTypeOK'
  <2>1. \A w \in Workers : pc'[w] = pc[w]
    BY <1>0, <1>2, ProducerMoves DEF EnqueueStep, Threads
  <2> QED
    BY <1>0, <1>2, <2>1 DEF EnqueueStep, WakeTypeOK
<1>3. ASSUME NEW p \in Producers, NotifyOne(p) \/ NotifyAll(p) PROVE WakeTypeOK'
  <2>1. pc' = pc /\ has_tasks' \in BOOLEAN /\ owes' \subseteq Producers
    BY <1>3 DEF NotifyOne, NotifyAll, WakeTypeOK, vars
  <2>2. /\ sleep' \in [Workers -> {"awake", "waiting", "woken"}]
        /\ \A w \in Workers : sleep'[w] # "awake" => sleep[w] # "awake"
    <3>1. CASE NotifyOne(p)
      BY <3>1 DEF NotifyOne, Sleepers, WakeTypeOK
    <3>2. CASE NotifyAll(p)
      BY <3>2 DEF NotifyAll, Sleepers, WakeTypeOK
    <3> QED
      BY <1>3, <3>1, <3>2
  <2> QED
    BY <1>0, <2>1, <2>2 DEF WakeTypeOK
<1>4. ASSUME NEW w \in Workers, DequeueStep(w) \/ TaskDone(w) PROVE WakeTypeOK'
  <2>1. /\ \A v \in Workers : v # w => pc'[v] = pc[v]
        /\ pc[w] # "none"
        /\ UNCHANGED wakeVars
    <3>1. StartDequeue(w) \/ Dequeue(w) \/ Return(w)
      BY <1>4 DEF DequeueStep, TaskDone
    <3>2. pc[w] # "none" /\ UNCHANGED wakeVars
      BY <1>4 DEF DequeueStep, TaskDone, StartDequeue, Dequeue, PopHint, LaneEmpty, RemoveHit,
                  RemoveMiss, CountDown
    <3> QED
      BY <1>0, <3>1, <3>2, WorkerMoves DEF Threads
  <2> QED
    BY <1>0, <2>1 DEF wakeVars, WakeTypeOK
<1>5. ASSUME NEW w \in Workers, ConsumeFlag(w) PROVE WakeTypeOK'
  <2>1. \A v \in Workers : v # w => pc'[v] = pc[v]
    BY <1>0, <1>5, WorkerMoves DEF ConsumeFlag, Threads
  <2> QED
    BY <1>0, <1>5, <2>1 DEF ConsumeFlag, WakeTypeOK
<1>6. ASSUME NEW w \in Workers, Sleep(w) \/ SpuriousWake(w) PROVE WakeTypeOK'
  BY <1>0, <1>6 DEF Sleep, SpuriousWake, WakeTypeOK, vars
<1> QED
  BY <1>1, <1>2, <1>3, <1>4, <1>5, <1>6 DEF WakeNext, Producer, Worker

\* Type correctness with the wake protocol; above all, a worker is on the
\* condition variable only when its dequeue found nothing (worker.rs:59-80).
THEOREM WakeTypeCorrect == WakeSpec => []WakeTypeOK
BY WakeTypeInit, WakeTypeNext, PTL DEF WakeSpec

-----------------------------------------------------------------------------
LEMMA TakerInit == WakeInit => FlagHasTaker
BY DEF WakeInit, FlagHasTaker

LEMMA TakerNext == WakeTypeOK /\ FlagHasTaker /\ [WakeNext]_allVars => FlagHasTaker'
<1> SUFFICES ASSUME WakeTypeOK, FlagHasTaker, [WakeNext]_allVars PROVE FlagHasTaker'
  OBVIOUS
<1>0. WakeTypeOK'
  BY WakeTypeNext
\* A worker on the condition variable has pc "none", so the taker is simply
\* a worker that is not on it.
<1>1. FlagHasTaker' <=> (has_tasks' => \E w \in Workers : sleep'[w] # "waiting")
  BY <1>0 DEF FlagHasTaker, Busy, OnTheWayUp, WakeTypeOK
<1>2. has_tasks => \E w \in Workers : sleep[w] # "waiting"
  BY DEF FlagHasTaker, Busy, OnTheWayUp, WakeTypeOK
<1>3. CASE UNCHANGED <<has_tasks, sleep>>
  BY <1>1, <1>2, <1>3
<1>4. ASSUME NEW p \in Producers, NotifyOne(p) PROVE FlagHasTaker'
  <2>1. CASE Sleepers = {}
    BY <1>1, <1>4, <2>1, WorkersAssumption DEF NotifyOne, Sleepers
  <2>2. CASE Sleepers # {}
    <3>1. PICK w \in Sleepers : sleep' = [sleep EXCEPT ![w] = "woken"]
      BY <1>4, <2>2 DEF NotifyOne
    <3>2. w \in Workers /\ sleep'[w] = "woken"
      BY <3>1 DEF Sleepers, WakeTypeOK
    <3> QED
      BY <1>1, <3>2
  <2> QED
    BY <2>1, <2>2
<1>5. ASSUME NEW p \in Producers, NotifyAll(p) PROVE FlagHasTaker'
  <2>1. \A w \in Workers : sleep'[w] # "waiting"
    BY <1>5 DEF NotifyAll, Sleepers
  <2> QED
    BY <1>1, <2>1, WorkersAssumption
<1>6. ASSUME NEW w \in Workers, ConsumeFlag(w) \/ Sleep(w) PROVE FlagHasTaker'
  BY <1>6 DEF ConsumeFlag, Sleep, FlagHasTaker
<1>7. ASSUME NEW w \in Workers, SpuriousWake(w) PROVE FlagHasTaker'
  <2>1. sleep'[w] = "woken"
    BY <1>7 DEF SpuriousWake, WakeTypeOK
  <2> QED
    BY <1>1, <2>1
<1>8. CASE UNCHANGED allVars
  BY <1>3, <1>8 DEF allVars, wakeVars
<1>9. ASSUME NEW p \in Producers, EnqueueStep(p) PROVE FlagHasTaker'
  BY <1>3, <1>9 DEF EnqueueStep
<1>10. ASSUME NEW w \in Workers, DequeueStep(w) \/ TaskDone(w) PROVE FlagHasTaker'
  BY <1>3, <1>10 DEF DequeueStep, TaskDone, wakeVars
<1> QED
  BY <1>4, <1>5, <1>6, <1>7, <1>8, <1>9, <1>10 DEF WakeNext, Producer, Worker

\* A raised flag always has a worker that will still look at it, whatever
\* the order of notifies, sleeps and spurious wake-ups (worker.rs:42-80).
THEOREM FlagTaken == WakeSpec => []FlagHasTaker
<1>1. WakeTypeOK /\ FlagHasTaker /\ [WakeNext]_allVars => FlagHasTaker'
  BY TakerNext
<1> QED
  BY <1>1, TakerInit, WakeTypeCorrect, PTL DEF WakeSpec

-----------------------------------------------------------------------------
LEMMA WakeInvInit == WakeInit => WakeInv
BY ThreadsAssumption
   DEF WakeInit, Init, WakeInv, ProducersOwe, NobodyClears, ScanCovers, Threads

LEMMA OweNext ==
    TypeOK /\ ProducersOwe /\ NobodyClears /\ [WakeNext]_allVars
        => ProducersOwe' /\ NobodyClears'
<1> SUFFICES ASSUME TypeOK, ProducersOwe, NobodyClears, [WakeNext]_allVars
             PROVE  ProducersOwe' /\ NobodyClears'
  OBVIOUS
<1> USE ThreadsAssumption DEF ProducersOwe, NobodyClears
<1>1. CASE UNCHANGED allVars
  BY <1>1 DEF allVars, vars, wakeVars
<1>2. ASSUME NEW p \in Producers, EnqueueStep(p) PROVE ProducersOwe' /\ NobodyClears'
  BY <1>2, ProducerMoves DEF EnqueueStep, Threads
<1>3. ASSUME NEW p \in Producers, NotifyOne(p) \/ NotifyAll(p)
      PROVE  ProducersOwe' /\ NobodyClears'
  BY <1>3 DEF NotifyOne, NotifyAll, vars
<1>4. ASSUME NEW w \in Workers, DequeueStep(w) \/ TaskDone(w) \/ ConsumeFlag(w)
      PROVE  ProducersOwe' /\ NobodyClears'
  <2>1. (StartDequeue(w) \/ Dequeue(w) \/ Return(w)) /\ owes' = owes
    BY <1>4 DEF DequeueStep, TaskDone, ConsumeFlag, wakeVars
  <2> QED
    BY <2>1, WorkerMoves DEF Threads
<1>5. ASSUME NEW w \in Workers, Sleep(w) \/ SpuriousWake(w)
      PROVE  ProducersOwe' /\ NobodyClears'
  BY <1>5 DEF Sleep, SpuriousWake, vars
<1> QED
  BY <1>1, <1>2, <1>3, <1>4, <1>5 DEF WakeNext, Producer, Worker

\* The heart of the argument: a worker that leaves the lane of a pending
\* task's priority leaves the task to another worker, or to a producer that
\* has not notified yet.
LEMMA CoverDequeue ==
    ASSUME TypeOK, HintCovered, WakeInv, NEW w \in Workers, DequeueStep(w)
    PROVE  ScanCovers'
<1> SUFFICES ASSUME NEW k \in Keys, IsPending(k)', owes' = {}, ~has_tasks'
             PROVE  \E v \in Workers : StillAhead(v, k)'
  BY DEF ScanCovers
<1>1. owes = {} /\ ~has_tasks
  BY DEF DequeueStep, wakeVars
<1>2. pc[w] \in {"idle", "scan", "remove", "sub"} /\ (StartDequeue(w) \/ Dequeue(w))
  BY DEF DequeueStep, StartDequeue, Dequeue, PopHint, LaneEmpty, RemoveHit, RemoveMiss, CountDown
<1>3. IsPending(k) /\ pending'[k] = pending[k] /\ pending[k].priority \in Lane
  <2>1. IsPending(k) /\ pending'[k] = pending[k]
    <3>1. CASE RemoveHit(w)
      BY <3>1, NoTaskAssumption DEF RemoveHit, TypeOK
    <3>2. CASE ~RemoveHit(w)
      BY <1>2, <3>2 DEF StartDequeue, Dequeue, PopHint, LaneEmpty, RemoveMiss, CountDown
    <3> QED
      BY <3>1, <3>2
  <2> QED
    BY <2>1 DEF TypeOK, Task
<1>4. PICK v \in Workers : StillAhead(v, k)
  BY <1>1, <1>3 DEF WakeInv, ScanCovers
<1>5. CASE v # w
  BY <1>2, <1>3, <1>4, <1>5, WorkerMoves DEF StillAhead, Threads
<1>6. CASE v = w /\ ~LaneEmpty(w)
  <2>1. pc[w] \in {"idle", "scan", "remove", "sub"} => w \in Threads /\ lane[w] \in Lane
    BY DEF TypeOK, Threads
  <2>2. CASE StartDequeue(w) \/ RemoveMiss(w)
    <3>1. pc'[w] = "scan" /\ lane'[w] = Highest
      BY <1>2, <2>1, <2>2 DEF StartDequeue, RemoveMiss, TypeOK
    <3> QED
      BY <1>3, <3>1 DEF StillAhead, Lane, Highest
  <2>3. CASE PopHint(w) \/ RemoveHit(w) \/ CountDown(w)
    <3>1. pc'[w] \in {"remove", "sub", "got"}
      BY <1>2, <2>1, <2>3 DEF PopHint, RemoveHit, CountDown, TypeOK
    <3> QED
      BY <3>1 DEF StillAhead
  <2> QED
    BY <1>2, <1>6, <2>2, <2>3 DEF Dequeue
<1>7. CASE v = w /\ LaneEmpty(w)
  <2>1. pc[w] = "scan" /\ lanes[lane[w]] = <<>> /\ lane[w] >= pending[k].priority
    BY <1>4, <1>7 DEF LaneEmpty, StillAhead
  <2>2. lane[w] \in Lane /\ w \in Threads
    BY DEF TypeOK, Threads
  <2>3. CASE lane[w] = pending[k].priority
    <3>1. ~InLane(k, pending[k].priority)
      BY <2>1, <2>3 DEF InLane
    <3>2. ~HintOnTheWay(k)
      BY <1>1 DEF HintOnTheWay, WakeInv, ProducersOwe
    <3>3. ~BeingCleared
      BY DEF BeingCleared, WakeInv, NobodyClears
    <3>4. PICK u \in Workers : pc[u] = "remove" /\ hint[u] = k
      BY <1>3, <3>1, <3>2, <3>3 DEF HintCovered, HintTaken
    <3>5. u # w /\ pc'[u] = "remove"
      BY <1>2, <2>1, <3>4, WorkerMoves DEF Threads
    <3> QED
      BY <3>5 DEF StillAhead
  <2>4. CASE lane[w] # pending[k].priority
    <3>1. lane[w] # Lowest /\ lane[w] - 1 >= pending[k].priority
      BY <1>3, <2>1, <2>2, <2>4 DEF Lane, Lowest
    <3>2. pc'[w] = "scan" /\ lane'[w] = lane[w] - 1
      BY <1>7, <2>1, <2>2, <3>1 DEF LaneEmpty, TypeOK
    <3> QED
      BY <1>3, <3>1, <3>2 DEF StillAhead
  <2> QED
    BY <2>3, <2>4
<1> QED
  BY <1>5, <1>6, <1>7

LEMMA CoverNext ==
    TypeOK /\ HintCovered /\ WakeInv /\ [WakeNext]_allVars => ScanCovers'
<1> SUFFICES ASSUME TypeOK, HintCovered, WakeInv, [WakeNext]_allVars PROVE ScanCovers'
  OBVIOUS
<1>0. ScanCovers
  BY DEF WakeInv
<1>1. CASE UNCHANGED allVars
  BY <1>0, <1>1 DEF allVars, vars, wakeVars, ScanCovers, StillAhead
<1>2. ASSUME NEW p \in Producers, EnqueueStep(p) PROVE ScanCovers'
  <2>1. CASE pc[p] = "idle" /\ pc'[p] = "idle"
    \* The call was rejected.
    <3>1. UNCHANGED <<pending, lane, pc, has_tasks, owes>>
      <4>0. EnqueueDedup(p) \/ EnqueueOrBump(p)
        BY <1>2, <2>1 DEF EnqueueStep, Enqueue, UpsertVacant, CountUp, PushNewHint, UpsertOccupied
      <4>1. PICK t \in Tasks, r \in BOOLEAN : Call(p, t, r)
        BY <4>0 DEF EnqueueDedup, EnqueueOrBump, DedupRejects, BumpRejects
      <4>2. r
        BY <2>1, <4>1 DEF Call, TypeOK, Threads
      <4>3. UNCHANGED <<pending, lane, pc>>
        BY <4>1, <4>2 DEF Call
      <4> QED
        BY <1>2, <2>1, <4>3 DEF EnqueueStep
    <3> QED
      BY <1>0, <3>1 DEF ScanCovers, StillAhead
  <2>2. CASE ~(pc[p] = "idle" /\ pc'[p] = "idle")
    <3>1. p \in owes'
      BY <1>2, <2>2, ProducerMoves DEF EnqueueStep, WakeInv, ProducersOwe
    <3> QED
      BY <3>1 DEF ScanCovers
  <2> QED
    BY <2>1, <2>2
<1>3. ASSUME NEW p \in Producers, NotifyOne(p) \/ NotifyAll(p) PROVE ScanCovers'
  BY <1>3 DEF NotifyOne, NotifyAll, ScanCovers
<1>4. ASSUME NEW w \in Workers, TaskDone(w) \/ ConsumeFlag(w) PROVE ScanCovers'
  <2>1. pc'[w] = "idle"
    BY <1>4 DEF TaskDone, ConsumeFlag, Return, TypeOK, Threads
  <2> QED
    BY <2>1 DEF ScanCovers, StillAhead
<1>5. ASSUME NEW w \in Workers, Sleep(w) \/ SpuriousWake(w) PROVE ScanCovers'
  BY <1>0, <1>5 DEF Sleep, SpuriousWake, vars, ScanCovers, StillAhead
<1> QED
  BY <1>1, <1>2, <1>3, <1>4, <1>5, CoverDequeue DEF WakeNext, Producer, Worker

LEMMA WakeInvariant == WakeSpec => []WakeInv
<1>1. TypeOK /\ HintCovered /\ WakeInv /\ [WakeNext]_allVars => WakeInv'
  BY OweNext, CoverNext DEF WakeInv
<1> QED
  BY <1>1, WakeInvInit, SchedulerInvariants, PTL DEF WakeSpec

\* However the steps of producers and workers interleave, a pending task
\* that has been announced finds a worker running or the flag still up
\* (worker.rs:42-80, 122-124, 652-656).
THEOREM WakeUpKept == WakeSpec => []NoLostWakeup
<1>1. WakeInv => NoLostWakeup
  BY DEF WakeInv, ScanCovers, StillAhead, NoLostWakeup, AnyPending, Busy
<1> QED
  BY <1>1, WakeInvariant, PTL

\* The worker loop with its sleeping workers still serves the one pool of
\* TaskPool: nothing the wake protocol adds lets a task be handed out twice,
\* or under a generation or priority that was superseded (worker.rs:122-124,
\* scheduler.rs:1-5).  This is the safety part of PoolServed.
THEOREM WorkersServeOnePool == WakeSpec => Pool!Spec
BY SchedulerInside, ImplementsTaskPool, PTL

=============================================================================
