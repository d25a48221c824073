--------------------------- MODULE SchedulerProofs ---------------------------
(***************************************************************************)
(* Proofs about Scheduler, for every set of keys, tasks and threads: type  *)
(* correctness, no stranded task, and that the scheduler implements the    *)
(* pool of tasks with atomic operations.                                   *)
(***************************************************************************)
EXTENDS Scheduler, FiniteSetTheorems, TLAPS

\* What appending to a lane and taking its head do to the hints it holds.
LEMMA AppendHint ==
    ASSUME NEW S, NEW s \in Seq(S), NEW e \in S
    PROVE  /\ Append(s, e) \in Seq(S)
           /\ \E i \in 1..Len(Append(s, e)) : Append(s, e)[i] = e
           /\ \A i \in 1..Len(s) : i \in 1..Len(Append(s, e)) /\ Append(s, e)[i] = s[i]
<1>1. Append(s, e)[Len(s) + 1] = e /\ Len(Append(s, e)) = Len(s) + 1
  OBVIOUS
<1>2. Len(s) + 1 \in 1..Len(Append(s, e))
  BY <1>1
<1> QED
  BY <1>1, <1>2

LEMMA TailHint ==
    ASSUME NEW S, NEW s \in Seq(S), s # <<>>
    PROVE  /\ Tail(s) \in Seq(S)
           /\ Head(s) \in S
           /\ \A i \in 1..Len(s) : s[i] = Head(s) \/ \E j \in 1..Len(Tail(s)) : Tail(s)[j] = s[i]
<1>1. Len(Tail(s)) = Len(s) - 1 /\ Head(s) = s[1] /\ Len(s) \in Nat /\ Len(s) # 0
  OBVIOUS
<1>2. ASSUME NEW i \in 1..Len(s), i # 1
      PROVE  i - 1 \in 1..Len(Tail(s)) /\ Tail(s)[i - 1] = s[i]
  BY <1>1, <1>2
<1> QED
  BY <1>1, <1>2

-----------------------------------------------------------------------------
USE DEF Goto, IsPending

LEMMA TypeInit == Init => TypeOK
BY TasksAssumption, NoTaskAssumption, ModulusAssumption, BoundAssumption, ThreadsAssumption
   DEF Init, TypeOK, Threads, Highest, Lane

LEMMA MergeTyped ==
    ASSUME NEW a \in Task, NEW b \in Task
    PROVE  Merge(a, b) \in Task /\ Merge(a, b).key = b.key
BY DEF Merge, Task, Lane

LEMMA TypeEnqueue ==
    ASSUME TypeOK, NEW p \in Producers, Enqueue(p)
    PROVE  TypeOK'
<1> USE TasksAssumption, NoTaskAssumption, ModulusAssumption, BoundAssumption, ThreadsAssumption
<1>0. p \in Threads
  BY DEF Threads
<1>1. CASE \E t \in Tasks, r \in BOOLEAN : Call(p, t, r)
  <2> PICK t \in Tasks, r \in BOOLEAN : Call(p, t, r)
    BY <1>1
  <2>1. t \in Task
    OBVIOUS
  <2>2. CASE r
    BY <2>2 DEF Call, TypeOK
  <2>3. CASE ~r
    <3>1. pc' = [pc EXCEPT ![p] = "upsert"] /\ arg' = [arg EXCEPT ![p] = t]
      BY <2>3 DEF Call
    <3>2. enqueues' \in 0..MaxEnqueues
      BY DEF Call, TypeOK
    <3> QED
      BY <1>0, <2>1, <3>1, <3>2 DEF Call, TypeOK
  <2> QED
    BY <2>2, <2>3
<1>2. CASE UpsertVacant(p)
  <2>1. arg[p] \in Task /\ arg[p].key \in Keys
    BY <1>2 DEF UpsertVacant, TypeOK, Task
  <2> QED
    BY <1>0, <1>2, <2>1 DEF UpsertVacant, TypeOK
<1>3. CASE CountUp(p)
  <2>1. queued_count' \in 0..(CountModulus - 1)
    BY <1>3 DEF CountUp, TypeOK
  <2> QED
    BY <1>0, <1>3, <2>1 DEF CountUp, TypeOK
<1>4. CASE PushNewHint(p)
  <2>1. arg[p] \in Task /\ arg[p].key \in Keys /\ arg[p].priority \in Lane
    BY <1>4 DEF PushNewHint, TypeOK, Task
  <2>2. lanes' \in [Lane -> Seq(Keys)]
    BY <1>4, <2>1, AppendHint DEF PushNewHint, PushHint, TypeOK
  <2> QED
    BY <1>0, <1>4, <2>2 DEF PushNewHint, TypeOK
<1>5. CASE UpsertOccupied(p)
  <2>1. arg[p] \in Task /\ arg[p].key \in Keys
    BY <1>5 DEF UpsertOccupied, TypeOK, Task
  <2>2. pending[arg[p].key] \in Task
    BY <1>5, <2>1 DEF UpsertOccupied, TypeOK
  <2> DEFINE merged == Merge(pending[arg[p].key], arg[p])
  <2>3. merged \in Task /\ merged.key = arg[p].key /\ merged.priority \in Lane
    BY <2>1, <2>2, MergeTyped DEF Task
  <2>4. lanes' = [lanes EXCEPT ![merged.priority] = Append(@, arg[p].key)] \/ lanes' = lanes
    BY <1>5 DEF UpsertOccupied, PushHint
  <2>5. lanes' \in [Lane -> Seq(Keys)]
    <3>1. lanes \in [Lane -> Seq(Keys)]
      BY DEF TypeOK
    <3> HIDE DEF merged
    <3>2. Append(lanes[merged.priority], arg[p].key) \in Seq(Keys)
      BY <2>1, <2>3, <3>1, AppendHint
    <3> QED
      BY <2>3, <2>4, <3>1, <3>2
  <2>6. pending' = [pending EXCEPT ![arg[p].key] = merged]
    BY <1>5 DEF UpsertOccupied
  <2>7. pending' \in [Keys -> Task \union {NoTask}] /\ \A k \in Keys : IsPending(k)' => pending'[k].key = k
    BY <2>1, <2>3, <2>6 DEF TypeOK
  <2> HIDE DEF merged
  <2> QED
    BY <1>0, <1>5, <2>5, <2>7 DEF UpsertOccupied, TypeOK
<1> QED
  BY <1>1, <1>2, <1>3, <1>4, <1>5 DEF Enqueue, EnqueueDedup, EnqueueOrBump, DedupRejects, BumpRejects

LEMMA TypeWorker ==
    ASSUME TypeOK, NEW w \in Workers, StartDequeue(w) \/ Dequeue(w) \/ Return(w)
    PROVE  TypeOK'
<1> USE NoTaskAssumption, ModulusAssumption, ThreadsAssumption DEF Highest, Lowest
<1>0. w \in Threads /\ w \in Workers \union Clearers /\ w \notin Producers
  BY DEF Threads
<1>1. CASE StartDequeue(w)
  BY <1>0, <1>1 DEF StartDequeue, TypeOK, Lane
<1>2. CASE PopHint(w)
  <2>1. lane[w] \in Lane /\ lanes[lane[w]] \in Seq(Keys)
    BY <1>0 DEF TypeOK
  <2>2. Head(lanes[lane[w]]) \in Keys /\ lanes' \in [Lane -> Seq(Keys)]
    BY <1>2, <2>1, TailHint DEF PopHint, TypeOK
  <2> QED
    BY <1>0, <1>2, <2>2 DEF PopHint, TypeOK
<1>3. CASE LaneEmpty(w)
  <2>1. CASE lane[w] = Lowest
    <3>1. pc' = [pc EXCEPT ![w] = "none"] /\ lane' = [lane EXCEPT ![w] = Highest]
      BY <1>3, <2>1 DEF LaneEmpty
    <3> QED
      BY <1>0, <1>3, <3>1 DEF LaneEmpty, TypeOK, Lane
  <2>2. CASE lane[w] # Lowest
    <3>1. lane' = [lane EXCEPT ![w] = @ - 1] /\ UNCHANGED pc
      BY <1>3, <2>2 DEF LaneEmpty
    <3>2. lane[w] - 1 \in Lane
      BY <1>0, <2>2 DEF TypeOK, Lane
    <3> QED
      BY <1>0, <1>3, <3>1, <3>2 DEF LaneEmpty, TypeOK
  <2> QED
    BY <2>1, <2>2
<1>4. CASE RemoveHit(w)
  BY <1>0, <1>4 DEF RemoveHit, TypeOK, Lane
<1>5. CASE RemoveMiss(w)
  BY <1>0, <1>5 DEF RemoveMiss, TypeOK, Lane
<1>6. CASE CountDown(w)
  <2>1. queued_count' \in 0..(CountModulus - 1)
    BY <1>6 DEF CountDown, TypeOK
  <2> QED
    BY <1>0, <1>6, <2>1 DEF CountDown, TypeOK
<1>7. CASE Return(w)
  BY <1>0, <1>7 DEF Return, TypeOK
<1> QED
  BY <1>1, <1>2, <1>3, <1>4, <1>5, <1>6, <1>7 DEF Dequeue

LEMMA TypeClear ==
    ASSUME TypeOK, NEW c \in Clearers, ClearAll(c)
    PROVE  TypeOK'
<1> USE NoTaskAssumption, ModulusAssumption, ThreadsAssumption DEF Highest, Lowest
<1>0. c \in Threads /\ c \in Workers \union Clearers /\ c \notin Producers /\ c \notin Workers
  BY DEF Threads
<1>1. CASE StartClear(c)
  BY <1>0, <1>1 DEF StartClear, TypeOK, Lane
<1>2. CASE DrainOne(c)
  <2>1. lane[c] \in Lane /\ lanes[lane[c]] \in Seq(Keys)
    BY <1>0 DEF TypeOK
  <2>2. lanes' \in [Lane -> Seq(Keys)]
    BY <1>2, <2>1, TailHint DEF DrainOne, TypeOK
  <2> QED
    BY <1>2, <2>2 DEF DrainOne, TypeOK
<1>3. CASE DrainNext(c)
  <2>1. CASE lane[c] = Lowest
    <3>1. pc' = [pc EXCEPT ![c] = "clear"] /\ lane' = [lane EXCEPT ![c] = Highest]
      BY <1>3, <2>1 DEF DrainNext
    <3> QED
      BY <1>0, <1>3, <3>1 DEF DrainNext, TypeOK, Lane
  <2>2. CASE lane[c] # Lowest
    <3>1. lane' = [lane EXCEPT ![c] = @ - 1] /\ UNCHANGED pc
      BY <1>3, <2>2 DEF DrainNext
    <3>2. lane[c] - 1 \in Lane
      BY <1>0, <2>2 DEF TypeOK, Lane
    <3> QED
      BY <1>0, <1>3, <3>1, <3>2 DEF DrainNext, TypeOK
  <2> QED
    BY <2>1, <2>2
<1>4. CASE ClearPending(c)
  BY <1>0, <1>4 DEF ClearPending, TypeOK
<1>5. CASE ZeroCount(c)
  BY <1>0, <1>5 DEF ZeroCount, TypeOK
<1> QED
  BY <1>1, <1>2, <1>3, <1>4, <1>5 DEF ClearAll

LEMMA TypeNext == TypeOK /\ [Next]_vars => TypeOK'
<1> SUFFICES ASSUME TypeOK, [Next]_vars PROVE TypeOK'
  OBVIOUS
<1>1. CASE UNCHANGED vars
  BY <1>1 DEF vars, TypeOK
<1> QED
  BY <1>1, TypeEnqueue, TypeWorker, TypeClear DEF Next

\* Type correctness of every reachable state (scheduler.rs:31-40): the map
\* files each task under its own key, the counter stays inside its width.
THEOREM TypeCorrect == Spec => []TypeOK
BY TypeInit, TypeNext, PTL DEF Spec

-----------------------------------------------------------------------------
LEMMA CoveredInit == Init => HintCovered
BY DEF Init, HintCovered

\* Appending a hint uncovers no key and covers the appended one.
LEMMA PushCovers ==
    ASSUME TypeOK, NEW k \in Keys, NEW l \in Lane, PushHint(k, l)
    PROVE  /\ InLane(k, l)'
           /\ \A j \in Keys, m \in Lane : InLane(j, m) => InLane(j, m)'
<1>1. lanes[l] \in Seq(Keys) /\ lanes'[l] = Append(lanes[l], k)
  BY DEF TypeOK, PushHint
<1>2. \A m \in Lane : m # l => lanes'[m] = lanes[m]
  BY DEF TypeOK, PushHint
<1>3. InLane(k, l)'
  BY <1>1, AppendHint DEF InLane
<1>4. ASSUME NEW j \in Keys, NEW m \in Lane, InLane(j, m) PROVE InLane(j, m)'
  <2>1. CASE m # l
    BY <1>2, <1>4, <2>1 DEF InLane
  <2>2. CASE m = l
    <3>1. PICK i \in 1..Len(lanes[l]) : lanes[l][i] = j
      BY <1>4, <2>2 DEF InLane
    <3>2. i \in 1..Len(lanes'[l]) /\ lanes'[l][i] = j
      BY <1>1, <3>1, AppendHint
    <3> QED
      BY <2>2, <3>2 DEF InLane
  <2> QED
    BY <2>1, <2>2
<1> QED
  BY <1>3, <1>4

\* Taking the head of a lane uncovers at most the key it held.
LEMMA PopUncovers ==
    ASSUME TypeOK, NEW l \in Lane, lanes[l] # <<>>,
           lanes' = [lanes EXCEPT ![l] = Tail(@)]
    PROVE  \A j \in Keys, m \in Lane : j # Head(lanes[l]) /\ InLane(j, m) => InLane(j, m)'
<1>1. lanes[l] \in Seq(Keys) /\ lanes'[l] = Tail(lanes[l])
  BY DEF TypeOK
<1>2. \A m \in Lane : m # l => lanes'[m] = lanes[m]
  BY DEF TypeOK
<1>3. SUFFICES ASSUME NEW j \in Keys, NEW m \in Lane, j # Head(lanes[l]), InLane(j, m)
               PROVE  InLane(j, m)'
  OBVIOUS
<1>4. CASE m # l
  BY <1>2, <1>3, <1>4 DEF InLane
<1>5. CASE m = l
  <2>1. PICK i \in 1..Len(lanes[l]) : lanes[l][i] = j
    BY <1>3, <1>5 DEF InLane
  <2>2. \E h \in 1..Len(Tail(lanes[l])) : Tail(lanes[l])[h] = j
    BY <1>1, <1>3, <2>1, TailHint
  <2> QED
    BY <1>1, <1>5, <2>2 DEF InLane
<1> QED
  BY <1>4, <1>5

LEMMA CoveredEnqueue ==
    ASSUME TypeOK, HintCovered, NEW p \in Producers, Enqueue(p)
    PROVE  HintCovered'
<1> USE TasksAssumption, NoTaskAssumption, ThreadsAssumption
<1>0. p \in Threads /\ \A w \in Workers \union Clearers : w \in Threads /\ w # p
  BY DEF Threads
<1>1. CASE \E t \in Tasks, r \in BOOLEAN : Call(p, t, r)
  <2> PICK t \in Tasks, r \in BOOLEAN : Call(p, t, r)
    BY <1>1
  <2>1. UNCHANGED <<pending, lanes, hint>> /\ pc[p] = "idle"
    BY DEF Call
  <2>2. \A q \in Threads : q # p => pc'[q] = pc[q]
    BY DEF Call, TypeOK
  <2>3. \A q \in Producers : q # p => arg'[q] = arg[q]
    BY DEF Call, TypeOK
  <2> QED
    BY <1>0, <2>1, <2>2, <2>3
    DEF HintCovered, HintOnTheWay, HintTaken, BeingCleared, InLane, Threads
<1>2. CASE UpsertVacant(p)
  <2>1. /\ UNCHANGED <<lanes, hint, arg>>
        /\ pending' = [pending EXCEPT ![arg[p].key] = arg[p]]
        /\ pc[p] = "upsert" /\ pc'[p] = "count"
        /\ \A q \in Threads : q # p => pc'[q] = pc[q]
        /\ arg[p] \in Task /\ arg[p].key \in Keys
    BY <1>0, <1>2 DEF UpsertVacant, TypeOK, Task
  <2>2. SUFFICES ASSUME NEW k \in Keys, IsPending(k)'
                 PROVE  InLane(k, pending[k].priority)' \/ HintOnTheWay(k)'
                        \/ HintTaken(k)' \/ BeingCleared'
    BY DEF HintCovered
  <2>3. CASE k = arg[p].key
    <3>1. pending'[k] = arg[p]
      BY <2>1, <2>3 DEF TypeOK
    <3> QED
      BY <2>1, <2>3, <3>1 DEF HintOnTheWay
  <2>4. CASE k # arg[p].key
    <3>1. pending'[k] = pending[k]
      BY <2>1, <2>4 DEF TypeOK
    <3> QED
      BY <1>0, <2>1, <2>2, <3>1
      DEF HintCovered, HintOnTheWay, HintTaken, BeingCleared, InLane, Threads
  <2> QED
    BY <2>3, <2>4
<1>3. CASE CountUp(p)
  <2>1. /\ UNCHANGED <<pending, lanes, hint, arg>>
        /\ pc[p] = "count" /\ pc'[p] = "hint"
        /\ \A q \in Threads : q # p => pc'[q] = pc[q]
    BY <1>0, <1>3 DEF CountUp, TypeOK
  <2> QED
    BY <1>0, <2>1 DEF HintCovered, HintOnTheWay, HintTaken, BeingCleared, InLane, Threads
<1>4. CASE PushNewHint(p)
  <2>1. /\ UNCHANGED <<pending, hint>>
        /\ PushHint(arg[p].key, arg[p].priority)
        /\ \A q \in Threads : q # p => pc'[q] = pc[q]
        /\ \A q \in Producers : q # p => arg'[q] = arg[q]
        /\ arg[p].key \in Keys /\ arg[p].priority \in Lane
        /\ \A k \in Keys : IsPending(k) => pending[k].priority \in Lane
    BY <1>0, <1>4 DEF PushNewHint, TypeOK, Task
  <2>2. PICK k \in Keys, l \in Lane : k = arg[p].key /\ l = arg[p].priority
    BY <2>1
  <2>3. /\ InLane(k, l)'
        /\ \A j \in Keys, m \in Lane : InLane(j, m) => InLane(j, m)'
    BY <2>1, <2>2, PushCovers
  <2> QED
    BY <1>0, <2>1, <2>2, <2>3 DEF HintCovered, HintOnTheWay, HintTaken, BeingCleared, InLane, Threads
<1>5. CASE UpsertOccupied(p)
  <2> DEFINE t == arg[p]
             prev == pending[t.key]
             merged == Merge(prev, t)
  <2>1. /\ t \in Task /\ t.key \in Keys /\ prev \in Task
        /\ pending' = [pending EXCEPT ![t.key] = merged]
        /\ UNCHANGED hint
        /\ pc[p] = "upsert" /\ pc'[p] = "idle"
        /\ \A q \in Threads : q # p => pc'[q] = pc[q]
        /\ \A q \in Producers : q # p => arg'[q] = arg[q]
    BY <1>0, <1>5 DEF UpsertOccupied, TypeOK, Task
  <2>2. merged \in Task /\ merged.priority \in Lane
        /\ pending'[t.key] = merged
        /\ \A k \in Keys : k # t.key => pending'[k] = pending[k]
    <3>1. merged \in Task
      BY <2>1, MergeTyped
    <3> QED
      BY <2>1, <3>1 DEF TypeOK, Task
  <2>3. CASE t.priority > prev.priority \/ t.generation > prev.generation
    <3>1. PushHint(t.key, merged.priority)
      BY <1>5, <2>3 DEF UpsertOccupied
    <3>2. PICK k \in Keys, l \in Lane : k = t.key /\ l = merged.priority
      BY <2>1, <2>2
    <3>3. /\ InLane(k, l)'
          /\ \A j \in Keys, m \in Lane : InLane(j, m) => InLane(j, m)'
      BY <3>1, <3>2, PushCovers
    <3>4. \A j \in Keys : IsPending(j) => pending[j].priority \in Lane
      BY DEF TypeOK, Task
    <3>5. pending'[k].priority = l /\ \A j \in Keys : j # k => pending'[j] = pending[j]
      BY <2>2, <3>2
    <3>6. UNCHANGED hint /\ \A q \in Threads : q # p => pc'[q] = pc[q]
      BY <2>1
    <3>7. ASSUME NEW j \in Keys, j # k, IsPending(j)'
          PROVE  \/ InLane(j, pending[j].priority)' \/ HintOnTheWay(j)'
                 \/ HintTaken(j)' \/ BeingCleared'
      <4>1. IsPending(j) /\ pending'[j] = pending[j] /\ pending[j].priority \in Lane
        BY <3>4, <3>5, <3>7
      <4>2. CASE InLane(j, pending[j].priority)
        BY <3>3, <4>1, <4>2 DEF InLane
      <4>3. CASE HintOnTheWay(j)
        BY <1>0, <2>1, <4>1, <4>3 DEF HintOnTheWay, Threads
      <4>4. CASE HintTaken(j)
        BY <1>0, <3>6, <4>4 DEF HintTaken
      <4>5. CASE BeingCleared
        BY <3>6, <4>5, ThreadsAssumption DEF BeingCleared, Threads
      <4> QED
        BY <4>1, <4>2, <4>3, <4>4, <4>5 DEF HintCovered
    <3>8. InLane(k, pending[k].priority)'
      BY <3>3, <3>5 DEF InLane
    <3> QED
      BY <3>7, <3>8 DEF HintCovered
  <2>4. CASE ~(t.priority > prev.priority \/ t.generation > prev.generation)
    <3>1. UNCHANGED lanes
      BY <1>5, <2>4 DEF UpsertOccupied
    <3>2. merged.priority = prev.priority
      BY <2>4 DEF Merge
    <3>3. \A k \in Keys : IsPending(k)' => IsPending(k) /\ pending'[k].priority = pending[k].priority
      BY <1>5, <2>1, <2>2, <3>2 DEF UpsertOccupied
    <3> QED
      BY <1>0, <2>1, <3>1, <3>3
      DEF HintCovered, HintOnTheWay, HintTaken, BeingCleared, InLane, Threads
  <2> QED
    BY <2>3, <2>4
<1> QED
  BY <1>1, <1>2, <1>3, <1>4, <1>5 DEF Enqueue, EnqueueDedup, EnqueueOrBump, DedupRejects, BumpRejects

LEMMA CoveredWorker ==
    ASSUME TypeOK, HintCovered, NEW w \in Workers, StartDequeue(w) \/ Dequeue(w) \/ Return(w)
    PROVE  HintCovered'
<1> USE NoTaskAssumption, ThreadsAssumption
<1>0. w \in Threads /\ \A q \in Producers \union Clearers : q \in Threads /\ q # w
  BY DEF Threads
<1>1. CASE PopHint(w)
  <2>1. /\ lane[w] \in Lane /\ lanes[lane[w]] # <<>>
        /\ lanes' = [lanes EXCEPT ![lane[w]] = Tail(@)]
        /\ UNCHANGED <<pending, arg>>
        /\ pc[w] = "scan" /\ pc'[w] = "remove" /\ hint'[w] = Head(lanes[lane[w]])
        /\ \A q \in Threads : q # w => pc'[q] = pc[q]
        /\ \A q \in Workers : q # w => hint'[q] = hint[q]
        /\ \A k \in Keys : IsPending(k) => pending[k].priority \in Lane
    BY <1>0, <1>1 DEF PopHint, TypeOK, Task
  <2>2. \A j \in Keys, m \in Lane : j # Head(lanes[lane[w]]) /\ InLane(j, m) => InLane(j, m)'
    BY <2>1, PopUncovers
  <2> QED
    BY <1>0, <2>1, <2>2 DEF HintCovered, HintOnTheWay, HintTaken, BeingCleared, Threads
<1>2. CASE RemoveHit(w)
  <2>1. /\ UNCHANGED <<lanes, arg>>
        /\ hint[w] \in Keys /\ pending' = [pending EXCEPT ![hint[w]] = NoTask]
        /\ \A q \in Threads : q # w => pc'[q] = pc[q]
        /\ \A q \in Workers : q # w => hint'[q] = hint[q]
    BY <1>0, <1>2 DEF RemoveHit, TypeOK
  <2>2. \A k \in Keys : IsPending(k)' => k # hint[w] /\ pending'[k] = pending[k]
    BY <2>1 DEF TypeOK
  <2> QED
    BY <1>0, <2>1, <2>2 DEF HintCovered, HintOnTheWay, HintTaken, BeingCleared, InLane, Threads
<1>3. CASE RemoveMiss(w)
  <2>1. /\ UNCHANGED <<lanes, arg, pending>>
        /\ ~IsPending(hint[w])
        /\ \A q \in Threads : q # w => pc'[q] = pc[q]
        /\ \A q \in Workers : q # w => hint'[q] = hint[q]
    BY <1>0, <1>3 DEF RemoveMiss, TypeOK
  <2> QED
    BY <1>0, <2>1 DEF HintCovered, HintOnTheWay, HintTaken, BeingCleared, InLane, Threads
<1>4. CASE StartDequeue(w) \/ LaneEmpty(w) \/ CountDown(w) \/ Return(w)
  <2>1. /\ UNCHANGED <<lanes, arg, pending, hint>>
        /\ pc[w] # "remove"
        /\ \A q \in Threads : q # w => pc'[q] = pc[q]
    BY <1>0, <1>4 DEF StartDequeue, LaneEmpty, CountDown, Return, TypeOK
  <2> QED
    BY <1>0, <2>1 DEF HintCovered, HintOnTheWay, HintTaken, BeingCleared, InLane, Threads
<1> QED
  BY <1>1, <1>2, <1>3, <1>4 DEF Dequeue

LEMMA CoveredClear ==
    ASSUME TypeOK, HintCovered, NEW c \in Clearers, ClearAll(c)
    PROVE  HintCovered'
<1> USE ThreadsAssumption
<1>0. c \in Threads /\ \A q \in Producers \union Workers : q \in Threads /\ q # c
  BY DEF Threads
<1>1. CASE StartClear(c)
  <2>1. pc'[c] = "drain"
    BY <1>0, <1>1 DEF StartClear, TypeOK
  <2> QED
    BY <2>1 DEF HintCovered, BeingCleared
<1>2. CASE DrainOne(c) \/ DrainNext(c)
  <2>1. pc'[c] \in {"drain", "clear"}
    BY <1>0, <1>2 DEF DrainOne, DrainNext, TypeOK
  <2> QED
    BY <2>1 DEF HintCovered, BeingCleared
<1>3. CASE ClearPending(c)
  BY <1>3 DEF ClearPending, HintCovered
<1>4. CASE ZeroCount(c)
  <2>1. /\ UNCHANGED <<lanes, arg, pending, hint>>
        /\ pc[c] = "zero"
        /\ \A q \in Threads : q # c => pc'[q] = pc[q]
    BY <1>0, <1>4 DEF ZeroCount, TypeOK
  <2> QED
    BY <1>0, <2>1 DEF HintCovered, HintOnTheWay, HintTaken, BeingCleared, InLane, Threads
<1> QED
  BY <1>1, <1>2, <1>3, <1>4 DEF ClearAll

LEMMA CoveredNext == TypeOK /\ HintCovered /\ [Next]_vars => HintCovered'
<1> SUFFICES ASSUME TypeOK, HintCovered, [Next]_vars PROVE HintCovered'
  OBVIOUS
<1>1. CASE UNCHANGED vars
  BY <1>1 DEF vars, HintCovered, HintOnTheWay, HintTaken, BeingCleared, InLane
<1> QED
  BY <1>1, CoveredEnqueue, CoveredWorker, CoveredClear DEF Next

\* No interleaving of upsert, dequeue and clear_all strands a pending task
\* without a hint, for any number of producers and workers
\* (scheduler.rs:110-175).
THEOREM NoStrandedTask == Spec => []HintCovered
BY CoveredInit, CoveredNext, TypeCorrect, PTL DEF Spec

-----------------------------------------------------------------------------
(***************************************************************************)
(* Merged tasks keep generations that belong together.                     *)
(***************************************************************************)
LEMMA TogetherNext ==
    ASSUME TypeOK, GenerationsBelongTogether, [Next]_vars
    PROVE  GenerationsBelongTogether'
<1> USE TasksAssumption, NoTaskAssumption
<1>1. CASE UNCHANGED pending
  BY <1>1 DEF GenerationsBelongTogether
<1>2. CASE \E j \in Keys : pending' = [pending EXCEPT ![j] = NoTask]
  BY <1>2 DEF GenerationsBelongTogether, TypeOK
<1>3. CASE \E c \in Clearers : ClearPending(c)
  BY <1>3 DEF GenerationsBelongTogether, ClearPending
<1>4. ASSUME NEW p \in Producers, UpsertVacant(p) PROVE GenerationsBelongTogether'
  <2>1. arg[p] \in Tasks /\ arg[p].key \in Keys
    BY <1>4 DEF UpsertVacant, TypeOK, Task
  <2> QED
    BY <1>4, <2>1 DEF UpsertVacant, GenerationsBelongTogether, TypeOK
<1>5. ASSUME NEW p \in Producers, UpsertOccupied(p) PROVE GenerationsBelongTogether'
  <2> DEFINE t == arg[p]
             prev == pending[t.key]
  <2>1. t \in Tasks /\ t.key \in Keys /\ prev # NoTask
    BY <1>5 DEF UpsertOccupied, TypeOK, Task
  <2>2. pending' = [pending EXCEPT ![t.key] = Merge(prev, t)]
    BY <1>5 DEF UpsertOccupied
  <2>3. PICK u \in Tasks : /\ u.key = t.key
                           /\ u.generation = prev.generation
                           /\ u.layer_generation = prev.layer_generation
    BY <2>1 DEF GenerationsBelongTogether
  <2> DEFINE merged == Merge(prev, t)
  <2>4. \E v \in {t, u} : /\ v.key = t.key
                          /\ v.generation = merged.generation
                          /\ v.layer_generation = merged.layer_generation
    BY <2>3 DEF Merge
  <2> HIDE DEF merged, t, prev
  <2>5. ASSUME NEW k \in Keys, IsPending(k)'
        PROVE  \E v \in Tasks : /\ v.key = k
                                /\ v.generation = pending'[k].generation
                                /\ v.layer_generation = pending'[k].layer_generation
    <3>1. CASE k = t.key
      <4>1. pending'[k] = merged
        BY <2>1, <2>2, <3>1 DEF TypeOK, merged
      <4> QED
        BY <2>1, <2>3, <2>4, <3>1, <4>1
    <3>2. CASE k # t.key
      <4>1. pending'[k] = pending[k]
        BY <2>1, <2>2, <3>2 DEF TypeOK
      <4> QED
        BY <2>5, <4>1 DEF GenerationsBelongTogether
    <3> QED
      BY <3>1, <3>2
  <2> QED
    BY <2>5 DEF GenerationsBelongTogether
<1>6. ASSUME NEW w \in Workers, RemoveHit(w) PROVE \E j \in Keys : pending' = [pending EXCEPT ![j] = NoTask]
  BY <1>6 DEF RemoveHit, TypeOK
<1> QED
  BY <1>1, <1>2, <1>3, <1>4, <1>5, <1>6
  DEF Next, vars, Enqueue, EnqueueDedup, EnqueueOrBump, Call, CountUp, PushNewHint,
      Dequeue, StartDequeue, PopHint, LaneEmpty, RemoveMiss, CountDown, Return,
      ClearAll, StartClear, DrainOne, DrainNext, ZeroCount

\* Whatever interleaving of requests merges into one pending task, its
\* document and layer generations were submitted together (scheduler.rs:123-132).
THEOREM MergeKeepsPairs == Spec => []GenerationsBelongTogether
<1>1. Init => GenerationsBelongTogether
  BY DEF Init, GenerationsBelongTogether
<1> QED
  BY <1>1, TogetherNext, TypeCorrect, PTL DEF Spec

-----------------------------------------------------------------------------
(***************************************************************************)
(* The counter.  It is only kept modulo its width, so the argument is      *)
(* about remainders and about the sizes of three sets of threads and keys. *)
(***************************************************************************)
LEMMA Remainder ==
    ASSUME NEW q \in Int, NEW m \in Nat \ {0}, NEW r \in 0..(m - 1)
    PROVE  (m * q + r) % m = r
OBVIOUS

LEMMA UpModulo ==
    ASSUME NEW x \in Int, NEW m \in Nat \ {0}
    PROVE  ((x % m) + 1) % m = (x + 1) % m
<1> DEFINE r == x % m
           d == x \div m
<1>1. r \in 0..(m - 1) /\ d \in Int /\ x = m * d + r
  OBVIOUS
<1> HIDE DEF r, d
<1>2. CASE r + 1 < m
  <2>1. r + 1 \in 0..(m - 1) /\ x + 1 = m * d + (r + 1) /\ r + 1 = m * 0 + (r + 1)
    BY <1>1, <1>2
  <2>2. (x + 1) % m = r + 1 /\ (r + 1) % m = r + 1
    BY <1>1, <2>1, Remainder
  <2> QED
    BY <2>2 DEF r
<1>3. CASE r + 1 = m
  <2>1. 0 \in 0..(m - 1) /\ x + 1 = m * (d + 1) + 0 /\ r + 1 = m * 1 + 0 /\ d + 1 \in Int
    BY <1>1, <1>3
  <2>2. (x + 1) % m = 0 /\ (r + 1) % m = 0
    BY <1>1, <2>1, Remainder
  <2> QED
    BY <2>2 DEF r
<1> QED
  BY <1>1, <1>2, <1>3

LEMMA DownModulo ==
    ASSUME NEW x \in Int, NEW m \in Nat \ {0}
    PROVE  ((x % m) - 1) % m = (x - 1) % m
<1> DEFINE r == x % m
           d == x \div m
<1>1. r \in 0..(m - 1) /\ d \in Int /\ x = m * d + r
  OBVIOUS
<1> HIDE DEF r, d
<1>2. CASE r # 0
  <2>1. r - 1 \in 0..(m - 1) /\ x - 1 = m * d + (r - 1) /\ r - 1 = m * 0 + (r - 1)
    BY <1>1, <1>2
  <2>2. (x - 1) % m = r - 1 /\ (r - 1) % m = r - 1
    BY <1>1, <2>1, Remainder
  <2> QED
    BY <2>2 DEF r
<1>3. CASE r = 0
  <2>1. /\ m - 1 \in 0..(m - 1) /\ x - 1 = m * (d - 1) + (m - 1)
        /\ r - 1 = m * (-1) + (m - 1) /\ d - 1 \in Int /\ -1 \in Int
    BY <1>1, <1>3
  <2>2. (x - 1) % m = m - 1 /\ (r - 1) % m = m - 1
    BY <1>1, <2>1, Remainder
  <2> QED
    BY <2>2 DEF r
<1> QED
  BY <1>1, <1>2, <1>3

PendingKeys == {k \in Keys : IsPending(k)}
Uncounted == {p \in Producers : pc[p] = "count"}
Taken == {w \in Workers : pc[w] = "sub"}

\* Finitely many keys and threads, and no clear_all: it zeroes the counter
\* whatever is pending by then.
CountedFinitely ==
    /\ IsFiniteSet(Keys) /\ IsFiniteSet(Producers) /\ IsFiniteSet(Workers)
    /\ Clearers = {}

LEMMA CountAs ==
    CountAccounts <=>
        queued_count = (Cardinality(PendingKeys) + Cardinality(Taken) - Cardinality(Uncounted))
                           % CountModulus
BY DEF CountAccounts, PendingKeys, Uncounted, Taken

LEMMA CountSizes ==
    ASSUME CountedFinitely
    PROVE  /\ IsFiniteSet(PendingKeys) /\ IsFiniteSet(Uncounted) /\ IsFiniteSet(Taken)
           /\ Cardinality(PendingKeys) \in Nat
           /\ Cardinality(Uncounted) \in Nat
           /\ Cardinality(Taken) \in Nat
<1>1. PendingKeys \in SUBSET Keys /\ Uncounted \in SUBSET Producers /\ Taken \in SUBSET Workers
  BY DEF PendingKeys, Uncounted, Taken
<1>2. IsFiniteSet(PendingKeys) /\ IsFiniteSet(Uncounted) /\ IsFiniteSet(Taken)
  BY <1>1, FS_Subset DEF CountedFinitely
<1> QED
  BY <1>2, FS_CardinalityType

Balance == Cardinality(PendingKeys) + Cardinality(Taken) - Cardinality(Uncounted)

\* A step that leaves the three sets alone leaves the count alone.
LEMMA CountUnmoved ==
    ASSUME CountAccounts, UNCHANGED <<queued_count, PendingKeys, Taken, Uncounted>>
    PROVE  CountAccounts'
BY CountAs DEF CountAccounts, PendingKeys, Uncounted, Taken

LEMMA CountEnqueue ==
    ASSUME TypeOK, CountAccounts, CountedFinitely, NEW p \in Producers, Enqueue(p)
    PROVE  CountAccounts'
<1> USE TasksAssumption, NoTaskAssumption, ModulusAssumption, ThreadsAssumption
<1>0. p \in Threads /\ p \notin Workers /\ \A t \in Producers \union Workers : t \in Threads
  BY DEF Threads
<1>1. CASE \E t \in Tasks, r \in BOOLEAN : Call(p, t, r)
  <2> PICK t \in Tasks, r \in BOOLEAN : Call(p, t, r)
    BY <1>1
  <2>1. \/ pc' = pc
        \/ pc[p] = "idle" /\ pc' = [pc EXCEPT ![p] = "upsert"]
    BY DEF Call
  <2>2. UNCHANGED <<queued_count, pending>>
    BY DEF Call
  <2>3. UNCHANGED <<PendingKeys, Taken, Uncounted>>
    BY <1>0, <2>1, <2>2 DEF PendingKeys, Taken, Uncounted, TypeOK
  <2> QED
    BY <2>2, <2>3, CountUnmoved
<1>2. CASE UpsertVacant(p)
  <2> DEFINE k == arg[p].key
  <2>1. k \in Keys /\ arg[p] # NoTask /\ arg[p] \in Task
    BY <1>2 DEF UpsertVacant, TypeOK, Task
  <2>2. k \notin PendingKeys /\ PendingKeys' = PendingKeys \union {k}
    BY <1>2, <2>1 DEF UpsertVacant, PendingKeys, TypeOK
  <2>3. p \notin Uncounted /\ Uncounted' = Uncounted \union {p} /\ Taken' = Taken
    BY <1>0, <1>2 DEF UpsertVacant, Uncounted, Taken, TypeOK
  <2>4. queued_count' = queued_count
    BY <1>2 DEF UpsertVacant
  <2>5. /\ Cardinality(PendingKeys \union {k}) = Cardinality(PendingKeys) + 1
        /\ Cardinality(Uncounted \union {p}) = Cardinality(Uncounted) + 1
    BY <2>2, <2>3, CountSizes, FS_AddElement
  <2> HIDE DEF k
  <2>6. queued_count' = (Cardinality(PendingKeys') + Cardinality(Taken') - Cardinality(Uncounted'))
                            % CountModulus
    <3>1. Cardinality(PendingKeys') + Cardinality(Taken') - Cardinality(Uncounted') = Balance
      BY <2>2, <2>3, <2>5, CountSizes DEF Balance
    <3> QED
      BY <2>4, <3>1, CountAs DEF Balance
  <2> QED
    BY <2>6 DEF CountAccounts, PendingKeys, Uncounted, Taken
<1>3. CASE CountUp(p)
  <2>1. PendingKeys' = PendingKeys
    BY <1>3 DEF CountUp, PendingKeys
  <2>2. p \in Uncounted /\ Uncounted' = Uncounted \ {p} /\ Taken' = Taken
    BY <1>0, <1>3 DEF CountUp, Uncounted, Taken, TypeOK
  <2>3. queued_count' = (queued_count + 1) % CountModulus
    BY <1>3 DEF CountUp
  <2>4. Cardinality(Uncounted \ {p}) = Cardinality(Uncounted) - 1
    BY <2>2, CountSizes, FS_RemoveElement
  <2>5. queued_count' = (Cardinality(PendingKeys') + Cardinality(Taken') - Cardinality(Uncounted'))
                            % CountModulus
    <3>1. Cardinality(PendingKeys') + Cardinality(Taken') - Cardinality(Uncounted') = Balance + 1
          /\ Balance \in Int
      BY <2>1, <2>2, <2>4, CountSizes DEF Balance
    <3>2. queued_count = Balance % CountModulus
      BY CountAs DEF Balance
    <3> QED
      BY <2>3, <3>1, <3>2, UpModulo
  <2> QED
    BY <2>5 DEF CountAccounts, PendingKeys, Uncounted, Taken
<1>4. CASE PushNewHint(p)
  <2>1. UNCHANGED <<queued_count, pending>> /\ pc[p] = "hint" /\ pc' = [pc EXCEPT ![p] = "idle"]
    BY <1>4 DEF PushNewHint
  <2>2. UNCHANGED <<PendingKeys, Taken, Uncounted>>
    BY <1>0, <2>1 DEF PendingKeys, Taken, Uncounted, TypeOK
  <2> QED
    BY <2>1, <2>2, CountUnmoved
<1>5. CASE UpsertOccupied(p)
  <2>1. /\ UNCHANGED queued_count /\ pc[p] = "upsert" /\ pc' = [pc EXCEPT ![p] = "idle"]
        /\ IsPending(arg[p].key)
        /\ pending' = [pending EXCEPT ![arg[p].key] = Merge(pending[arg[p].key], arg[p])]
    BY <1>5 DEF UpsertOccupied
  <2>2. arg[p] \in Task /\ arg[p].key \in Keys /\ pending[arg[p].key] \in Task
    BY <1>5, <2>1 DEF UpsertOccupied, TypeOK, Task
  <2>3. Merge(pending[arg[p].key], arg[p]) # NoTask
    BY <2>2, MergeTyped
  <2>4. UNCHANGED PendingKeys
    BY <2>1, <2>2, <2>3 DEF PendingKeys, TypeOK
  <2>5. UNCHANGED <<Taken, Uncounted>>
    BY <1>0, <2>1 DEF Taken, Uncounted, TypeOK
  <2> QED
    BY <2>1, <2>4, <2>5, CountUnmoved
<1> QED
  BY <1>1, <1>2, <1>3, <1>4, <1>5 DEF Enqueue, EnqueueDedup, EnqueueOrBump, DedupRejects, BumpRejects

LEMMA CountWorker ==
    ASSUME TypeOK, CountAccounts, CountedFinitely,
           NEW w \in Workers, StartDequeue(w) \/ Dequeue(w) \/ Return(w)
    PROVE  CountAccounts'
<1> USE NoTaskAssumption, ModulusAssumption, ThreadsAssumption
<1>0. w \in Threads /\ w \notin Producers /\ \A t \in Producers \union Workers : t \in Threads
  BY DEF Threads
<1>1. CASE StartDequeue(w) \/ PopHint(w) \/ LaneEmpty(w) \/ RemoveMiss(w) \/ Return(w)
  <2>1. UNCHANGED <<queued_count, pending>> /\ pc[w] # "sub"
    BY <1>1 DEF StartDequeue, PopHint, LaneEmpty, RemoveMiss, Return
  <2>2. \E at \in {"scan", "remove", "none", "idle"} : pc' = pc \/ pc' = [pc EXCEPT ![w] = at]
    BY <1>1 DEF StartDequeue, PopHint, LaneEmpty, RemoveMiss, Return
  <2>3. UNCHANGED <<PendingKeys, Taken, Uncounted>>
    BY <1>0, <2>1, <2>2 DEF PendingKeys, Taken, Uncounted, TypeOK
  <2> QED
    BY <2>1, <2>3, CountUnmoved
<1>2. CASE RemoveHit(w)
  <2> DEFINE k == hint[w]
  <2>1. k \in Keys /\ k \in PendingKeys /\ PendingKeys' = PendingKeys \ {k}
    BY <1>2 DEF RemoveHit, PendingKeys, TypeOK
  <2>2. w \notin Taken /\ Taken' = Taken \union {w} /\ Uncounted' = Uncounted
    BY <1>0, <1>2 DEF RemoveHit, Taken, Uncounted, TypeOK
  <2>3. queued_count' = queued_count
    BY <1>2 DEF RemoveHit
  <2>4. /\ Cardinality(PendingKeys \ {k}) = Cardinality(PendingKeys) - 1
        /\ Cardinality(Taken \union {w}) = Cardinality(Taken) + 1
    BY <2>1, <2>2, CountSizes, FS_AddElement, FS_RemoveElement
  <2> HIDE DEF k
  <2>5. queued_count' = (Cardinality(PendingKeys') + Cardinality(Taken') - Cardinality(Uncounted'))
                            % CountModulus
    <3>1. Cardinality(PendingKeys') + Cardinality(Taken') - Cardinality(Uncounted') = Balance
      BY <2>1, <2>2, <2>4, CountSizes DEF Balance
    <3> QED
      BY <2>3, <3>1, CountAs DEF Balance
  <2> QED
    BY <2>5 DEF CountAccounts, PendingKeys, Uncounted, Taken
<1>3. CASE CountDown(w)
  <2>1. PendingKeys' = PendingKeys
    BY <1>3 DEF CountDown, PendingKeys
  <2>2. w \in Taken /\ Taken' = Taken \ {w} /\ Uncounted' = Uncounted
    BY <1>0, <1>3 DEF CountDown, Taken, Uncounted, TypeOK
  <2>3. queued_count' = (queued_count - 1) % CountModulus
    BY <1>3 DEF CountDown
  <2>4. Cardinality(Taken \ {w}) = Cardinality(Taken) - 1
    BY <2>2, CountSizes, FS_RemoveElement
  <2>5. queued_count' = (Cardinality(PendingKeys') + Cardinality(Taken') - Cardinality(Uncounted'))
                            % CountModulus
    <3>1. Cardinality(PendingKeys') + Cardinality(Taken') - Cardinality(Uncounted') = Balance - 1
          /\ Balance \in Int
      BY <2>1, <2>2, <2>4, CountSizes DEF Balance
    <3>2. queued_count = Balance % CountModulus
      BY CountAs DEF Balance
    <3> QED
      BY <2>3, <3>1, <3>2, DownModulo
  <2> QED
    BY <2>5 DEF CountAccounts, PendingKeys, Uncounted, Taken
<1> QED
  BY <1>1, <1>2, <1>3 DEF Dequeue

LEMMA CountInit == CountedFinitely /\ Init => CountAccounts
<1> SUFFICES ASSUME CountedFinitely, Init PROVE CountAccounts
  OBVIOUS
<1>1. PendingKeys = {} /\ Taken = {} /\ Uncounted = {} /\ queued_count = 0
  BY ThreadsAssumption DEF Init, PendingKeys, Taken, Uncounted, Threads
<1>2. 0 % CountModulus = 0
  BY ModulusAssumption
<1> QED
  BY <1>1, <1>2, CountAs, FS_EmptySet

LEMMA CountNext ==
    CountedFinitely /\ TypeOK /\ CountAccounts /\ [Next]_vars => CountAccounts'
<1> SUFFICES ASSUME CountedFinitely, TypeOK, CountAccounts, [Next]_vars PROVE CountAccounts'
  OBVIOUS
<1>1. CASE UNCHANGED vars
  BY <1>1 DEF vars, CountAccounts
<1> QED
  BY <1>1, CountEnqueue, CountWorker DEF Next, CountedFinitely

\* The counter that the idle tests read never drifts: up to its width it is
\* the number of pending tasks, corrected by the calls between an update of
\* the map and of the counter, for any finite number of producers, workers
\* and keys, when nobody calls clear_all (scheduler.rs:115, 158).
THEOREM CountNeverDrifts ==
    ASSUME CountedFinitely
    PROVE  Spec => []CountAccounts
BY CountInit, CountNext, TypeCorrect, CountedFinitely, PTL DEF Spec

-----------------------------------------------------------------------------
(***************************************************************************)
(* The scheduler implements TaskPool: upsert is Submit, the removal from   *)
(* the map is Take, clear_all's removal is Clear, the rest are stutters.   *)
(***************************************************************************)
LEMMA PoolInit == Init => Pool!Init
BY DEF Init, Pool!Init, Pool!Empty

LEMMA PoolOccupied ==
    ASSUME TypeOK, NEW p \in Producers, UpsertOccupied(p)
    PROVE  Pool!Submit(arg[p])
<1> USE NoTaskAssumption, TasksAssumption
<1> DEFINE t == arg[p]
           prev == pending[t.key]
           merged == Merge(prev, t)
<1>1. t \in Task /\ prev \in Task /\ prev.key = t.key /\ t.key \in Keys
  BY DEF UpsertOccupied, TypeOK, Task
<1>2. /\ pending' = [pending EXCEPT ![t.key] = merged]
      /\ UNCHANGED got
      /\ pending[t.key] # NoTask
  BY DEF UpsertOccupied
<1>3. merged \in [key : {t.key},
                  generation : {t.generation, prev.generation},
                  layer_generation : {t.layer_generation, prev.layer_generation},
                  priority : {t.priority, prev.priority}]
  BY DEF Merge
<1>4. Pool!Absorbs(merged, prev, t)
  <2>1. t.generation \in Nat /\ prev.generation \in Nat /\ t.priority \in Int /\ prev.priority \in Int
    BY <1>1 DEF Task, Lane
  <2> QED
    BY <2>1 DEF Pool!Absorbs, Merge
<1> HIDE DEF merged
<1> QED
  BY <1>2, <1>3, <1>4 DEF Pool!Submit

LEMMA PoolNext == TypeOK /\ [Next]_vars => [Pool!Next]_<<pending, got>>
<1> SUFFICES ASSUME TypeOK, Next PROVE [Pool!Next]_<<pending, got>>
  BY DEF vars
<1> USE NoTaskAssumption
<1>1. CASE \E p \in Producers : Enqueue(p)
  <2> PICK p \in Producers : Enqueue(p)
    BY <1>1
  <2>1. CASE UpsertVacant(p)
    <3>1. arg[p] \in Tasks
      BY <2>1 DEF UpsertVacant, TypeOK
    <3> QED
      BY <2>1, <3>1 DEF UpsertVacant, Pool!Submit, Pool!Next
  <2>2. CASE UpsertOccupied(p)
    <3>1. arg[p] \in Tasks
      BY <2>2 DEF UpsertOccupied, TypeOK
    <3> QED
      BY <2>2, <3>1, PoolOccupied DEF Pool!Next
  <2>3. CASE EnqueueDedup(p) \/ EnqueueOrBump(p) \/ CountUp(p) \/ PushNewHint(p)
    BY <2>3 DEF EnqueueDedup, EnqueueOrBump, Call, CountUp, PushNewHint
  <2> QED
    BY <2>1, <2>2, <2>3 DEF Enqueue
<1>2. CASE \E w \in Workers : StartDequeue(w) \/ Dequeue(w) \/ Return(w)
  <2> PICK w \in Workers : StartDequeue(w) \/ Dequeue(w) \/ Return(w)
    BY <1>2
  <2>1. CASE RemoveHit(w)
    <3>1. got[w] = NoTask /\ hint[w] \in Keys
      BY <2>1 DEF RemoveHit, TypeOK
    <3> QED
      BY <2>1, <3>1 DEF RemoveHit, Pool!Take, Pool!Next
  <2>2. CASE Return(w)
    BY <2>2 DEF Return, Pool!Finish, Pool!Next
  <2>3. CASE StartDequeue(w) \/ PopHint(w) \/ LaneEmpty(w) \/ RemoveMiss(w) \/ CountDown(w)
    BY <2>3 DEF StartDequeue, PopHint, LaneEmpty, RemoveMiss, CountDown
  <2> QED
    BY <2>1, <2>2, <2>3 DEF Dequeue
<1>3. CASE \E c \in Clearers : ClearAll(c)
  <2> PICK c \in Clearers : ClearAll(c)
    BY <1>3
  <2>1. CASE ClearPending(c)
    BY <2>1 DEF ClearPending, Pool!Clear, Pool!Empty, Pool!Next
  <2>2. CASE StartClear(c) \/ DrainOne(c) \/ DrainNext(c) \/ ZeroCount(c)
    BY <2>2 DEF StartClear, DrainOne, DrainNext, ZeroCount
  <2> QED
    BY <2>1, <2>2 DEF ClearAll
<1> QED
  BY <1>1, <1>2, <1>3 DEF Next

\* Callers may reason about the scheduler as one pool with atomic submit, take
\* and clear: every behaviour of the interleaved calls is one of TaskPool, so a
\* task is handed to at most one worker and never with a generation or a
\* priority below one that was accepted for its key (scheduler.rs:1-5).
THEOREM ImplementsTaskPool == Spec => Pool!Spec
<1>1. Init => Pool!Init
  BY PoolInit
<1>2. TypeOK /\ [Next]_vars => [Pool!Next]_Pool!poolVars
  BY PoolNext DEF Pool!poolVars
<1> QED
  BY <1>1, <1>2, TypeCorrect, PTL DEF Spec, Pool!Spec

=============================================================================
