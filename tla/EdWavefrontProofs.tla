------------------------- MODULE EdWavefrontProofs --------------------------
(***************************************************************************)
(* Type correctness of EdWavefront, that no gate stays closed behind a     *)
(* call, that no task is lost between the scheduler, the frontier and the  *)
(* workers, and that no task parked on its neighbours is left behind, for  *)
(* every layer, every number of workers and of requests.                   *)
(***************************************************************************)
EXTENDS EdWavefront, TLAPS

Parking == {"missing", "unblock", "scrub", "register", "publish", "recheck", "parked",
            "unpark", "scrub_runnable", "runnable"}
Computing == {"enter", "claim", "claimed", "above", "insert"}
Waking == {"wake", "waiters", "dependents"}
Labels == {"idle", "ready"} \union Parking \union Computing \union Waking

Frame == [key : Keys, up : 0..Cols]
TaskCallers == {"worker", "busy"}
WakeCallers == {"waiters", "dependents"}
Parkings == [key : Keys \union {None}, deps : SUBSET Keys,
             caller : TaskCallers \union WakeCallers \union {None}]

SharedOK ==
    /\ fresh \subseteq Keys
    /\ queued \subseteq Keys /\ let_go \subseteq Keys
    /\ waiting_on \in [Keys -> SUBSET Keys]
    /\ blocked \in [Keys -> (SUBSET Keys) \union {None}]
    /\ gate \in [0..Rows - 1 -> Workers \union {None}]

LocalsOK ==
    /\ pc \in [Workers -> Labels]
    /\ task \in [Workers -> Keys \union {None}]
    /\ frames \in [Workers -> Seq(Frame)]
    /\ parking \in [Workers -> Parkings]
    /\ column \in [Workers -> 0..Cols - 1]
    /\ waiters \in [Workers -> SUBSET Keys]
    /\ dependents \in [Workers -> Seq(Keys)]
    /\ ready \in [Workers -> SUBSET Keys]

\* What a worker has in its local variables at each of its steps.  The call it
\* was taken for is its first; a wake belongs to a call whose tile is there.
ParkOK(w) ==
    /\ parking[w].key \in Keys
    /\ \/ /\ parking[w].caller \in TaskCallers
          /\ parking[w].key = task[w]
          /\ frames[w] = <<>>
       \/ /\ parking[w].caller \in WakeCallers
          /\ frames[w] # <<>>
          /\ Top(w).key \in fresh

WorkerOK(w) ==
    /\ (pc[w] = "idle") <=> (task[w] = None)
    /\ frames[w] # <<>> => frames[w][1].key = task[w]
    /\ pc[w] \in {"idle", "ready"} => frames[w] = <<>>
    /\ pc[w] \in Computing \union Waking => frames[w] # <<>>
    /\ pc[w] \in Parking => ParkOK(w)
    /\ pc[w] \in Waking => Top(w).key \in fresh
    /\ pc[w] = "insert" => \A x \in 0..column[w] - 1 : <<x, Row(Top(w).key)>> \in fresh

\* A worker answers for a task, unless it is the one that parks it and the
\* parked task is there for others to see.
Answers(w, k) ==
    \/ k \in ready[w]
    \/ /\ pc[w] \in Parking \ {"recheck", "parked"}
       /\ parking[w].key = k
    \/ /\ task[w] = k
       /\ ~(pc[w] \in {"recheck", "parked"} /\ parking[w].caller \in TaskCallers)

AnswersFor ==
    \A k \in Keys \ (fresh \union let_go) :
        k \in queued \/ blocked[k] # None \/ \E w \in Workers : Answers(w, k)

WavefrontInv ==
    SharedOK /\ LocalsOK /\ (\A w \in Workers : WorkerOK(w)) /\ GatesMatchCalls /\ AnswersFor

-----------------------------------------------------------------------------
(* Keys, calls and neighbours.                                             *)

LEMMA KeyFacts ==
    /\ \A k \in Keys : k[1] \in 0..Cols - 1 /\ Row(k) \in 0..Rows - 1 /\ k = <<k[1], Row(k)>>
    /\ \A x \in 0..Cols - 1, y \in 0..Rows - 1 : <<x, y>> \in Keys /\ Row(<<x, y>>) = y
    /\ Cols \in Nat /\ Cols > 0 /\ Rows \in Nat /\ Rows > 0
BY WavefrontAssumption DEF WavefrontAssumption, Keys, Row

LEMMA CallFacts ==
    ASSUME NEW w \in Workers, LocalsOK, frames[w] # <<>>
    PROVE  /\ Len(frames[w]) \in Nat /\ Len(frames[w]) > 0
           /\ \A i \in 1..Len(frames[w]) : frames[w][i] \in Frame
           /\ Top(w) \in Frame /\ Top(w).key \in Keys /\ Row(Top(w).key) \in 0..Rows - 1
<1>1. frames[w] \in Seq(Frame) /\ frames[w] # <<>>
    BY DEF LocalsOK
<1> HIDE DEF Frame
<1>2. /\ Len(frames[w]) \in Nat /\ Len(frames[w]) > 0
      /\ \A i \in 1..Len(frames[w]) : frames[w][i] \in Frame
    BY <1>1
<1>3. Top(w) \in Frame
    BY <1>2 DEF Top
<1>4. Top(w).key \in Keys
    BY <1>3 DEF Frame
<1> QED BY <1>2, <1>3, <1>4, KeyFacts

LEMMA CompletedFacts ==
    ASSUME NEW w \in Workers, LocalsOK, frames[w] # <<>>
    PROVE  Completed(w) \in Keys
<1>1. column[w] \in 0..Cols - 1
    BY DEF LocalsOK
<1> QED BY <1>1, CallFacts, KeyFacts DEF Completed

-----------------------------------------------------------------------------
(* What a step of a worker has to show for the invariant.                  *)

InCall(w, y) == \E i \in 1..Len(frames[w]) : Row(frames[w][i].key) = y

\* The other workers' variables stay.
OnlyOwn(w) ==
    \A u \in Workers : u # w =>
        /\ pc'[u] = pc[u] /\ task'[u] = task[u] /\ frames'[u] = frames[u]
        /\ parking'[u] = parking[u] /\ column'[u] = column[u] /\ ready'[u] = ready[u]

\* A gate is left alone, opened, or closed by a worker that is in its row.
GateStep(w) ==
    \A y \in 0..Rows - 1 :
        /\ gate'[y] \in {gate[y], None, w}
        /\ gate'[y] = w => InCall(w, y)'

\* A task that was queued, parked or answered for by this worker still is.
AnswerStep(w) ==
    \A k \in Keys \ (fresh \union let_go)' :
        k \in queued \/ blocked[k] # None \/ Answers(w, k)
            => k \in queued' \/ blocked'[k] # None \/ Answers(w, k)'

Grows == fresh \subseteq fresh' /\ let_go \subseteq let_go'

StepOK(w) ==
    /\ SharedOK' /\ LocalsOK' /\ WorkerOK(w)'
    /\ OnlyOwn(w) /\ GateStep(w) /\ AnswerStep(w) /\ Grows

LEMMA StepKeepsInv ==
    ASSUME NEW w \in Workers, WavefrontInv, StepOK(w)
    PROVE  WavefrontInv'
<1>1. ASSUME NEW u \in Workers, u # w
      PROVE  WorkerOK(u)'
    <2>1. /\ pc'[u] = pc[u] /\ task'[u] = task[u] /\ frames'[u] = frames[u]
          /\ parking'[u] = parking[u] /\ column'[u] = column[u]
          /\ fresh \subseteq fresh' /\ WorkerOK(u)
        BY <1>1 DEF StepOK, OnlyOwn, Grows, WavefrontInv
    <2>2. Top(u)' = Top(u)
        BY <2>1 DEF Top
    <2> QED BY <2>1, <2>2 DEF WorkerOK, ParkOK
<1>2. GatesMatchCalls'
    <2>1. SharedOK /\ SharedOK' /\ OnlyOwn(w) /\ GateStep(w) /\ GatesMatchCalls
        BY DEF StepOK, WavefrontInv
    <2>2. ASSUME NEW y \in 0..Rows - 1, gate'[y] # None
          PROVE  \E i \in 1..Len(frames'[gate'[y]]) : Row(frames'[gate'[y]][i].key) = y
        <3>1. CASE gate'[y] = w
            BY <2>1, <3>1 DEF GateStep, InCall
        <3>2. CASE gate'[y] # w
            <4>1. gate'[y] = gate[y] /\ gate[y] \in Workers
                BY <2>1, <2>2, <3>2 DEF GateStep, SharedOK
            <4>2. \E i \in 1..Len(frames[gate[y]]) : Row(frames[gate[y]][i].key) = y
                BY <2>1, <2>2, <4>1 DEF GatesMatchCalls, SharedOK
            <4> QED BY <2>1, <3>2, <4>1, <4>2 DEF OnlyOwn
        <3> QED BY <3>1, <3>2
    <2> QED BY <2>1, <2>2 DEF GatesMatchCalls, SharedOK
<1>3. AnswersFor'
    <2>1. OnlyOwn(w) /\ AnswerStep(w) /\ AnswersFor /\ Grows
        BY DEF StepOK, WavefrontInv
    <2>2. ASSUME NEW k \in Keys \ (fresh \union let_go)'
          PROVE  k \in queued' \/ blocked'[k] # None \/ \E u \in Workers : Answers(u, k)'
        <3>1. k \in queued \/ blocked[k] # None \/ \E u \in Workers : Answers(u, k)
            BY <2>1, <2>2 DEF AnswersFor, Grows
        <3>2. ASSUME NEW u \in Workers, u # w, Answers(u, k)
              PROVE  Answers(u, k)'
            BY <2>1, <3>2 DEF OnlyOwn, Answers
        <3> QED BY <2>1, <2>2, <3>1, <3>2 DEF AnswerStep
    <2> QED BY <2>2 DEF AnswersFor
<1> QED BY <1>1, <1>2, <1>3 DEF StepOK, WavefrontInv

LEMMA SameGates ==
    ASSUME NEW w \in Workers, WavefrontInv, UNCHANGED <<gate, frames>>
    PROVE  GateStep(w)
<1>1. None \notin Workers
    BY WavefrontAssumption DEF WavefrontAssumption
<1> QED BY <1>1 DEF WavefrontInv, SharedOK, GatesMatchCalls, GateStep, InCall

-----------------------------------------------------------------------------
(* The worker loop and block_on.                                           *)

LEMMA InvParts ==
    ASSUME NEW w \in Workers, WavefrontInv
    PROVE  SharedOK /\ LocalsOK /\ WorkerOK(w) /\ GatesMatchCalls /\ AnswersFor
BY DEF WavefrontInv

LEMMA DequeueStep ==
    ASSUME NEW w \in Workers, WavefrontInv, Dequeue(w)
    PROVE  StepOK(w)
<1>1. SharedOK /\ LocalsOK /\ WorkerOK(w)
    BY InvParts
<1>k. PICK taken \in queued : queued' = queued \ {taken} /\ task' = [task EXCEPT ![w] = taken]
    BY DEF Dequeue
<1>0. /\ pc[w] = "idle" /\ pc' = [pc EXCEPT ![w] = "ready"]
      /\ UNCHANGED <<fresh, waiting_on, blocked, gate, let_go, parking, frames, column,
                     waiters, dependents, ready>>
    BY DEF Dequeue, Goto, frontierVars, stripVars
<1>2. SharedOK' /\ LocalsOK' /\ OnlyOwn(w) /\ Grows
    BY <1>0, <1>1, <1>k DEF SharedOK, LocalsOK, OnlyOwn, Grows, Labels, Computing, Waking, Parking
<1>3. WorkerOK(w)'
    <2>1. pc'[w] = "ready" /\ task'[w] = taken /\ taken # None /\ frames'[w] = <<>>
        BY <1>0, <1>1, <1>k, WavefrontAssumption DEF WavefrontAssumption, SharedOK, LocalsOK, WorkerOK
    <2> QED BY <2>1 DEF WorkerOK, Computing, Waking, Parking
<1>4. AnswerStep(w)
    <2>1. /\ pc'[w] = "ready" /\ task'[w] = taken /\ task[w] = None /\ ready'[w] = ready[w]
        BY <1>0, <1>1, <1>k DEF LocalsOK, WorkerOK
    <2>2. None \notin Keys
        BY WavefrontAssumption DEF WavefrontAssumption
    <2> QED BY <1>0, <1>k, <2>1, <2>2 DEF AnswerStep, Answers, Parking
<1> QED BY <1>0, <1>2, <1>3, <1>4, SameGates DEF StepOK

LEMMA MissingStep ==
    ASSUME NEW w \in Workers, WavefrontInv, Missing(w)
    PROVE  StepOK(w)
<1>1. SharedOK /\ LocalsOK /\ WorkerOK(w)
    BY InvParts
<1>2. SharedOK' /\ LocalsOK' /\ OnlyOwn(w) /\ Grows
    BY <1>1 DEF Missing, frontierVars, stripVars, workerVars, Goto, SharedOK, LocalsOK, OnlyOwn,
        Grows, Labels, Parking, Computing, Waking, Parkings, TaskCallers, WakeCallers,
        ed_missing_deps, ed_dependency_keys
<1>3. WorkerOK(w)'
    BY <1>1, WavefrontAssumption DEF Missing, frontierVars, stripVars, workerVars, Goto, LocalsOK,
        WorkerOK, ParkOK, Top, Parking, Computing, Waking, TaskCallers, WakeCallers,
        ed_missing_deps, ed_dependency_keys
<1>4. AnswerStep(w)
    BY <1>1 DEF Missing, frontierVars, stripVars, workerVars, Goto, LocalsOK, AnswerStep, Answers,
        Parking, TaskCallers, WakeCallers, ed_missing_deps, ed_dependency_keys
<1> QED BY <1>2, <1>3, <1>4, SameGates DEF StepOK, Missing, frontierVars, stripVars, workerVars

LEMMA RegisterStep ==
    ASSUME NEW w \in Workers, WavefrontInv, Register(w)
    PROVE  StepOK(w)
<1>1. SharedOK /\ LocalsOK /\ WorkerOK(w)
    BY InvParts
<1>2. SharedOK' /\ LocalsOK' /\ OnlyOwn(w) /\ Grows
    <2>1. parking[w].deps \subseteq Keys /\ parking[w].key \in Keys
        BY <1>1 DEF Register, LocalsOK, Parkings, WorkerOK, ParkOK, Parking
    <2>2. waiting_on' \in [Keys -> SUBSET Keys]
        BY <1>1, <2>1 DEF Register, SharedOK
    <2> QED BY <1>1, <2>2 DEF Register, frontierVars, stripVars, workerVars, Goto, SharedOK,
           LocalsOK, OnlyOwn, Grows, Labels, Parking, Computing, Waking, Parkings, TaskCallers,
           WakeCallers
<1>3. WorkerOK(w)'
    BY <1>1, WavefrontAssumption DEF Register, frontierVars, stripVars, workerVars, Goto, LocalsOK,
        WorkerOK, ParkOK, Top, Parking, Computing, Waking, TaskCallers, WakeCallers
<1>4. AnswerStep(w)
    BY <1>1 DEF Register, frontierVars, stripVars, workerVars, Goto, LocalsOK, AnswerStep, Answers,
        Parking, TaskCallers, WakeCallers
<1> QED BY <1>2, <1>3, <1>4, SameGates DEF StepOK, Register, frontierVars, stripVars, workerVars

LEMMA NothingToWaitForStep ==
    ASSUME NEW w \in Workers, WavefrontInv, NothingToWaitFor(w)
    PROVE  StepOK(w)
<1>1. SharedOK /\ LocalsOK /\ WorkerOK(w)
    BY InvParts
<1>2. SharedOK' /\ LocalsOK' /\ OnlyOwn(w) /\ Grows
    BY <1>1 DEF NothingToWaitFor, frontierVars, stripVars, workerVars, Goto, SharedOK, LocalsOK,
        OnlyOwn, Grows, Labels, Parking, Computing, Waking, Parkings, TaskCallers, WakeCallers
<1>3. WorkerOK(w)'
    BY <1>1, WavefrontAssumption DEF NothingToWaitFor, frontierVars, stripVars, workerVars, Goto,
        LocalsOK, WorkerOK, ParkOK, Top, Parking, Computing, Waking, TaskCallers, WakeCallers
<1>4. AnswerStep(w)
    BY <1>1 DEF NothingToWaitFor, frontierVars, stripVars, workerVars, Goto, LocalsOK, AnswerStep,
        Answers, Parking, TaskCallers, WakeCallers
<1> QED BY <1>2, <1>3, <1>4, SameGates DEF StepOK, NothingToWaitFor, frontierVars, stripVars, workerVars

LEMMA PublishStep ==
    ASSUME NEW w \in Workers, WavefrontInv, Publish(w)
    PROVE  StepOK(w)
<1>1. SharedOK /\ LocalsOK /\ WorkerOK(w)
    BY InvParts
<1>2. SharedOK' /\ LocalsOK' /\ OnlyOwn(w) /\ Grows
    BY <1>1 DEF Publish, frontierVars, stripVars, workerVars, Goto, SharedOK, LocalsOK, OnlyOwn,
        Grows, Labels, Parking, Computing, Waking, Parkings, TaskCallers, WakeCallers
<1>3. WorkerOK(w)'
    BY <1>1, WavefrontAssumption DEF Publish, frontierVars, stripVars, workerVars, Goto, LocalsOK,
        WorkerOK, ParkOK, Top, Parking, Computing, Waking, TaskCallers, WakeCallers
<1>4. AnswerStep(w)
    <2>1. parking[w].deps # None
        BY <1>1, WavefrontAssumption DEF WavefrontAssumption, LocalsOK, Parkings
    <2> QED BY <1>1, <2>1 DEF SharedOK, WorkerOK, ParkOK, Publish, frontierVars, stripVars,
           workerVars, Goto, LocalsOK, AnswerStep, Answers, Parking, TaskCallers, WakeCallers
<1> QED BY <1>2, <1>3, <1>4, SameGates DEF StepOK, Publish, frontierVars, stripVars, workerVars

LEMMA RecheckStep ==
    ASSUME NEW w \in Workers, WavefrontInv, Recheck(w)
    PROVE  StepOK(w)
<1>1. SharedOK /\ LocalsOK /\ WorkerOK(w)
    BY InvParts
<1>2. SharedOK' /\ LocalsOK' /\ OnlyOwn(w) /\ Grows
    BY <1>1 DEF Recheck, frontierVars, stripVars, workerVars, Goto, SharedOK, LocalsOK, OnlyOwn,
        Grows, Labels, Parking, Computing, Waking, Parkings, TaskCallers, WakeCallers
<1>3. WorkerOK(w)'
    BY <1>1, WavefrontAssumption DEF Recheck, frontierVars, stripVars, workerVars, Goto, LocalsOK,
        WorkerOK, ParkOK, Top, Parking, Computing, Waking, TaskCallers, WakeCallers
<1>4. AnswerStep(w)
    BY <1>1 DEF Recheck, frontierVars, stripVars, workerVars, Goto, LocalsOK, AnswerStep, Answers,
        Parking, TaskCallers, WakeCallers
<1> QED BY <1>2, <1>3, <1>4, SameGates DEF StepOK, Recheck, frontierVars, stripVars, workerVars

\* block_on returns: to the worker loop, without a call, or to a wake.
LEMMA Left ==
    ASSUME NEW w \in Workers, LocalsOK, WorkerOK(w), pc[w] \in {"parked", "runnable"},
           NEW caller, LeaveBlockOn(w, caller)
    PROVE  /\ caller = parking[w].caller /\ parking' = [parking EXCEPT ![w] = NoPark]
           /\ parking[w].key \in Keys
           /\ \/ /\ caller \in TaskCallers
                 /\ pc' = [pc EXCEPT ![w] = "idle"] /\ task' = [task EXCEPT ![w] = None]
                 /\ frames[w] = <<>> /\ parking[w].key = task[w]
              \/ /\ caller \in WakeCallers /\ caller \notin TaskCallers
                 /\ pc' = [pc EXCEPT ![w] = caller] /\ UNCHANGED task
                 /\ frames[w] # <<>> /\ Top(w).key \in fresh /\ task[w] # None
<1>1. caller = parking[w].caller /\ parking' = [parking EXCEPT ![w] = NoPark]
    BY DEF LeaveBlockOn
<1>2. ParkOK(w) /\ task[w] # None
    BY DEF WorkerOK, Parking
<1>3. CASE caller \in TaskCallers
    BY <1>1, <1>2, <1>3 DEF LeaveBlockOn, Goto, ParkOK, TaskCallers, WakeCallers
<1>4. CASE caller \in WakeCallers
    BY <1>1, <1>2, <1>4 DEF LeaveBlockOn, Goto, ParkOK, TaskCallers, WakeCallers
<1> QED BY <1>1, <1>2, <1>3, <1>4 DEF ParkOK

LEMMA LeftStep ==
    ASSUME NEW w \in Workers, WavefrontInv, pc[w] \in {"parked", "runnable"},
           NEW caller, LeaveBlockOn(w, caller),
           UNCHANGED <<fresh, waiting_on, blocked, gate, frames, column, waiters, dependents>>,
           queued' \subseteq Keys, let_go' \subseteq Keys, ready' \in [Workers -> SUBSET Keys],
           let_go \subseteq let_go', \A u \in Workers : u # w => ready'[u] = ready[u]
    PROVE  SharedOK' /\ LocalsOK' /\ WorkerOK(w)' /\ OnlyOwn(w) /\ Grows /\ GateStep(w)
<1>1. SharedOK /\ LocalsOK /\ WorkerOK(w)
    BY InvParts
<1>2. NoPark \in Parkings /\ NoPark.key = None
    BY DEF NoPark, Parkings
<1>3. parking' = [parking EXCEPT ![w] = NoPark]
    BY <1>1, Left
<1>4. parking' \in [Workers -> Parkings]
    BY <1>1, <1>2, <1>3 DEF LocalsOK
<1>5. \/ /\ pc' = [pc EXCEPT ![w] = "idle"] /\ task' = [task EXCEPT ![w] = None]
         /\ frames[w] = <<>>
      \/ /\ pc' = [pc EXCEPT ![w] = caller] /\ UNCHANGED task /\ caller \in WakeCallers
         /\ frames[w] # <<>> /\ Top(w).key \in fresh /\ task[w] # None
    BY <1>1, Left
<1>6. LocalsOK' /\ OnlyOwn(w)
    <2>1. \A u \in Workers : u # w => parking'[u] = parking[u]
        BY <1>1, <1>3 DEF LocalsOK
    <2> QED BY <1>1, <1>4, <1>5, <2>1 DEF LocalsOK, OnlyOwn, Labels, Waking, WakeCallers
<1>7. WorkerOK(w)'
    <2>1. Top(w)' = Top(w)
        BY DEF Top
    <2> QED BY <1>1, <1>5, <2>1 DEF LocalsOK, WorkerOK, Parking, Computing, Waking, WakeCallers
<1> QED BY <1>1, <1>6, <1>7, SameGates DEF SharedOK, Grows

LEMMA ParkedStep ==
    ASSUME NEW w \in Workers, WavefrontInv, Parked(w)
    PROVE  StepOK(w)
<1>1. SharedOK /\ LocalsOK /\ WorkerOK(w)
    BY InvParts
<1>2. PICK caller : LeaveBlockOn(w, caller) /\ caller = parking[w].caller
    BY DEF Parked
<1>3. /\ parking' = [parking EXCEPT ![w] = NoPark] /\ parking[w].key \in Keys
      /\ pc[w] \in {"parked", "runnable"} /\ pc'[w] \notin Parking
      /\ \/ caller \in TaskCallers /\ parking[w].key = task[w]
         \/ caller \in WakeCallers /\ UNCHANGED task
    BY <1>1, <1>2, Left DEF Parked, LocalsOK, Parking, WakeCallers
<1>4. SharedOK' /\ LocalsOK' /\ WorkerOK(w)' /\ OnlyOwn(w) /\ Grows /\ GateStep(w)
    <2>1. /\ UNCHANGED <<fresh, waiting_on, blocked, gate, frames, column, waiters, dependents>>
          /\ queued' \subseteq Keys /\ let_go' \subseteq Keys /\ ready' \in [Workers -> SUBSET Keys]
          /\ let_go \subseteq let_go' /\ \A u \in Workers : u # w => ready'[u] = ready[u]
        BY <1>1, <1>3 DEF Parked, SharedOK, LocalsOK, frontierVars, stripVars
    <2> QED BY <1>2, <1>3, <2>1, LeftStep
<1>5. AnswerStep(w)
    BY <1>1, <1>2, <1>3 DEF Parked, LocalsOK, AnswerStep, Answers, Parking, TaskCallers,
        frontierVars, stripVars
<1> QED BY <1>4, <1>5 DEF StepOK

LEMMA RunnableAgainStep ==
    ASSUME NEW w \in Workers, WavefrontInv, RunnableAgain(w)
    PROVE  StepOK(w)
<1>1. SharedOK /\ LocalsOK /\ WorkerOK(w)
    BY InvParts
<1>2. PICK caller : LeaveBlockOn(w, caller) /\ caller = "worker"
    BY DEF RunnableAgain
<1>3. /\ parking' = [parking EXCEPT ![w] = NoPark] /\ parking[w].key \in Keys
      /\ pc[w] \in {"parked", "runnable"} /\ pc'[w] \notin Parking
      /\ \/ caller \in TaskCallers /\ parking[w].key = task[w]
         \/ caller \in WakeCallers /\ UNCHANGED task
    BY <1>1, <1>2, Left DEF RunnableAgain, LocalsOK, Parking, WakeCallers
<1>4. SharedOK' /\ LocalsOK' /\ WorkerOK(w)' /\ OnlyOwn(w) /\ Grows /\ GateStep(w)
    <2>1. /\ UNCHANGED <<fresh, waiting_on, blocked, gate, frames, column, waiters, dependents>>
          /\ queued' \subseteq Keys /\ let_go' \subseteq Keys /\ ready' \in [Workers -> SUBSET Keys]
          /\ let_go \subseteq let_go' /\ \A u \in Workers : u # w => ready'[u] = ready[u]
        BY <1>1, <1>3 DEF RunnableAgain, SharedOK, LocalsOK, frontierVars, stripVars
    <2> QED BY <1>2, <1>3, <2>1, LeftStep
<1>5. AnswerStep(w)
    BY <1>1, <1>2, <1>3 DEF RunnableAgain, LocalsOK, AnswerStep, Answers, Parking, TaskCallers,
        WakeCallers, frontierVars, stripVars
<1> QED BY <1>4, <1>5 DEF StepOK

LEMMA RunnableIgnoredStep ==
    ASSUME NEW w \in Workers, WavefrontInv, RunnableIgnored(w)
    PROVE  StepOK(w)
<1>1. SharedOK /\ LocalsOK /\ WorkerOK(w)
    BY InvParts
<1>2. PICK caller : LeaveBlockOn(w, caller) /\ caller = "busy"
    BY DEF RunnableIgnored
<1>3. /\ parking' = [parking EXCEPT ![w] = NoPark] /\ parking[w].key \in Keys
      /\ pc[w] \in {"parked", "runnable"} /\ pc'[w] \notin Parking
      /\ \/ caller \in TaskCallers /\ parking[w].key = task[w]
         \/ caller \in WakeCallers /\ UNCHANGED task
    BY <1>1, <1>2, Left DEF RunnableIgnored, LocalsOK, Parking, WakeCallers
<1>4. SharedOK' /\ LocalsOK' /\ WorkerOK(w)' /\ OnlyOwn(w) /\ Grows /\ GateStep(w)
    <2>1. /\ UNCHANGED <<fresh, waiting_on, blocked, gate, frames, column, waiters, dependents>>
          /\ queued' \subseteq Keys /\ let_go' \subseteq Keys /\ ready' \in [Workers -> SUBSET Keys]
          /\ let_go \subseteq let_go' /\ \A u \in Workers : u # w => ready'[u] = ready[u]
        BY <1>1, <1>3 DEF RunnableIgnored, SharedOK, LocalsOK, frontierVars, stripVars
    <2> QED BY <1>2, <1>3, <2>1, LeftStep
<1>5. AnswerStep(w)
    BY <1>1, <1>2, <1>3 DEF RunnableIgnored, LocalsOK, AnswerStep, Answers, Parking, TaskCallers,
        WakeCallers, frontierVars, stripVars
<1> QED BY <1>4, <1>5 DEF StepOK

LEMMA RunnableWokenStep ==
    ASSUME NEW w \in Workers, WavefrontInv, RunnableWoken(w)
    PROVE  StepOK(w)
<1>1. SharedOK /\ LocalsOK /\ WorkerOK(w)
    BY InvParts
<1>2. PICK caller : LeaveBlockOn(w, caller) /\ caller \in WakeCallers
    BY DEF RunnableWoken, WakeCallers
<1>3. /\ parking' = [parking EXCEPT ![w] = NoPark] /\ parking[w].key \in Keys
      /\ pc[w] \in {"parked", "runnable"} /\ pc'[w] \notin Parking
      /\ \/ caller \in TaskCallers /\ parking[w].key = task[w]
         \/ caller \in WakeCallers /\ UNCHANGED task
    <2>1. pc[w] = "runnable"
        BY DEF RunnableWoken
    <2>2. caller \notin TaskCallers
        BY <1>2 DEF TaskCallers, WakeCallers
    <2>3. /\ parking' = [parking EXCEPT ![w] = NoPark] /\ parking[w].key \in Keys
          /\ pc' = [pc EXCEPT ![w] = caller] /\ UNCHANGED task
        BY <1>1, <1>2, <2>1, <2>2, Left
    <2> QED BY <1>1, <1>2, <2>1, <2>3 DEF LocalsOK, Parking, WakeCallers
<1>4. SharedOK' /\ LocalsOK' /\ WorkerOK(w)' /\ OnlyOwn(w) /\ Grows /\ GateStep(w)
    <2>1. /\ UNCHANGED <<fresh, waiting_on, blocked, gate, frames, column, waiters, dependents>>
          /\ queued' \subseteq Keys /\ let_go' \subseteq Keys /\ ready' \in [Workers -> SUBSET Keys]
          /\ let_go \subseteq let_go' /\ \A u \in Workers : u # w => ready'[u] = ready[u]
        BY <1>1, <1>3 DEF RunnableWoken, SharedOK, LocalsOK, frontierVars, stripVars
    <2> QED BY <1>2, <1>3, <2>1, LeftStep
<1>5. AnswerStep(w)
    BY <1>1, <1>2, <1>3 DEF RunnableWoken, LocalsOK, AnswerStep, Answers, Parking, TaskCallers,
        WakeCallers, frontierVars
<1> QED BY <1>4, <1>5 DEF StepOK

\* unblock_key: the worker that takes an entry out answers for its task.
LEMMA UnblockKeyStep ==
    ASSUME NEW w \in Workers, WavefrontInv, NEW at \in {"unblock", "unpark"},
           NEW scrub \in {"scrub", "scrub_runnable"}, NEW next \in {"register", "runnable"},
           UnblockKey(w, at, scrub, next)
    PROVE  StepOK(w)
<1>1. SharedOK /\ LocalsOK /\ WorkerOK(w)
    BY InvParts
<1>2. PICK to \in {scrub, next} : pc' = [pc EXCEPT ![w] = to]
    BY DEF UnblockKey, Goto
<1>3. /\ pc[w] = at /\ blocked' = [blocked EXCEPT ![parking[w].key] = None]
      /\ UNCHANGED <<fresh, queued, waiting_on, gate, let_go, task, parking, frames, column,
                     waiters, dependents, ready>>
    BY DEF UnblockKey, stripVars
<1>4. /\ to \in {"scrub", "scrub_runnable", "register", "runnable"}
      /\ ParkOK(w) /\ task[w] # None /\ pc'[w] = to
    BY <1>1, <1>2, <1>3 DEF LocalsOK, WorkerOK, Parking
<1>5. SharedOK' /\ LocalsOK' /\ OnlyOwn(w) /\ Grows
    BY <1>1, <1>2, <1>3, <1>4 DEF SharedOK, LocalsOK, OnlyOwn, Grows, Labels, Parking, ParkOK
<1>6. WorkerOK(w)'
    <2>1. ParkOK(w)'
        BY <1>3, <1>4 DEF ParkOK, Top
    <2> QED BY <1>1, <1>3, <1>4, <2>1 DEF WorkerOK, Parking, Computing, Waking, Top
<1>7. AnswerStep(w)
    BY <1>1, <1>3, <1>4 DEF SharedOK, AnswerStep, Answers, Parking, ParkOK
<1> QED BY <1>3, <1>5, <1>6, <1>7, SameGates DEF StepOK

LEMMA ScrubStep ==
    ASSUME NEW w \in Workers, WavefrontInv, NEW at \in {"scrub", "scrub_runnable"},
           NEW next \in {"register", "runnable"}, Scrub(w, at, next)
    PROVE  StepOK(w)
<1>1. SharedOK /\ LocalsOK /\ WorkerOK(w)
    BY InvParts
<1>3. /\ pc[w] = at /\ pc' = [pc EXCEPT ![w] = next]
      /\ waiting_on' = [d \in Keys |-> waiting_on[d] \ {parking[w].key}]
      /\ UNCHANGED <<fresh, queued, blocked, gate, let_go, task, parking, frames, column,
                     waiters, dependents, ready>>
    BY DEF Scrub, Goto, stripVars
<1>4. ParkOK(w) /\ task[w] # None /\ pc'[w] = next
    BY <1>1, <1>3 DEF LocalsOK, WorkerOK, Parking
<1>5. SharedOK' /\ LocalsOK' /\ OnlyOwn(w) /\ Grows
    BY <1>1, <1>3 DEF SharedOK, LocalsOK, OnlyOwn, Grows, Labels, Parking
<1>6. WorkerOK(w)'
    <2>1. ParkOK(w)'
        BY <1>3, <1>4 DEF ParkOK, Top
    <2> QED BY <1>1, <1>3, <1>4, <2>1 DEF WorkerOK, Parking, Computing, Waking, Top
<1>7. AnswerStep(w)
    BY <1>1, <1>3, <1>4 DEF AnswerStep, Answers, Parking, ParkOK
<1> QED BY <1>3, <1>5, <1>6, <1>7, SameGates DEF StepOK

LEMMA CheckReadyStep ==
    ASSUME NEW w \in Workers, WavefrontInv, CheckReady(w)
    PROVE  StepOK(w)
<1>1. SharedOK /\ LocalsOK /\ WorkerOK(w)
    BY InvParts
<1>2. /\ pc[w] = "ready" /\ task[w] \in Keys /\ frames[w] = <<>> /\ task[w] # None
      /\ UNCHANGED <<fresh, queued, waiting_on, blocked, gate, let_go, task, column,
                     waiters, dependents, ready>>
    BY <1>1 DEF CheckReady, LocalsOK, WorkerOK, frontierVars
<1>3. CASE ed_ready(task[w])
    <2> DEFINE first == [key |-> task[w], up |-> 0]
    <2>1. first \in Frame /\ first.key = task[w]
        BY <1>2, KeyFacts DEF Frame
    <2>2. frames' = [frames EXCEPT ![w] = <<first>>] /\ pc' = [pc EXCEPT ![w] = "enter"]
          /\ UNCHANGED parking
        BY <1>3 DEF CheckReady, Goto
    <2> HIDE DEF first, Frame
    <2>3. <<first>> \in Seq(Frame) /\ <<first>> # <<>> /\ <<first>>[1] = first
        BY <2>1
    <2>4. SharedOK' /\ LocalsOK' /\ OnlyOwn(w) /\ Grows
        BY <1>1, <1>2, <2>2, <2>3 DEF SharedOK, LocalsOK, OnlyOwn, Grows, Labels, Computing
    <2>5. WorkerOK(w)'
        BY <1>1, <1>2, <2>1, <2>2, <2>3 DEF LocalsOK, WorkerOK, Parking, Computing, Waking
    <2>6. GateStep(w)
        <3>1. \A y \in 0..Rows - 1 : gate'[y] # w
            <4>1. Len(frames[w]) = 0 /\ None \notin Workers
                BY <1>2, WavefrontAssumption DEF WavefrontAssumption
            <4>2. GatesMatchCalls
                BY InvParts
            <4>3. ASSUME NEW y \in 0..Rows - 1, gate[y] = w
                  PROVE  FALSE
                <5>1. \E i \in 1..Len(frames[w]) : TRUE
                    BY <1>1, <4>1, <4>2, <4>3 DEF GatesMatchCalls, SharedOK
                <5> QED BY <4>1, <5>1
            <4> QED BY <1>2, <4>3
        <3> QED BY <1>2, <3>1 DEF GateStep
    <2>7. AnswerStep(w)
        BY <1>1, <1>2, <2>2 DEF LocalsOK, AnswerStep, Answers, Parking
    <2> QED BY <2>4, <2>5, <2>6, <2>7 DEF StepOK
<1>4. CASE ~ed_ready(task[w])
    <2> DEFINE park == [key |-> task[w], deps |-> {}, caller |-> "worker"]
    <2>1. park \in Parkings /\ park.key = task[w] /\ park.caller = "worker"
        BY <1>2 DEF Parkings, TaskCallers
    <2>2. parking' = [parking EXCEPT ![w] = park] /\ pc' = [pc EXCEPT ![w] = "missing"]
          /\ UNCHANGED frames
        BY <1>4 DEF CheckReady, Goto, Park
    <2> HIDE DEF park
    <2>4. SharedOK' /\ LocalsOK' /\ OnlyOwn(w) /\ Grows
        BY <1>1, <1>2, <2>1, <2>2 DEF SharedOK, LocalsOK, OnlyOwn, Grows, Labels, Parking
    <2>5. WorkerOK(w)'
        BY <1>1, <1>2, <2>1, <2>2 DEF LocalsOK, WorkerOK, ParkOK, Parking, Computing, Waking,
            TaskCallers
    <2>7. AnswerStep(w)
        BY <1>1, <1>2, <2>1, <2>2 DEF LocalsOK, AnswerStep, Answers, Parking
    <2> QED BY <1>2, <2>2, <2>4, <2>5, <2>7, SameGates DEF StepOK
<1> QED BY <1>3, <1>4

\* block_on, whoever called it.
LEMMA BlockOnStep ==
    ASSUME NEW w \in Workers, WavefrontInv, BlockOn(w)
    PROVE  StepOK(w)
<1>1. CASE UnblockKey(w, "unblock", "scrub", "register") \/ UnblockKey(w, "unpark", "scrub_runnable", "runnable")
    BY <1>1, UnblockKeyStep
<1>2. CASE Scrub(w, "scrub", "register") \/ Scrub(w, "scrub_runnable", "runnable")
    BY <1>2, ScrubStep
<1> QED BY <1>1, <1>2, MissingStep, RegisterStep, NothingToWaitForStep, PublishStep, RecheckStep,
           ParkedStep, RunnableAgainStep, RunnableIgnoredStep, RunnableWokenStep DEF BlockOn

-----------------------------------------------------------------------------
(* compute_processed_tile.                                                 *)

\* A call returns: its gate opens; without an outer call the task is done.
LEMMA ReturnOkStep ==
    ASSUME NEW w \in Workers, WavefrontInv, frames[w] # <<>>, Top(w).key \in fresh, ReturnOk(w),
           pc[w] \notin Parking,
           UNCHANGED <<fresh, waiting_on, blocked, let_go, parking, waiters, dependents>>,
           column' \in [Workers -> 0..Cols - 1], ready' \in [Workers -> SUBSET Keys],
           \A u \in Workers : u # w => column'[u] = column[u] /\ ready'[u] = ready[u],
           queued \subseteq queued', queued' \subseteq Keys,
           ready[w] \subseteq ready'[w] \union queued'
    PROVE  StepOK(w)
<1>1. SharedOK /\ LocalsOK /\ WorkerOK(w) /\ GatesMatchCalls
    BY InvParts
<1> DEFINE n == Len(frames[w])
<1>2. /\ n \in Nat /\ n > 0 /\ \A i \in 1..n : frames[w][i] \in Frame
      /\ frames[w] \in Seq(Frame) /\ Top(w) = frames[w][n] /\ Row(Top(w).key) \in 0..Rows - 1
      /\ frames[w][1].key = task[w] /\ task[w] # None
    <2>1. pc[w] # "idle"
        BY <1>1 DEF WorkerOK
    <2> QED BY <1>1, <2>1, CallFacts DEF LocalsOK, WorkerOK, Top
<1> HIDE DEF n, Frame
<1> DEFINE rest == SubSeq(frames[w], 1, n - 1)
<1>3. /\ rest \in Seq(Frame) /\ Len(rest) = n - 1
      /\ \A i \in 1..n - 1 : rest[i] = frames[w][i]
    BY <1>2
<1>4. frames' = [frames EXCEPT ![w] = rest]
    BY <1>1 DEF ReturnOk, n, LocalsOK
<1> HIDE DEF rest
<1>5. gate' \in [0..Rows - 1 -> Workers \union {None}]
    BY <1>1, <1>2 DEF ReturnOk, SharedOK
<1>6. \/ n = 1 /\ pc' = [pc EXCEPT ![w] = "idle"] /\ task' = [task EXCEPT ![w] = None]
      \/ n > 1 /\ pc' = [pc EXCEPT ![w] = "above"] /\ UNCHANGED task
    <2>1. n = 1 \/ n > 1
        BY <1>2
    <2>2. CASE n = 1
        BY <2>2 DEF ReturnOk, Goto, n
    <2>3. CASE n > 1
        BY <2>3 DEF ReturnOk, Goto, n
    <2> QED BY <2>1, <2>2, <2>3
<1>7. SharedOK' /\ LocalsOK' /\ OnlyOwn(w) /\ Grows
    <2>1. frames' \in [Workers -> Seq(Frame)] /\ \A u \in Workers : u # w => frames'[u] = frames[u]
        BY <1>1, <1>3, <1>4 DEF LocalsOK
    <2>2. \A u \in Workers : u # w => pc'[u] = pc[u] /\ task'[u] = task[u]
        BY <1>1, <1>6 DEF LocalsOK
    <2>3. pc' \in [Workers -> Labels] /\ task' \in [Workers -> Keys \union {None}]
        BY <1>1, <1>6 DEF LocalsOK, Labels, Computing
    <2> QED BY <1>1, <1>5, <2>1, <2>2, <2>3 DEF SharedOK, LocalsOK, OnlyOwn, Grows
<1>8. WorkerOK(w)'
    <2>1. frames'[w] = rest
        BY <1>1, <1>4 DEF LocalsOK
    <2>2. CASE n = 1
        <3>1. rest = <<>>
            BY <1>3, <2>2
        <3>2. pc'[w] = "idle" /\ task'[w] = None
            BY <1>1, <1>6, <2>2 DEF LocalsOK
        <3> QED BY <2>1, <3>1, <3>2 DEF WorkerOK, Parking, Computing, Waking
    <2>3. CASE n > 1
        <3>1. rest # <<>> /\ rest[1] = frames[w][1]
            BY <1>2, <1>3, <2>3
        <3>2. pc'[w] = "above" /\ task'[w] = task[w]
            BY <1>1, <1>2, <1>6, <2>3 DEF LocalsOK
        <3> QED BY <1>2, <2>1, <3>1, <3>2 DEF WorkerOK, Parking, Computing, Waking
    <2> QED BY <1>2, <2>2, <2>3
<1>9. GateStep(w)
    <2>1. SUFFICES ASSUME NEW y \in 0..Rows - 1, gate'[y] = w
                   PROVE  InCall(w, y)'
        BY <1>1, <1>2 DEF GateStep, ReturnOk, SharedOK
    <2>2. gate[y] = w /\ y # Row(Top(w).key) /\ w # None
        BY <1>1, <1>2, <2>1, WavefrontAssumption DEF WavefrontAssumption, ReturnOk, SharedOK
    <2>3. PICK i \in 1..n : Row(frames[w][i].key) = y
        BY <1>1, <2>1, <2>2 DEF GatesMatchCalls, SharedOK, n
    <2>4. i \in 1..n - 1
        BY <1>2, <2>2, <2>3
    <2>5. frames'[w] = rest
        BY <1>1, <1>4 DEF LocalsOK
    <2> QED BY <1>3, <2>3, <2>4, <2>5 DEF InCall
<1>10. AnswerStep(w)
    <2>1. n = 1 => task[w] \in fresh
        BY <1>2
    <2>2. \A k \in Keys : Answers(w, k) => k \in ready[w] \/ task[w] = k
        BY DEF Answers
    <2>3. pc'[w] \notin Parking /\ (n = 1 \/ task'[w] = task[w])
        BY <1>1, <1>6 DEF LocalsOK, Parking
    <2>4. \A k \in Keys : k \in ready'[w] \/ task'[w] = k => Answers(w, k)'
        BY <2>3 DEF Answers, Parking
    <2> QED BY <2>1, <2>2, <2>3, <2>4 DEF AnswerStep
<1> QED BY <1>7, <1>8, <1>9, <1>10 DEF StepOK

\* A call goes on without touching what others see, but for its own row.
Quietly(w, to) ==
    /\ pc' = [pc EXCEPT ![w] = to]
    /\ UNCHANGED <<fresh, queued, blocked, gate, let_go, task, frames, parking, ready>>
    /\ waiting_on' \in [Keys -> SUBSET Keys]
    /\ column' \in [Workers -> 0..Cols - 1]
    /\ \A u \in Workers : u # w => column'[u] = column[u]
    /\ waiters' \in [Workers -> SUBSET Keys]
    /\ dependents' \in [Workers -> Seq(Keys)]
    /\ to = "insert" => column'[w] = 0

LEMMA QuietStep ==
    ASSUME NEW w \in Workers, WavefrontInv, pc[w] \in Computing \union Waking,
           NEW to \in Computing \union Waking, Quietly(w, to),
           to \in Waking => pc[w] \in Waking
    PROVE  StepOK(w)
<1>1. SharedOK /\ LocalsOK /\ WorkerOK(w)
    BY InvParts
<1>2. pc'[w] = to /\ UNCHANGED <<fresh, queued, blocked, gate, let_go, task, frames, parking, ready>>
    BY <1>1 DEF Quietly, LocalsOK
<1>3. pc[w] # "idle" /\ pc[w] \notin Parking /\ to # "idle" /\ to \notin Parking /\ to # "ready"
    BY DEF Computing, Waking, Parking
<1>4. SharedOK' /\ LocalsOK' /\ OnlyOwn(w) /\ Grows
    BY <1>1, <1>2 DEF SharedOK, LocalsOK, OnlyOwn, Grows, Quietly, Labels
<1>5. WorkerOK(w)'
    <2>1. Top(w)' = Top(w)
        BY <1>2 DEF Top
    <2>2. to = "insert" => 0..column'[w] - 1 = {}
        BY DEF Quietly
    <2> QED BY <1>1, <1>2, <1>3, <2>1, <2>2 DEF WorkerOK
<1>6. AnswerStep(w)
    BY <1>2, <1>3 DEF AnswerStep, Answers, Parking
<1> QED BY <1>2, <1>4, <1>5, <1>6, SameGates DEF StepOK

LEMMA QuietSteps ==
    ASSUME NEW w \in Workers, WavefrontInv,
           Enter(w) \/ StartStrip(w) \/ ComputeStrip(w) \/ Wake(w) \/ StartDependents(w) \/ NextCompleted(w)
    PROVE  StepOK(w)
<1>1. SharedOK /\ LocalsOK /\ WorkerOK(w) /\ column[w] \in 0..Cols - 1
    BY InvParts DEF LocalsOK
<1>2. CASE Enter(w)
    <2>1. Quietly(w, "claim") /\ pc[w] = "enter"
        BY <1>1, <1>2 DEF Enter, Goto, Quietly, SharedOK, LocalsOK, frontierVars, stripVars
    <2> QED BY <2>1, QuietStep DEF Computing, Waking
<1>3. CASE StartStrip(w)
    <2>1. Quietly(w, "above") /\ pc[w] = "claimed"
        BY <1>1, <1>3 DEF StartStrip, Goto, Quietly, SharedOK, LocalsOK, frontierVars, stripVars
    <2> QED BY <2>1, QuietStep DEF Computing, Waking
<1>4. CASE ComputeStrip(w)
    <2>1. Quietly(w, "insert") /\ pc[w] = "above"
        BY <1>1, <1>4, KeyFacts DEF ComputeStrip, Goto, Quietly, SharedOK, LocalsOK, frontierVars,
            stripVars
    <2> QED BY <2>1, QuietStep DEF Computing, Waking
<1>5. CASE Wake(w)
    <2>1. Completed(w) \in Keys
        BY <1>1, <1>5, CompletedFacts DEF Wake, WorkerOK, Waking
    <2>2. Quietly(w, "waiters") /\ pc[w] = "wake"
        BY <1>1, <1>5, <2>1 DEF Wake, Goto, Quietly, SharedOK, LocalsOK
    <2> QED BY <2>2, QuietStep DEF Computing, Waking
<1>6. CASE StartDependents(w)
    <2>1. ed_dependent_keys(Completed(w)) \in Seq(Keys)
        <3> HIDE DEF Keys
        <3> QED BY DEF ed_dependent_keys
    <2>2. Quietly(w, "dependents") /\ pc[w] = "waiters"
        BY <1>1, <1>6, <2>1 DEF StartDependents, Goto, Quietly, SharedOK, LocalsOK, frontierVars
    <2> QED BY <2>2, QuietStep DEF Computing, Waking
<1>7. CASE NextCompleted(w)
    <2>1. Quietly(w, "wake") /\ pc[w] = "dependents"
        BY <1>1, <1>7, KeyFacts DEF NextCompleted, Goto, Quietly, SharedOK, LocalsOK, frontierVars
    <2> QED BY <2>1, QuietStep DEF Computing, Waking
<1> QED BY <1>2, <1>3, <1>4, <1>5, <1>6, <1>7

LEMMA AlreadyFreshStep ==
    ASSUME NEW w \in Workers, WavefrontInv, AlreadyFresh(w)
    PROVE  StepOK(w)
<1>1. LocalsOK /\ WorkerOK(w) /\ SharedOK
    BY InvParts
<1>2. frames[w] # <<>> /\ pc[w] \notin Parking
    BY <1>1 DEF AlreadyFresh, WorkerOK, Computing, Parking
<1> QED BY <1>1, <1>2, ReturnOkStep DEF AlreadyFresh, frontierVars, LocalsOK, SharedOK

LEMMA EnqueueReadyStep ==
    ASSUME NEW w \in Workers, WavefrontInv, EnqueueReady(w)
    PROVE  StepOK(w)
<1>1. LocalsOK /\ WorkerOK(w) /\ SharedOK
    BY InvParts
<1>2. frames[w] # <<>> /\ pc[w] \notin Parking /\ Top(w).key \in fresh
    BY <1>1 DEF EnqueueReady, WorkerOK, Waking, Parking
<1>3. /\ column' \in [Workers -> 0..Cols - 1] /\ ready' \in [Workers -> SUBSET Keys]
      /\ \A u \in Workers : u # w => column'[u] = column[u] /\ ready'[u] = ready[u]
      /\ queued \subseteq queued' /\ queued' \subseteq Keys
      /\ ready[w] \subseteq ready'[w] \union queued'
    BY <1>1, KeyFacts DEF EnqueueReady, LocalsOK, SharedOK
<1> QED BY <1>1, <1>2, <1>3, ReturnOkStep DEF EnqueueReady, frontierVars

LEMMA ClaimStep ==
    ASSUME NEW w \in Workers, WavefrontInv, Claim(w)
    PROVE  StepOK(w)
<1>1. SharedOK /\ LocalsOK /\ WorkerOK(w) /\ GatesMatchCalls
    BY InvParts
<1> DEFINE row == Row(Top(w).key)
<1>2. /\ pc[w] = "claim" /\ pc' = [pc EXCEPT ![w] = "claimed"] /\ pc'[w] = "claimed"
      /\ frames[w] # <<>> /\ gate' = [gate EXCEPT ![row] = w]
      /\ UNCHANGED <<fresh, queued, waiting_on, blocked, let_go, task, parking, frames, column,
                     waiters, dependents, ready>>
    BY <1>1 DEF Claim, Goto, LocalsOK, WorkerOK, Computing, frontierVars, stripVars
<1>3. row \in 0..Rows - 1 /\ Len(frames[w]) \in Nat /\ Len(frames[w]) > 0
    BY <1>1, <1>2, CallFacts
<1>4. SharedOK' /\ LocalsOK' /\ OnlyOwn(w) /\ Grows
    BY <1>1, <1>2, <1>3 DEF SharedOK, LocalsOK, OnlyOwn, Grows, Labels, Computing
<1>5. WorkerOK(w)'
    BY <1>1, <1>2 DEF WorkerOK, Parking, Computing, Waking
<1>6. GateStep(w)
    <2>1. SUFFICES ASSUME NEW y \in 0..Rows - 1, gate'[y] = w
                   PROVE  InCall(w, y)'
        BY <1>1, <1>2, <1>3 DEF GateStep, SharedOK
    <2>2. CASE y = row
        BY <1>2, <1>3, <2>2 DEF InCall, Top
    <2>3. CASE y # row
        <3>1. gate[y] = w /\ w # None
            BY <1>1, <1>2, <1>3, <2>1, <2>3, WavefrontAssumption DEF WavefrontAssumption, SharedOK
        <3> QED BY <1>1, <1>2, <3>1 DEF GatesMatchCalls, SharedOK, InCall
    <2> QED BY <2>2, <2>3
<1>7. AnswerStep(w)
    BY <1>2 DEF AnswerStep, Answers, Parking
<1> QED BY <1>4, <1>5, <1>6, <1>7 DEF StepOK

\* An error ends every call of the worker: none of its gates stays closed.
LEMMA ReleasedAll ==
    ASSUME NEW w \in Workers, SharedOK, ReleaseAll(w)
    PROVE  GateStep(w) /\ gate' \in [0..Rows - 1 -> Workers \union {None}]
<1>1. None # w
    BY WavefrontAssumption DEF WavefrontAssumption
<1>2. \A y \in 0..Rows - 1 : gate'[y] = IF gate[y] = w THEN None ELSE gate[y]
    BY DEF ReleaseAll, SharedOK
<1>3. GateStep(w)
    BY <1>1, <1>2 DEF GateStep
<1>4. gate' \in [0..Rows - 1 -> Workers \union {None}]
    BY DEF ReleaseAll, SharedOK
<1> QED BY <1>3, <1>4

LEMMA DependenciesPendingStep ==
    ASSUME NEW w \in Workers, WavefrontInv, DependenciesPending(w)
    PROVE  StepOK(w)
<1>1. SharedOK /\ LocalsOK /\ WorkerOK(w)
    BY InvParts
<1>2. /\ pc[w] = "enter" /\ pc' = [pc EXCEPT ![w] = "idle"] /\ pc'[w] = "idle"
      /\ task' = [task EXCEPT ![w] = None] /\ task'[w] = None
      /\ frames' = [frames EXCEPT ![w] = <<>>] /\ frames'[w] = <<>>
      /\ let_go' = let_go \union {task[w]}
      /\ UNCHANGED <<fresh, queued, waiting_on, blocked, parking, column, waiters, dependents, ready>>
      /\ task[w] \in Keys
    BY <1>1 DEF DependenciesPending, Goto, LocalsOK, WorkerOK, frontierVars
<1>3. GateStep(w) /\ gate' \in [0..Rows - 1 -> Workers \union {None}]
    BY <1>1, ReleasedAll DEF DependenciesPending
<1>4. SharedOK' /\ LocalsOK' /\ OnlyOwn(w) /\ Grows
    <2>1. <<>> \in Seq(Frame)
        OBVIOUS
    <2>2. frames' \in [Workers -> Seq(Frame)]
        BY <1>1, <1>2, <2>1 DEF LocalsOK
    <2> QED BY <1>1, <1>2, <1>3, <2>2 DEF SharedOK, LocalsOK, OnlyOwn, Grows, Labels
<1>5. WorkerOK(w)'
    BY <1>2 DEF WorkerOK, Parking, Computing, Waking
<1>6. AnswerStep(w)
    BY <1>2 DEF AnswerStep, Answers, Parking
<1> QED BY <1>3, <1>4, <1>5, <1>6 DEF StepOK

LEMMA StripBusyStep ==
    ASSUME NEW w \in Workers, WavefrontInv, StripBusy(w)
    PROVE  StepOK(w)
<1>1. SharedOK /\ LocalsOK /\ WorkerOK(w)
    BY InvParts
<1>2. /\ pc[w] = "claim"
      /\ frames' = [frames EXCEPT ![w] = <<>>] /\ frames'[w] = <<>>
      /\ UNCHANGED <<fresh, waiting_on, blocked, let_go, column, waiters, dependents, ready>>
      /\ task[w] \in Keys /\ task[w] # None
    BY <1>1 DEF StripBusy, LocalsOK, WorkerOK, frontierVars
<1>3. GateStep(w) /\ gate' \in [0..Rows - 1 -> Workers \union {None}]
    BY <1>1, ReleasedAll DEF StripBusy
<1>4. frames' \in [Workers -> Seq(Frame)]
    <2>1. <<>> \in Seq(Frame)
        OBVIOUS
    <2> QED BY <1>1, <1>2, <2>1 DEF LocalsOK
<1>5. CASE ed_strip_busy_deps(task[w]) = {}
    <2>1. /\ queued' = queued \union {task[w]}
          /\ pc' = [pc EXCEPT ![w] = "idle"] /\ pc'[w] = "idle"
          /\ task' = [task EXCEPT ![w] = None] /\ task'[w] = None /\ UNCHANGED parking
        BY <1>1, <1>5 DEF StripBusy, Goto, LocalsOK
    <2>2. SharedOK' /\ LocalsOK' /\ OnlyOwn(w) /\ Grows
        BY <1>1, <1>2, <1>3, <1>4, <2>1 DEF SharedOK, LocalsOK, OnlyOwn, Grows, Labels
    <2>3. WorkerOK(w)'
        BY <1>2, <2>1 DEF WorkerOK, Parking, Computing, Waking
    <2>4. AnswerStep(w)
        BY <1>2, <2>1 DEF AnswerStep, Answers, Parking
    <2> QED BY <1>3, <2>2, <2>3, <2>4 DEF StepOK
<1>6. CASE ed_strip_busy_deps(task[w]) # {}
    <2> DEFINE park == [key |-> task[w], deps |-> ed_strip_busy_deps(task[w]), caller |-> "busy"]
    <2>1. park \in Parkings /\ park.key = task[w] /\ park.caller = "busy"
        <3>1. ed_strip_busy_deps(task[w]) \subseteq Keys
            BY <1>2, KeyFacts DEF ed_strip_busy_deps, Row
        <3> QED BY <1>2, <3>1 DEF Parkings, TaskCallers
    <2>2. /\ parking' = [parking EXCEPT ![w] = park]
          /\ pc' = [pc EXCEPT ![w] = "unblock"] /\ pc'[w] = "unblock"
          /\ UNCHANGED <<queued, task>>
        BY <1>1, <1>6 DEF StripBusy, Goto, Park, LocalsOK
    <2> HIDE DEF park
    <2>3. SharedOK' /\ LocalsOK' /\ OnlyOwn(w) /\ Grows
        BY <1>1, <1>2, <1>3, <1>4, <2>1, <2>2 DEF SharedOK, LocalsOK, OnlyOwn, Grows, Labels, Parking
    <2>4. WorkerOK(w)'
        BY <1>1, <1>2, <2>1, <2>2
           DEF LocalsOK, WorkerOK, ParkOK, Parking, Computing, Waking, TaskCallers
    <2>5. AnswerStep(w)
        BY <1>1, <1>2, <2>1, <2>2 DEF LocalsOK, AnswerStep, Answers, Parking
    <2> QED BY <1>3, <2>3, <2>4, <2>5 DEF StepOK
<1> QED BY <1>5, <1>6

LEMMA ComputeAboveStep ==
    ASSUME NEW w \in Workers, WavefrontInv, ComputeAbove(w)
    PROVE  StepOK(w)
<1>1. SharedOK /\ LocalsOK /\ WorkerOK(w) /\ GatesMatchCalls
    BY InvParts
<1>4. PICK x \in Above(w) :
        frames' = [frames EXCEPT ![w] =
            Append([@ EXCEPT ![Len(@)].up = x + 1],
                   [key |-> <<x, Row(Top(w).key) - 1>>, up |-> 0])]
    BY DEF ComputeAbove
<1> DEFINE n == Len(frames[w])
           call == [key |-> <<x, Row(Top(w).key) - 1>>, up |-> 0]
           waits == [frames[w] EXCEPT ![n].up = x + 1]
<1>2. /\ pc[w] = "above" /\ pc' = [pc EXCEPT ![w] = "enter"] /\ pc'[w] = "enter"
      /\ frames[w] # <<>>
      /\ frames' = [frames EXCEPT ![w] = Append(waits, call)] /\ frames'[w] = Append(waits, call)
      /\ UNCHANGED <<fresh, queued, waiting_on, blocked, gate, let_go, task, parking, column,
                     waiters, dependents, ready>>
      /\ frames[w][1].key = task[w] /\ task[w] # None
    BY <1>1, <1>4 DEF ComputeAbove, Goto, LocalsOK, WorkerOK, Computing, frontierVars
<1>3. /\ n \in Nat /\ n > 0 /\ frames[w] \in Seq(Frame) /\ Top(w) \in Frame
      /\ \A i \in 1..n : frames[w][i] \in Frame
    BY <1>1, <1>2, CallFacts DEF LocalsOK
<1>5. x \in 0..Cols - 1 /\ call.key \in Keys /\ x + 1 \in 0..Cols /\ call \in Frame
    <2>1. x \in Top(w).up..Cols - 1 /\ call.key \in Keys
        BY <1>4 DEF Above
    <2>2. Top(w).up \in Nat
        BY <1>3 DEF Frame
    <2>3. x \in 0..Cols - 1 /\ x + 1 \in 0..Cols /\ 0 \in 0..Cols
        BY <2>1, <2>2, KeyFacts
    <2> QED BY <2>1, <2>3 DEF Frame
<1>6. /\ waits \in Seq(Frame) /\ Len(waits) = n
      /\ \A i \in 1..n : waits[i].key = frames[w][i].key
    BY <1>3, <1>5 DEF Frame
<1> HIDE DEF call, waits, Frame
<1>7. /\ Append(waits, call) \in Seq(Frame) /\ Append(waits, call) # <<>>
      /\ Len(Append(waits, call)) = n + 1
      /\ \A i \in 1..n : Append(waits, call)[i] = waits[i]
    <2>1. Append(waits, call) \in Seq(Frame) /\ Len(Append(waits, call)) = Len(waits) + 1
        BY <1>5, <1>6
    <2>2. \A i \in 1..Len(waits) : Append(waits, call)[i] = waits[i]
        BY <1>5, <1>6
    <2>3. Append(waits, call) # <<>>
        BY <1>3, <1>6, <2>1
    <2> QED BY <1>6, <2>1, <2>2, <2>3
<1> HIDE DEF n
<1>8. SharedOK' /\ LocalsOK' /\ OnlyOwn(w) /\ Grows
    BY <1>1, <1>2, <1>7 DEF SharedOK, LocalsOK, OnlyOwn, Grows, Labels, Computing
<1>9. WorkerOK(w)'
    <2>1. frames'[w][1].key = task[w] /\ frames'[w] # <<>>
        BY <1>2, <1>3, <1>6, <1>7
    <2> QED BY <1>2, <2>1 DEF WorkerOK, Parking, Computing, Waking
<1>10. GateStep(w)
    <2>1. SUFFICES ASSUME NEW y \in 0..Rows - 1, gate[y] = w
                   PROVE  InCall(w, y)'
        BY <1>2 DEF GateStep
    <2>2. PICK i \in 1..n : Row(frames[w][i].key) = y
        BY <1>1, <2>1, WavefrontAssumption DEF WavefrontAssumption, GatesMatchCalls, SharedOK, n
    <2>3. i \in 1..Len(frames'[w]) /\ frames'[w][i].key = frames[w][i].key
        BY <1>2, <1>3, <1>6, <1>7
    <2> QED BY <2>2, <2>3 DEF InCall, Row
<1>11. AnswerStep(w)
    BY <1>2 DEF AnswerStep, Answers, Parking
<1> QED BY <1>8, <1>9, <1>10, <1>11 DEF StepOK

LEMMA InsertStep ==
    ASSUME NEW w \in Workers, WavefrontInv, Insert(w)
    PROVE  StepOK(w)
<1>1. SharedOK /\ LocalsOK /\ WorkerOK(w)
    BY InvParts
<1> DEFINE row == Row(Top(w).key)
<1>2. /\ pc[w] = "insert" /\ frames[w] # <<>> /\ task[w] # None /\ column[w] \in 0..Cols - 1
      /\ \A x \in 0..column[w] - 1 : <<x, row>> \in fresh
      /\ fresh' = fresh \union {<<column[w], row>>}
      /\ UNCHANGED <<queued, waiting_on, blocked, gate, let_go, task, parking, frames,
                     waiters, dependents, ready>>
    BY <1>1 DEF Insert, Completed, LocalsOK, WorkerOK, Computing, frontierVars
<1>3. <<column[w], row>> \in Keys /\ Top(w).key \in Keys
    BY <1>1, <1>2, CallFacts, KeyFacts
<1>4. Top(w)' = Top(w)
    BY <1>2 DEF Top
<1>5. CASE column[w] = Cols - 1
    <2>1. /\ column' = [column EXCEPT ![w] = 0]
          /\ pc' = [pc EXCEPT ![w] = "wake"] /\ pc'[w] = "wake"
        BY <1>1, <1>5 DEF Insert, Goto, LocalsOK
    <2>2. Top(w).key \in fresh'
        <3>1. Top(w).key = <<Top(w).key[1], row>> /\ Top(w).key[1] \in 0..Cols - 1
            BY <1>3, KeyFacts
        <3>2. Top(w).key[1] \in 0..column[w] - 1 \/ Top(w).key[1] = column[w]
            BY <1>2, <1>5, <3>1, KeyFacts
        <3> QED BY <1>2, <3>1, <3>2
    <2>3. SharedOK' /\ LocalsOK' /\ OnlyOwn(w) /\ Grows
        BY <1>1, <1>2, <1>3, <2>1, KeyFacts DEF SharedOK, LocalsOK, OnlyOwn, Grows, Labels, Waking
    <2>4. WorkerOK(w)'
        BY <1>1, <1>2, <1>4, <2>1, <2>2 DEF WorkerOK, Parking, Computing, Waking
    <2>5. AnswerStep(w)
        BY <1>2, <2>1 DEF AnswerStep, Answers, Parking
    <2> QED BY <1>2, <2>3, <2>4, <2>5, SameGates DEF StepOK
<1>6. CASE column[w] # Cols - 1
    <2>1. /\ column' = [column EXCEPT ![w] = column[w] + 1] /\ UNCHANGED pc
          /\ column'[w] = column[w] + 1
        BY <1>1, <1>6 DEF Insert, LocalsOK
    <2>2. column[w] + 1 \in 0..Cols - 1
        BY <1>2, <1>6, KeyFacts
    <2>3. SharedOK' /\ LocalsOK' /\ OnlyOwn(w) /\ Grows
        BY <1>1, <1>2, <1>3, <2>1, <2>2 DEF SharedOK, LocalsOK, OnlyOwn, Grows
    <2>4. WorkerOK(w)'
        <3>1. \A x \in 0..column'[w] - 1 : <<x, row>> \in fresh'
            BY <1>2, <2>1
        <3> QED BY <1>1, <1>2, <1>4, <2>1, <3>1 DEF WorkerOK, Parking, Computing, Waking
    <2>5. AnswerStep(w)
        BY <1>2, <2>1 DEF AnswerStep, Answers, Parking
    <2> QED BY <1>2, <2>3, <2>4, <2>5, SameGates DEF StepOK
<1> QED BY <1>5, <1>6

\* A wake looks at one key: it leaves it alone or calls block_on for it.
LEMMA ReconsiderStep ==
    ASSUME NEW w \in Workers, WavefrontInv, pc[w] \in {"waiters", "dependents"},
           NEW k \in Keys, Reconsider(w, k, pc[w]),
           UNCHANGED <<fresh, queued, waiting_on, blocked, gate, let_go, task, frames, column, ready>>,
           waiters' \in [Workers -> SUBSET Keys], dependents' \in [Workers -> Seq(Keys)]
    PROVE  StepOK(w)
<1>1. SharedOK /\ LocalsOK /\ WorkerOK(w)
    BY InvParts
<1>2. frames[w] # <<>> /\ Top(w).key \in fresh /\ task[w] # None /\ Top(w)' = Top(w)
    BY <1>1 DEF WorkerOK, Waking, Top
<1>3. CASE UNCHANGED <<pc, parking>>
    <2>1. SharedOK' /\ LocalsOK' /\ OnlyOwn(w) /\ Grows
        BY <1>1, <1>3 DEF SharedOK, LocalsOK, OnlyOwn, Grows
    <2>2. WorkerOK(w)'
        BY <1>1, <1>2, <1>3 DEF WorkerOK, ParkOK
    <2>3. AnswerStep(w)
        BY <1>3 DEF AnswerStep, Answers
    <2> QED BY <2>1, <2>2, <2>3, SameGates DEF StepOK
<1>4. ASSUME blocked[k] # None
      PROVE  StepOK(w)
    <2> DEFINE park == [key |-> k, deps |-> {}, caller |-> pc[w]]
    <2>1. park \in Parkings /\ park.key = k /\ park.caller \in WakeCallers
        BY DEF Parkings, WakeCallers
    <2>2. PICK to \in {"unpark", "missing"} :
            parking' = [parking EXCEPT ![w] = park] /\ pc' = [pc EXCEPT ![w] = to]
        BY <1>4 DEF Reconsider, Park, Goto
    <2> HIDE DEF park
    <2>3. parking'[w] = park /\ pc'[w] = to
        BY <1>1, <2>2 DEF LocalsOK
    <2>4. SharedOK' /\ LocalsOK' /\ OnlyOwn(w) /\ Grows
        BY <1>1, <2>1, <2>2 DEF SharedOK, LocalsOK, OnlyOwn, Grows, Labels, Parking
    <2>5. WorkerOK(w)'
        BY <1>1, <1>2, <2>1, <2>3 DEF WorkerOK, ParkOK, Parking, Computing, Waking
    <2>6. AnswerStep(w)
        BY <2>3 DEF AnswerStep, Answers, Parking
    <2> QED BY <2>4, <2>5, <2>6, SameGates DEF StepOK
<1> QED BY <1>3, <1>4 DEF Reconsider

LEMMA NextWaiterStep ==
    ASSUME NEW w \in Workers, WavefrontInv, NextWaiter(w)
    PROVE  StepOK(w)
<1>1. LocalsOK
    BY InvParts
<1>2. PICK k \in waiters[w] :
        waiters' = [waiters EXCEPT ![w] = waiters[w] \ {k}] /\ Reconsider(w, k, "waiters")
    BY DEF NextWaiter
<1>3. k \in Keys /\ waiters' \in [Workers -> SUBSET Keys]
    BY <1>1, <1>2 DEF LocalsOK
<1> QED BY <1>1, <1>2, <1>3, ReconsiderStep DEF NextWaiter, LocalsOK, frontierVars

LEMMA NextDependentStep ==
    ASSUME NEW w \in Workers, WavefrontInv, NextDependent(w)
    PROVE  StepOK(w)
<1>1. LocalsOK
    BY InvParts
<1>2. dependents[w] \in Seq(Keys) /\ dependents[w] # <<>>
    BY <1>1 DEF LocalsOK, NextDependent
<1>3. Head(dependents[w]) \in Keys /\ Tail(dependents[w]) \in Seq(Keys)
    <2> HIDE DEF Keys
    <2> QED BY <1>2
<1>4. dependents' \in [Workers -> Seq(Keys)]
    BY <1>1, <1>3 DEF NextDependent, LocalsOK
<1> QED BY <1>1, <1>3, <1>4, ReconsiderStep DEF NextDependent, LocalsOK, frontierVars

-----------------------------------------------------------------------------
(* Wakes.  A parked task that could run is in somebody's hands, or a       *)
(* worker that publishes one of its neighbours has yet to look at it.      *)

Phase(w) == IF pc[w] \in Parking THEN parking[w].caller ELSE pc[w]

\* block_on parks on missing neighbours, or on the own row of a busy strip.
DepsOK(w) ==
    /\ pc[w] = "missing" => parking[w].caller # "busy"
    /\ pc[w] \in {"unblock", "scrub", "register", "publish", "recheck"} =>
        IF parking[w].caller = "busy" THEN parking[w].deps = ed_strip_busy_deps(parking[w].key)
        ELSE parking[w].deps \subseteq ed_dependency_keys(parking[w].key)

Handles(w, k) ==
    /\ pc[w] \in Parking /\ parking[w].key = k
    /\ \/ pc[w] \in {"missing", "unblock", "unpark"}
       \/ pc[w] = "recheck" /\ parking[w].caller # "busy"

\* The columns of its row a worker has not finished waking for.
Ahead(w, x) ==
    \/ Phase(w) = "insert"
    \/ Phase(w) \in {"wake", "waiters"} /\ x >= column[w]
    \/ Phase(w) = "dependents" /\ x > column[w]

WillLookAt(w, k) ==
    \/ \E d \in ed_dependency_keys(k) : Ahead(w, d[1]) /\ Row(d) = Row(Top(w).key)
    \/ Phase(w) = "dependents" /\ \E i \in 1..Len(dependents[w]) : dependents[w][i] = k

Responsible(w, k) == Handles(w, k) \/ WillLookAt(w, k)

\* Parked on its neighbours, all of which are there.
CouldRun(k) == blocked[k] # None /\ blocked[k] # ed_strip_busy_deps(k) /\ ed_ready(k)

WakesPending == \A k \in Keys : CouldRun(k) => \E w \in Workers : Responsible(w, k)

\* What a step of a worker has to show.
WakeStep(w) ==
    \A k \in Keys : CouldRun(k)' =>
        Responsible(w, k)' \/ (CouldRun(k) /\ ~Responsible(w, k))

WakeOK(w) ==
    /\ DepsOK(w)' /\ WakeStep(w)
    /\ \A u \in Workers : u # w => dependents'[u] = dependents[u]

WakeInv == (\A w \in Workers : DepsOK(w)) /\ WakesPending

LEMMA WakeOKKeeps ==
    ASSUME NEW w \in Workers, WakeInv, OnlyOwn(w), WakeOK(w)
    PROVE  WakeInv'
<1>1. ASSUME NEW u \in Workers, u # w
      PROVE  /\ DepsOK(u) => DepsOK(u)'
             /\ \A k \in Keys : Responsible(u, k) => Responsible(u, k)'
    <2>1. /\ pc'[u] = pc[u] /\ frames'[u] = frames[u] /\ parking'[u] = parking[u]
          /\ column'[u] = column[u] /\ dependents'[u] = dependents[u]
        BY <1>1 DEF OnlyOwn, WakeOK
    <2>2. Top(u)' = Top(u) /\ Phase(u)' = Phase(u)
        BY <2>1 DEF Top, Phase
    <2> QED BY <2>1, <2>2 DEF DepsOK, Responsible, Handles, WillLookAt, Ahead
<1>2. \A u \in Workers : DepsOK(u)'
    BY <1>1 DEF WakeInv, WakeOK
<1>3. ASSUME NEW k \in Keys, CouldRun(k)'
      PROVE  \E u \in Workers : Responsible(u, k)'
    <2>1. CASE Responsible(w, k)'
        BY <2>1
    <2>2. CASE CouldRun(k) /\ ~Responsible(w, k)
        <3>1. PICK u \in Workers : Responsible(u, k)
            BY <2>2 DEF WakeInv, WakesPending
        <3> QED BY <1>1, <2>2, <3>1
    <2> QED BY <1>3, <2>1, <2>2 DEF WakeOK, WakeStep
<1> QED BY <1>2, <1>3 DEF WakeInv, WakesPending

\* While nothing is taken out of blocked and nothing is published, a worker
\* has only to stay responsible.
LEMMA StaysResponsible ==
    ASSUME NEW w \in Workers, UNCHANGED <<blocked, fresh>>,
           \A k \in Keys : CouldRun(k) /\ Responsible(w, k) => Responsible(w, k)'
    PROVE  WakeStep(w)
<1>1. \A k \in Keys : CouldRun(k)' <=> CouldRun(k)
    BY DEF CouldRun, ed_ready
<1> QED BY <1>1 DEF WakeStep

LEMMA NotResponsible ==
    ASSUME NEW w, pc[w] \notin Parking \union Waking \union {"insert"}
    PROVE  \A k : ~Responsible(w, k)
BY DEF Responsible, Handles, WillLookAt, Ahead, Phase, Waking

\* The worker loop and the part of a call before its row is published.
LEMMA OutsideWakes ==
    ASSUME NEW w \in Workers, WavefrontInv, DepsOK(w),
           \/ Dequeue(w) \/ CheckReady(w) \/ DependenciesPending(w) \/ Enter(w) \/ AlreadyFresh(w)
           \/ Claim(w) \/ StripBusy(w) \/ StartStrip(w) \/ ComputeAbove(w) \/ ComputeStrip(w)
    PROVE  WakeOK(w)
<1>1. LocalsOK
    BY InvParts
<1>2. /\ pc[w] \in {"idle", "ready", "enter", "claim", "claimed", "above"}
      /\ UNCHANGED <<blocked, fresh, dependents>>
    BY DEF Dequeue, CheckReady, DependenciesPending, Enter, AlreadyFresh, Claim, StripBusy, StartStrip,
           ComputeAbove, ComputeStrip, frontierVars, stripVars
<1>3. WakeStep(w)
    <2>1. pc[w] \notin Parking \union Waking \union {"insert"}
        BY <1>2 DEF Parking, Waking
    <2> QED BY <1>2, <2>1, NotResponsible, StaysResponsible
<1>4. DepsOK(w)'
    <2>1. CASE StripBusy(w) /\ ed_strip_busy_deps(task[w]) # {}
        <3>1. /\ parking'[w] = [key |-> task[w], deps |-> ed_strip_busy_deps(task[w]), caller |-> "busy"]
              /\ pc'[w] = "unblock"
            BY <1>1, <2>1 DEF StripBusy, Park, Goto, LocalsOK
        <3> QED BY <3>1 DEF DepsOK
    <2>2. CASE StripBusy(w) /\ ed_strip_busy_deps(task[w]) = {}
        <3>1. pc'[w] = "idle"
            BY <1>1, <2>2 DEF StripBusy, Goto, LocalsOK
        <3> QED BY <3>1 DEF DepsOK
    <2>3. CASE AlreadyFresh(w)
        <3>1. pc'[w] \in {"idle", "above"}
            BY <1>1, <2>3 DEF AlreadyFresh, ReturnOk, Goto, LocalsOK
        <3> QED BY <3>1 DEF DepsOK
    <2>4. CASE CheckReady(w)
        <3>1. pc'[w] = "enter" \/ (pc'[w] = "missing" /\ parking'[w].caller = "worker")
            BY <1>1, <2>4 DEF CheckReady, Park, Goto, LocalsOK
        <3> QED BY <3>1 DEF DepsOK
    <2>5. CASE \/ Dequeue(w) \/ DependenciesPending(w) \/ Enter(w) \/ Claim(w) \/ StartStrip(w)
               \/ ComputeAbove(w) \/ ComputeStrip(w)
        <3>1. pc'[w] \in {"ready", "idle", "claim", "claimed", "above", "enter", "insert"}
            BY <1>1, <2>5 DEF Dequeue, DependenciesPending, Enter, Claim, StartStrip, ComputeAbove,
                              ComputeStrip, Goto, LocalsOK
        <3> QED BY <3>1 DEF DepsOK
    <2> QED BY <2>1, <2>2, <2>3, <2>4, <2>5
<1> QED BY <1>2, <1>3, <1>4 DEF WakeOK

\* Steps of block_on that leave blocked alone and stay inside.
LEMMA BlockOnWakes ==
    ASSUME NEW w \in Workers, WavefrontInv, DepsOK(w),
           \/ Missing(w) \/ Scrub(w, "scrub", "register") \/ Scrub(w, "scrub_runnable", "runnable")
           \/ Register(w) \/ NothingToWaitFor(w)
    PROVE  WakeOK(w)
<1>1. LocalsOK
    BY InvParts
<1>2. /\ UNCHANGED <<blocked, fresh, frames, column, dependents>>
      /\ parking'[w].key = parking[w].key /\ parking'[w].caller = parking[w].caller
      /\ \/ pc[w] = "missing" /\ pc'[w] = "unblock"
         \/ pc[w] = "scrub" /\ pc'[w] = "register"
         \/ pc[w] = "scrub_runnable" /\ pc'[w] = "runnable"
         \/ pc[w] = "register" /\ pc'[w] \in {"publish", "runnable"}
    BY <1>1 DEF Missing, Scrub, Register, NothingToWaitFor, Goto, LocalsOK, Parkings, frontierVars,
        stripVars
<1>3. WakeStep(w)
    <2>1. Phase(w)' = Phase(w) /\ Top(w)' = Top(w)
        BY <1>2 DEF Phase, Top, Parking
    <2>2. \A k \in Keys : Responsible(w, k) => Responsible(w, k)'
        BY <1>2, <2>1 DEF Responsible, Handles, WillLookAt, Ahead, Parking
    <2> QED BY <1>2, <2>2, StaysResponsible
<1>4. DepsOK(w)'
    <2>1. CASE Missing(w)
        <3>1. /\ parking'[w].deps = ed_missing_deps(parking[w].key) /\ pc[w] = "missing"
              /\ parking[w].caller # "busy"
            BY <1>1, <2>1 DEF Missing, LocalsOK, Parkings, DepsOK
        <3> QED BY <1>2, <3>1 DEF DepsOK, ed_missing_deps
    <2>2. CASE ~Missing(w)
        <3>1. parking' = parking /\ pc[w] # "missing"
            BY <2>2 DEF Scrub, Register, NothingToWaitFor
        <3> QED BY <1>2, <3>1 DEF DepsOK
    <2> QED BY <2>1, <2>2
<1> QED BY <1>2, <1>3, <1>4 DEF WakeOK

\* An entry taken out of blocked is nobody's wake any more.
LEMMA UnblockKeyWakes ==
    ASSUME NEW w \in Workers, WavefrontInv, DepsOK(w),
           \/ UnblockKey(w, "unblock", "scrub", "register")
           \/ UnblockKey(w, "unpark", "scrub_runnable", "runnable")
    PROVE  WakeOK(w)
<1>1. LocalsOK /\ SharedOK /\ WorkerOK(w)
    BY InvParts
<1>2. /\ UNCHANGED <<fresh, frames, column, dependents, parking>>
      /\ blocked' = [blocked EXCEPT ![parking[w].key] = None]
      /\ \/ pc[w] = "unblock" /\ pc'[w] \in {"scrub", "register"}
         \/ pc[w] = "unpark" /\ pc'[w] \in {"scrub_runnable", "runnable"}
    BY <1>1 DEF UnblockKey, Goto, LocalsOK, stripVars
<1>3. WakeStep(w)
    <2>1. SUFFICES ASSUME NEW k \in Keys, CouldRun(k)'
                   PROVE  Responsible(w, k)' \/ (CouldRun(k) /\ ~Responsible(w, k))
        BY DEF WakeStep
    <2>2. k # parking[w].key /\ CouldRun(k)
        BY <1>1, <1>2, <2>1 DEF CouldRun, SharedOK, ed_ready
    <2>3. Phase(w)' = Phase(w) /\ Top(w)' = Top(w)
        BY <1>2 DEF Phase, Top, Parking
    <2>4. Responsible(w, k) => Responsible(w, k)'
        BY <1>2, <2>2, <2>3 DEF Responsible, Handles, WillLookAt, Ahead
    <2> QED BY <2>2, <2>4
<1>4. DepsOK(w)'
    BY <1>2 DEF DepsOK
<1> QED BY <1>2, <1>3, <1>4 DEF WakeOK

\* A task parked on its neighbours is looked at once more by who parked it.
LEMMA PublishWakes ==
    ASSUME NEW w \in Workers, WavefrontInv, DepsOK(w), Publish(w)
    PROVE  WakeOK(w)
<1>1. LocalsOK /\ SharedOK /\ WorkerOK(w)
    BY InvParts
<1>2. /\ UNCHANGED <<fresh, frames, column, dependents, parking>>
      /\ blocked' = [blocked EXCEPT ![parking[w].key] = parking[w].deps]
      /\ pc[w] = "publish" /\ pc'[w] = "recheck"
    BY <1>1 DEF Publish, Goto, LocalsOK, stripVars
<1>3. WakeStep(w)
    <2>1. SUFFICES ASSUME NEW k \in Keys, CouldRun(k)'
                   PROVE  Responsible(w, k)' \/ (CouldRun(k) /\ ~Responsible(w, k))
        BY DEF WakeStep
    <2>2. CASE k = parking[w].key
        <3>1. blocked'[k] = parking[w].deps /\ blocked'[k] # ed_strip_busy_deps(k)
            BY <1>1, <1>2, <2>1, <2>2 DEF CouldRun, SharedOK
        <3>2. parking[w].caller # "busy"
            BY <1>2, <2>2, <3>1 DEF DepsOK
        <3> QED BY <1>2, <2>2, <3>2 DEF Responsible, Handles, Parking
    <2>3. CASE k # parking[w].key
        <3>1. CouldRun(k)
            BY <1>1, <1>2, <2>1, <2>3 DEF CouldRun, SharedOK, ed_ready
        <3>2. Phase(w)' = Phase(w) /\ Top(w)' = Top(w)
            BY <1>2 DEF Phase, Top, Parking
        <3>3. Responsible(w, k) => Responsible(w, k)'
            BY <1>2, <2>3, <3>2 DEF Responsible, Handles, WillLookAt, Ahead
        <3> QED BY <3>1, <3>3
    <2> QED BY <2>2, <2>3
<1>4. DepsOK(w)'
    BY <1>2 DEF DepsOK
<1> QED BY <1>2, <1>3, <1>4 DEF WakeOK

LEMMA RecheckWakes ==
    ASSUME NEW w \in Workers, WavefrontInv, DepsOK(w), Recheck(w)
    PROVE  WakeOK(w)
<1>1. LocalsOK
    BY InvParts
<1>2. /\ UNCHANGED <<blocked, fresh, frames, column, dependents, parking>>
      /\ pc[w] = "recheck" /\ pc'[w] = IF parking[w].deps \subseteq fresh THEN "unpark" ELSE "parked"
    BY <1>1 DEF Recheck, Goto, LocalsOK, frontierVars, stripVars
<1>3. WakeStep(w)
    <2>1. Phase(w)' = Phase(w) /\ Top(w)' = Top(w)
        BY <1>2 DEF Phase, Top, Parking
    <2>2. ASSUME NEW k \in Keys, CouldRun(k), Responsible(w, k)
          PROVE  Responsible(w, k)'
        <3>1. CASE Handles(w, k)
            <4>1. parking[w].key = k /\ parking[w].caller # "busy"
                BY <1>2, <3>1 DEF Handles
            <4>2. parking[w].deps \subseteq fresh
                BY <1>2, <2>2, <4>1 DEF DepsOK, CouldRun, ed_ready
            <4> QED BY <1>2, <4>1, <4>2 DEF Responsible, Handles, Parking
        <3>2. CASE WillLookAt(w, k)
            BY <1>2, <2>1, <3>2 DEF Responsible, WillLookAt, Ahead
        <3> QED BY <2>2, <3>1, <3>2 DEF Responsible
    <2> QED BY <1>2, <2>2, StaysResponsible
<1>4. DepsOK(w)'
    BY <1>2 DEF DepsOK
<1> QED BY <1>2, <1>3, <1>4 DEF WakeOK

\* block_on returns to the wake that called it, which goes on.
LEMMA LeaveWakes ==
    ASSUME NEW w \in Workers, WavefrontInv, DepsOK(w),
           Parked(w) \/ RunnableAgain(w) \/ RunnableIgnored(w) \/ RunnableWoken(w)
    PROVE  WakeOK(w)
<1>1. LocalsOK /\ WorkerOK(w)
    BY InvParts
<1>2. /\ UNCHANGED <<blocked, fresh, frames, column, dependents>>
      /\ pc[w] \in {"parked", "runnable"} /\ \E caller : LeaveBlockOn(w, caller)
    BY DEF Parked, RunnableAgain, RunnableIgnored, RunnableWoken, frontierVars, stripVars
<1>3. PICK caller : LeaveBlockOn(w, caller)
    BY <1>2
<1>4. \/ caller \in TaskCallers /\ parking[w].caller = caller /\ pc'[w] = "idle"
      \/ caller \in WakeCallers /\ parking[w].caller = caller /\ pc'[w] = caller
    <2>1. /\ parking[w].caller = caller
          /\ \/ caller \in TaskCallers /\ pc' = [pc EXCEPT ![w] = "idle"]
             \/ caller \in WakeCallers /\ pc' = [pc EXCEPT ![w] = caller]
        BY <1>1, <1>2, <1>3, Left
    <2> QED BY <1>1, <2>1 DEF LocalsOK
<1>5. WakeStep(w)
    <2>1. \A k : ~Handles(w, k)
        BY <1>2 DEF Handles
    <2>2. CASE caller \in TaskCallers
        <3>1. Phase(w) \in TaskCallers
            BY <1>2, <1>4, <2>2 DEF Phase, Parking, TaskCallers, WakeCallers
        <3>2. \A k : ~WillLookAt(w, k)
            BY <3>1 DEF WillLookAt, Ahead, TaskCallers
        <3> QED BY <1>2, <2>1, <3>2, StaysResponsible DEF Responsible
    <2>3. CASE caller \in WakeCallers
        <3>1. Phase(w)' = Phase(w) /\ Top(w)' = Top(w)
            BY <1>2, <1>4, <2>3 DEF Phase, Top, Parking, TaskCallers, WakeCallers
        <3>2. \A k \in Keys : Responsible(w, k) => Responsible(w, k)'
            BY <1>2, <2>1, <3>1 DEF Responsible, WillLookAt, Ahead
        <3> QED BY <1>2, <3>2, StaysResponsible
    <2> QED BY <1>4, <2>2, <2>3
<1>6. DepsOK(w)'
    BY <1>4 DEF DepsOK, TaskCallers, WakeCallers
<1> QED BY <1>2, <1>5, <1>6 DEF WakeOK

-----------------------------------------------------------------------------
(* The wakes themselves.                                                   *)

\* Dependents and dependencies are each other's converse.
LEMMA Converse ==
    ASSUME NEW d \in Keys, NEW k \in Keys, d \in ed_dependency_keys(k)
    PROVE  \E i \in 1..Len(ed_dependent_keys(d)) : ed_dependent_keys(d)[i] = k
<1> DEFINE Inside(e) == IF e \in Keys THEN <<e>> ELSE <<>>
           right == <<d[1] + 1, d[2]>>
           below == <<d[1], d[2] + 1>>
           diagonal == <<d[1] + 1, d[2] + 1>>
<1>1. k = right \/ k = below \/ k = diagonal
    BY KeyFacts DEF ed_dependency_keys, Keys
<1>2. ed_dependent_keys(d) = Inside(right) \o Inside(below) \o Inside(diagonal)
    BY DEF ed_dependent_keys
<1>3. /\ \A e : Inside(e) \in Seq(Keys)
      /\ Inside(k) = <<k>>
    <2> HIDE DEF Keys
    <2> QED OBVIOUS
<1> DEFINE In(s) == \E i \in 1..Len(s) : s[i] = k
<1>4. ASSUME NEW s \in Seq(Keys), NEW t \in Seq(Keys), In(s) \/ In(t)
      PROVE  s \o t \in Seq(Keys) /\ In(s \o t)
    <2> HIDE DEF Keys
    <2>1. /\ s \o t \in Seq(Keys) /\ Len(s \o t) = Len(s) + Len(t)
          /\ \A i \in 1..Len(s) : (s \o t)[i] = s[i]
          /\ \A i \in 1..Len(t) : (s \o t)[Len(s) + i] = t[i]
        OBVIOUS
    <2>2. CASE In(s)
        <3>1. PICK i \in 1..Len(s) : s[i] = k
            BY <2>2
        <3>2. i \in 1..Len(s \o t)
            BY <2>1, <3>1
        <3> QED BY <2>1, <3>1, <3>2
    <2>3. CASE In(t)
        <3>1. PICK i \in 1..Len(t) : t[i] = k
            BY <2>3
        <3>2. Len(s) + i \in 1..Len(s \o t)
            BY <2>1, <3>1
        <3> QED BY <2>1, <3>1, <3>2
    <2> QED BY <1>4, <2>2, <2>3
<1>5. In(<<k>>)
    <2>1. 1 \in 1..Len(<<k>>) /\ <<k>>[1] = k
        OBVIOUS
    <2> QED BY <2>1
<1>6. ASSUME NEW s \in Seq(Keys), NEW t \in Seq(Keys)
      PROVE  s \o t \in Seq(Keys)
    <2> HIDE DEF Keys
    <2> QED OBVIOUS
<1> HIDE DEF Inside, right, below, diagonal, Keys, In
<1>7. In(Inside(right)) \/ In(Inside(below)) \/ In(Inside(diagonal))
    BY <1>1, <1>3, <1>5
<1>8. In((Inside(right) \o Inside(below)) \o Inside(diagonal))
    <2>1. CASE In(Inside(right)) \/ In(Inside(below))
        <3>1. In(Inside(right) \o Inside(below)) /\ Inside(right) \o Inside(below) \in Seq(Keys)
            BY <1>3, <1>4, <2>1
        <3> QED BY <1>3, <1>4, <3>1
    <2>2. CASE In(Inside(diagonal))
        BY <1>3, <1>4, <1>6, <2>2
    <2> QED BY <1>7, <2>1, <2>2
<1> QED BY <1>2, <1>8 DEF In

\* A tile is there: its dependents come to the owner's list of wakes.
LEMMA InsertWakes ==
    ASSUME NEW w \in Workers, WavefrontInv, DepsOK(w), Insert(w)
    PROVE  WakeOK(w)
<1>1. LocalsOK /\ WorkerOK(w) /\ SharedOK /\ column[w] \in 0..Cols - 1
    BY InvParts DEF LocalsOK
<1>2. /\ UNCHANGED <<blocked, frames, dependents>> /\ fresh' = fresh \union {Completed(w)}
      /\ pc[w] = "insert" /\ frames[w] # <<>>
      /\ pc'[w] = "insert" \/ (pc'[w] = "wake" /\ column'[w] = 0)
    BY <1>1 DEF Insert, Goto, LocalsOK, WorkerOK, Computing, frontierVars
<1>3. Top(w)' = Top(w)
    BY <1>2 DEF Top
<1>4. WakeStep(w)
    <2>1. SUFFICES ASSUME NEW k \in Keys, CouldRun(k)', ~CouldRun(k) \/ Responsible(w, k)
                   PROVE  Responsible(w, k)'
        BY DEF WakeStep
    <2>2. PICK d \in ed_dependency_keys(k) : Row(d) = Row(Top(w).key)
        <3>1. CASE CouldRun(k)
            BY <1>2, <2>1, <3>1 DEF Responsible, Handles, WillLookAt, Phase, Parking
        <3>2. CASE ~CouldRun(k)
            <4>1. Completed(w) \in ed_dependency_keys(k)
                BY <1>2, <2>1, <3>2 DEF CouldRun, ed_ready
            <4> QED BY <4>1 DEF Completed, Row
        <3> QED BY <3>1, <3>2
    <2>3. d[1] \in 0..Cols - 1
        BY <2>2, KeyFacts DEF ed_dependency_keys
    <2>4. Ahead(w, d[1])'
        BY <1>2, <2>3 DEF Ahead, Phase, Parking
    <2> QED BY <1>3, <2>2, <2>4 DEF Responsible, WillLookAt
<1>5. DepsOK(w)'
    BY <1>2 DEF DepsOK
<1> QED BY <1>2, <1>4, <1>5 DEF WakeOK

LEMMA WakeWakes ==
    ASSUME NEW w \in Workers, WavefrontInv, DepsOK(w), Wake(w)
    PROVE  WakeOK(w)
<1>1. LocalsOK
    BY InvParts
<1>2. /\ UNCHANGED <<blocked, fresh, frames, column, dependents>>
      /\ pc[w] = "wake" /\ pc'[w] = "waiters"
    BY <1>1 DEF Wake, Goto, LocalsOK
<1>3. \A k \in Keys : Responsible(w, k) => Responsible(w, k)'
    <2>1. Top(w)' = Top(w)
        BY <1>2 DEF Top
    <2> QED BY <1>2, <2>1 DEF Responsible, Handles, WillLookAt, Ahead, Phase, Parking
<1> QED BY <1>2, <1>3, StaysResponsible DEF WakeOK, DepsOK

LEMMA StartDependentsWakes ==
    ASSUME NEW w \in Workers, WavefrontInv, DepsOK(w), StartDependents(w)
    PROVE  WakeOK(w)
<1>1. LocalsOK /\ column[w] \in 0..Cols - 1
    BY InvParts DEF LocalsOK
<1>2. /\ UNCHANGED <<blocked, fresh, frames, column>>
      /\ dependents' = [dependents EXCEPT ![w] = ed_dependent_keys(Completed(w))]
      /\ dependents'[w] = ed_dependent_keys(Completed(w))
      /\ pc[w] = "waiters" /\ pc'[w] = "dependents"
    BY <1>1 DEF StartDependents, Goto, LocalsOK, frontierVars
<1>3. Top(w)' = Top(w) /\ Phase(w) = "waiters" /\ Phase(w)' = "dependents"
    BY <1>2 DEF Top, Phase, Parking
<1>4. ASSUME NEW k \in Keys, Responsible(w, k)
      PROVE  Responsible(w, k)'
    <2>1. PICK d \in ed_dependency_keys(k) : Row(d) = Row(Top(w).key) /\ d[1] >= column[w]
        BY <1>2, <1>3, <1>4 DEF Responsible, Handles, WillLookAt, Ahead
    <2>2. d \in Keys /\ d[1] \in 0..Cols - 1 /\ d = <<d[1], Row(d)>>
        BY <2>1, KeyFacts DEF ed_dependency_keys
    <2>3. CASE d[1] = column[w]
        <3>1. d = Completed(w)
            BY <2>1, <2>2, <2>3 DEF Completed
        <3>2. \E i \in 1..Len(dependents'[w]) : dependents'[w][i] = k
            BY <1>2, <2>1, <2>2, <3>1, Converse
        <3> QED BY <1>3, <3>2 DEF Responsible, WillLookAt
    <2>4. CASE d[1] > column[w]
        BY <1>2, <1>3, <2>1, <2>4 DEF Responsible, WillLookAt, Ahead
    <2> QED BY <1>1, <2>1, <2>2, <2>3, <2>4
<1>5. \A u \in Workers : u # w => dependents'[u] = dependents[u]
    BY <1>1, <1>2 DEF LocalsOK
<1> QED BY <1>2, <1>4, <1>5, StaysResponsible DEF WakeOK, DepsOK

\* What looking at a key does to the others.
LEMMA ReconsiderPhase ==
    ASSUME NEW w \in Workers, LocalsOK, NEW at \in WakeCallers, pc[w] = at,
           NEW k, Reconsider(w, k, at)
    PROVE  /\ Phase(w)' = Phase(w) /\ pc'[w] \in {at, "unpark", "missing"}
           /\ pc'[w] = "missing" => parking'[w].caller # "busy"
           /\ blocked[k] # None => Handles(w, k)'
<1>1. CASE blocked[k] = None
    BY <1>1 DEF Reconsider, Phase, WakeCallers
<1>2. CASE blocked[k] # None
    <2>1. /\ parking'[w] = [key |-> k, deps |-> {}, caller |-> at]
          /\ pc'[w] \in {"unpark", "missing"}
        BY <1>2 DEF Reconsider, Park, Goto, LocalsOK
    <2>2. Phase(w) = at
        BY DEF Phase, Parking, WakeCallers
    <2>3. Phase(w)' = at
        BY <2>1 DEF Phase, Parking
    <2>4. Handles(w, k)'
        BY <2>1 DEF Handles, Parking
    <2> QED BY <2>1, <2>2, <2>3, <2>4 DEF WakeCallers
<1> QED BY <1>1, <1>2

LEMMA NextWaiterWakes ==
    ASSUME NEW w \in Workers, WavefrontInv, DepsOK(w), NextWaiter(w)
    PROVE  WakeOK(w)
<1>1. LocalsOK
    BY InvParts
<1>2. PICK k \in waiters[w] : Reconsider(w, k, "waiters")
    BY DEF NextWaiter
<1>3. UNCHANGED <<blocked, fresh, frames, column, dependents>> /\ pc[w] = "waiters"
    BY DEF NextWaiter, frontierVars
<1>4. /\ Phase(w)' = Phase(w) /\ pc'[w] \in {"waiters", "unpark", "missing"}
      /\ pc'[w] = "missing" => parking'[w].caller # "busy"
    BY <1>1, <1>2, <1>3, ReconsiderPhase DEF WakeCallers
<1>5. \A j \in Keys : Responsible(w, j) => Responsible(w, j)'
    <2>1. Top(w)' = Top(w)
        BY <1>3 DEF Top
    <2> QED BY <1>3, <1>4, <2>1 DEF Responsible, Handles, WillLookAt, Ahead
<1> QED BY <1>3, <1>4, <1>5, StaysResponsible DEF WakeOK, DepsOK

LEMMA NextDependentWakes ==
    ASSUME NEW w \in Workers, WavefrontInv, DepsOK(w), NextDependent(w)
    PROVE  WakeOK(w)
<1>1. LocalsOK
    BY InvParts
<1>2. /\ UNCHANGED <<blocked, fresh, frames, column>> /\ pc[w] = "dependents"
      /\ dependents' = [dependents EXCEPT ![w] = Tail(dependents[w])]
      /\ dependents'[w] = Tail(dependents[w])
      /\ dependents[w] # <<>> /\ dependents[w] \in Seq(Keys)
    BY <1>1 DEF NextDependent, LocalsOK, frontierVars
<1>f. PICK first : first = Head(dependents[w]) /\ Reconsider(w, first, "dependents")
    BY DEF NextDependent
<1>3. /\ Phase(w)' = Phase(w) /\ pc'[w] \in {"dependents", "unpark", "missing"}
      /\ pc'[w] = "missing" => parking'[w].caller # "busy"
      /\ blocked[first] # None => Handles(w, first)'
    BY <1>1, <1>2, <1>f, ReconsiderPhase DEF WakeCallers
<1>4. Top(w)' = Top(w)
    BY <1>2 DEF Top
<1>5. ASSUME NEW k \in Keys, CouldRun(k), Responsible(w, k)
      PROVE  Responsible(w, k)'
    <2>1. CASE \E d \in ed_dependency_keys(k) : Ahead(w, d[1]) /\ Row(d) = Row(Top(w).key)
        BY <1>2, <1>3, <1>4, <2>1 DEF Responsible, WillLookAt, Ahead
    <2>2. CASE \E i \in 1..Len(dependents[w]) : dependents[w][i] = k
        <3>1. PICK i \in 1..Len(dependents[w]) : dependents[w][i] = k
            BY <2>2
        <3>2. CASE i = 1
            <4>1. k = first /\ blocked[first] # None
                BY <1>2, <1>5, <1>f, <3>1, <3>2 DEF CouldRun
            <4> QED BY <1>3, <4>1 DEF Responsible
        <3>3. CASE i # 1
            <4>1. i - 1 \in 1..Len(dependents'[w]) /\ dependents'[w][i - 1] = k
                <5>1. ASSUME NEW s \in Seq(Keys), s # <<>>, NEW j \in 1..Len(s), j # 1
                      PROVE  j - 1 \in 1..Len(Tail(s)) /\ Tail(s)[j - 1] = s[j]
                    <6> HIDE DEF Keys
                    <6> QED BY <5>1
                <5> QED BY <1>2, <3>1, <3>3, <5>1
            <4>2. Phase(w)' = "dependents"
                BY <1>2, <1>3 DEF Phase, Parking
            <4> QED BY <4>1, <4>2 DEF Responsible, WillLookAt
        <3> QED BY <3>2, <3>3
    <2> QED BY <1>2, <1>5, <2>1, <2>2 DEF Responsible, Handles, WillLookAt
<1>6. \A u \in Workers : u # w => dependents'[u] = dependents[u]
    BY <1>1, <1>2 DEF LocalsOK
<1> QED BY <1>2, <1>3, <1>5, <1>6, StaysResponsible DEF WakeOK, DepsOK

LEMMA LastDependentWakes ==
    ASSUME NEW w \in Workers, WavefrontInv, DepsOK(w), NextCompleted(w) \/ EnqueueReady(w)
    PROVE  WakeOK(w)
<1>1. LocalsOK /\ column[w] \in 0..Cols - 1
    BY InvParts DEF LocalsOK
<1>2. UNCHANGED <<blocked, fresh, dependents>> /\ pc[w] = "dependents" /\ dependents[w] = <<>>
    BY DEF NextCompleted, EnqueueReady, frontierVars
<1>3. Phase(w) = "dependents" /\ Len(dependents[w]) = 0
    BY <1>2 DEF Phase, Parking
<1>4. ASSUME NEW k \in Keys, Responsible(w, k)
      PROVE  Responsible(w, k)'
    <2>1. PICK d \in ed_dependency_keys(k) : Row(d) = Row(Top(w).key) /\ d[1] > column[w]
        BY <1>2, <1>3, <1>4 DEF Responsible, Handles, WillLookAt, Ahead
    <2>2. d[1] \in 0..Cols - 1
        BY <2>1, KeyFacts DEF ed_dependency_keys
    <2>3. NextCompleted(w)
        BY <1>1, <2>1, <2>2 DEF EnqueueReady
    <2>4. /\ pc'[w] = "wake" /\ column'[w] = column[w] + 1 /\ UNCHANGED frames
        BY <1>1, <2>3 DEF NextCompleted, Goto, LocalsOK
    <2>5. Top(w)' = Top(w) /\ Ahead(w, d[1])'
        BY <1>1, <2>1, <2>2, <2>4 DEF Top, Ahead, Phase, Parking
    <2> QED BY <2>1, <2>5 DEF Responsible, WillLookAt
<1>5. DepsOK(w)'
    <2>1. pc'[w] \in {"wake", "idle", "above"}
        BY <1>1 DEF NextCompleted, EnqueueReady, ReturnOk, Goto, LocalsOK
    <2> QED BY <2>1 DEF DepsOK
<1> QED BY <1>2, <1>4, <1>5, StaysResponsible DEF WakeOK

LEMMA WorkerWakes ==
    ASSUME NEW w \in Workers, WavefrontInv, DepsOK(w), Worker(w)
    PROVE  WakeOK(w)
<1>1. CASE BlockOn(w)
    BY <1>1, BlockOnWakes, UnblockKeyWakes, PublishWakes, RecheckWakes, LeaveWakes DEF BlockOn
<1>2. CASE Compute(w)
    BY <1>2, OutsideWakes, InsertWakes, WakeWakes, StartDependentsWakes, NextWaiterWakes,
       NextDependentWakes, LastDependentWakes DEF Compute
<1> QED BY <1>1, <1>2, OutsideWakes DEF Worker

-----------------------------------------------------------------------------
(* The theorems.                                                           *)

LEMMA WorkerStep ==
    ASSUME NEW w \in Workers, WavefrontInv, Worker(w)
    PROVE  StepOK(w)
<1>1. CASE Compute(w)
    BY <1>1, DependenciesPendingStep, QuietSteps, AlreadyFreshStep, ClaimStep, StripBusyStep,
       ComputeAboveStep, InsertStep, NextWaiterStep, NextDependentStep, EnqueueReadyStep DEF Compute
<1> QED BY <1>1, DequeueStep, CheckReadyStep, BlockOnStep DEF Worker

LEMMA InvInit == Init => WavefrontInv
<1> SUFFICES ASSUME Init PROVE WavefrontInv
    OBVIOUS
<1>1. SharedOK
    BY WavefrontAssumption DEF WavefrontAssumption, Init, SharedOK
<1>2. LocalsOK
    <2>1. NoPark \in Parkings /\ 0 \in 0..Cols - 1 /\ <<>> \in Seq(Frame) /\ <<>> \in Seq(Keys)
        BY KeyFacts DEF NoPark, Parkings
    <2> QED BY <2>1 DEF Init, LocalsOK, Labels
<1>3. \A w \in Workers : WorkerOK(w)
    BY DEF Init, WorkerOK, Parking, Computing, Waking
<1>4. GatesMatchCalls /\ AnswersFor
    BY DEF Init, GatesMatchCalls, AnswersFor
<1> QED BY <1>1, <1>2, <1>3, <1>4 DEF WavefrontInv

LEMMA InvNext == WavefrontInv /\ [Next]_vars => WavefrontInv'
<1> SUFFICES ASSUME WavefrontInv, [Next]_vars PROVE WavefrontInv'
    OBVIOUS
<1>1. CASE Schedule
    <2>1. SharedOK' /\ LocalsOK'
        BY <1>1 DEF WavefrontInv, Schedule, SharedOK, LocalsOK, frontierVars, workerVars, stripVars
    <2>2. (\A w \in Workers : WorkerOK(w)') /\ GatesMatchCalls'
        BY <1>1 DEF WavefrontInv, Schedule, WorkerOK, ParkOK, Top, GatesMatchCalls,
                    frontierVars, workerVars, stripVars
    <2>3. AnswersFor'
        BY <1>1 DEF WavefrontInv, Schedule, AnswersFor, Answers, frontierVars, workerVars, stripVars
    <2> QED BY <2>1, <2>2, <2>3 DEF WavefrontInv
<1>2. CASE UNCHANGED vars
    <2>1. SharedOK' /\ LocalsOK'
        BY <1>2 DEF WavefrontInv, vars, SharedOK, LocalsOK, frontierVars, workerVars, stripVars
    <2>2. (\A w \in Workers : WorkerOK(w)') /\ GatesMatchCalls'
        BY <1>2 DEF WavefrontInv, vars, WorkerOK, ParkOK, Top, GatesMatchCalls,
                    frontierVars, workerVars, stripVars
    <2>3. AnswersFor'
        BY <1>2 DEF WavefrontInv, vars, AnswersFor, Answers, frontierVars, workerVars, stripVars
    <2> QED BY <2>1, <2>2, <2>3 DEF WavefrontInv
<1>3. ASSUME NEW w \in Workers, Worker(w)
      PROVE  WavefrontInv'
    BY <1>3, WorkerStep, StepKeepsInv
<1> QED BY <1>1, <1>2, <1>3 DEF Next

LEMMA InvAlways == Spec => []WavefrontInv
BY InvInit, InvNext, PTL DEF Spec

\* The variables keep their types, the calls of a worker and its task agree,
\* and only an idle worker has no task (ed.rs:219-410, worker.rs:122-264).
THEOREM TypeCorrect == Spec => []TypeOK
<1>1. WavefrontInv => TypeOK
    BY DEF WavefrontInv, SharedOK, LocalsOK, WorkerOK, TypeOK, Frame
<1> QED BY <1>1, InvAlways, PTL

\* However a call ends, nested or not, with a result or an error, no row's
\* gate stays closed behind it (ed_strip_gate.rs:86-92).
THEOREM GatesReleased == Spec => []GatesMatchCalls
<1>1. WavefrontInv => GatesMatchCalls
    BY DEF WavefrontInv
<1> QED BY <1>1, InvAlways, PTL

\* Between the scheduler, the frontier and the workers no task is lost, but
\* for those whose worker forgot them (ed.rs:297-410, worker.rs:224-264, 630-651).
THEOREM TasksKept == Spec => []NothingDropped
<1>1. WavefrontInv => NothingDropped
    BY DEF WavefrontInv, AnswersFor, Answers, NothingDropped, TaskSomewhere
<1> QED BY <1>1, InvAlways, PTL

\* A task parked on its neighbours is not left behind: when everything stops,
\* no parked task could run, but for those parked on their own row because a
\* strip was busy (ed.rs:297-410).
THEOREM WakesKept == Spec => []CausalParkersWoken
<1>1. Init => WakeInv
    BY DEF Init, WakeInv, DepsOK, WakesPending, CouldRun
<1>2. WavefrontInv /\ WakeInv /\ [Next]_vars => WakeInv'
    <2> SUFFICES ASSUME WavefrontInv, WakeInv, [Next]_vars PROVE WakeInv'
        OBVIOUS
    <2>1. ASSUME NEW w \in Workers, Worker(w)
          PROVE  WakeInv'
        <3>1. WakeOK(w)
            BY <2>1, WorkerWakes DEF WakeInv
        <3>2. OnlyOwn(w)
            BY <2>1, WorkerStep DEF StepOK
        <3> QED BY <3>1, <3>2, WakeOKKeeps
    <2>2. CASE Schedule \/ UNCHANGED vars
        <3>1. UNCHANGED <<fresh, blocked, pc, parking, frames, column, dependents>>
            BY <2>2 DEF Schedule, vars, frontierVars, workerVars, stripVars
        <3> QED BY <3>1 DEF WakeInv, DepsOK, WakesPending, CouldRun, ed_ready, Responsible, Handles,
                            WillLookAt, Ahead, Phase, Top
    <2> QED BY <2>1, <2>2 DEF Next
<1>3. WakeInv => CausalParkersWoken
    <2>1. ASSUME WakeInv, AtRest, NEW k \in Keys, blocked[k] # None, ed_ready(k)
          PROVE  blocked[k] = ed_strip_busy_deps(k)
        <3>1. \A w \in Workers : ~Responsible(w, k)
            BY <2>1, NotResponsible DEF AtRest, Parking, Waking
        <3> QED BY <2>1, <3>1 DEF WakeInv, WakesPending, CouldRun
    <2> QED BY <2>1 DEF CausalParkersWoken
<1> QED BY <1>1, <1>2, <1>3, InvAlways, PTL DEF Spec

=============================================================================
