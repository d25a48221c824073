------------------------- MODULE TileFreshnessProofs -------------------------
(***************************************************************************)
(* Proofs about TileFreshness, for any number of workers, edits, undo and  *)
(* redo calls: type correctness, and that a Processed tile is never        *)
(* published under the content generation of other pixels.  Without undo:  *)
(* with one worker, what is served as fresh shows the live document; with  *)
(* any number of them, nothing comes to rest while the tile is stale.      *)
(* The queue is a refinement of TaskPool, the scheduler's promise.         *)
(***************************************************************************)
EXTENDS TileFreshness, SequenceTheorems, TLAPS

DocType == [look : Look, document_gen : Nat, content_gen : Nat, layer_gen : Nat]

(***************************************************************************)
(* The parts of the inductive invariant.                                   *)
(***************************************************************************)
DocsOK ==
    /\ docs \in Seq(DocType)
    /\ live \in 1..Len(docs)
    /\ undo_stack \in Seq(1..Len(docs)) /\ redo_stack \in Seq(1..Len(docs))
    /\ edits \in 0..MaxEdits

CacheOK ==
    /\ processed \in Entry \union {None}
    /\ composite \in Entry \union {None}
    /\ content_epoch \in Nat

PoolTyped(pool) ==
    /\ pool \in [Stages -> TaskType \union {None}]
    /\ \A stage \in Stages : pool[stage] # None => pool[stage].stage = stage
PoolOK == PoolTyped(pending) /\ delayed \subseteq TaskType

Labels == {"idle", "check", "processed", "processed_epoch", "processed_check", "processed_insert",
    "processed_reject", "fed_by", "composite", "composite_epoch", "ensure", "inputs", "blend",
    "composite_check", "composite_retry", "recheck", "composite_insert", "composite_reject",
    "computed", "announce"} \union Resting

LocalsOK ==
    /\ pc \in [Workers -> Labels]
    /\ task \in [Workers -> TaskType \union {None}]
    /\ base \in [Workers -> Nat]
    /\ snap \in [Workers -> Nat]
    /\ stamp \in [Workers -> Nat]
    /\ churned \in [Workers -> BOOLEAN]
    /\ look \in [Workers -> Look]
    /\ \A w \in Workers : (pc[w] \in Resting) = (task[w] = None)

\* Where a worker reads through the Documents it holds, it holds one.
SnapLabels == {"processed_epoch", "processed_check", "processed_insert"}
InlineLabels == SnapLabels \union {"processed", "processed_reject", "fed_by"}
BaseLabels == {"composite_epoch", "ensure", "inputs", "blend", "composite_check", "announce",
    "run_epoch", "run_enqueue"}

HeldOK ==
    \A w \in Workers :
        /\ pc[w] \in SnapLabels => snap[w] \in 1..Len(docs)
        /\ pc[w] \in BaseLabels => base[w] \in 1..Len(docs)
        /\ pc[w] \in InlineLabels /\ task[w].stage = "composite" => base[w] \in 1..Len(docs)

\* Some document has this content generation and these pixels.
Witnessed(gen, pixels) ==
    \E d \in 1..Len(docs) : docs[d].content_gen = gen /\ docs[d].look = pixels

\* What a worker is about to publish is witnessed.
Promised(w) == Witnessed(stamp[w], docs[snap[w]].look)
StampsOK == \A w \in Workers : pc[w] = "processed_insert" => Promised(w)

\* A restored document whose generations are about to be raised is a clone:
\* the document it was cloned from stays behind as a witness.
CloneOK ==
    main = "bump" =>
        \E d \in 1..Len(docs) :
            d # live /\ docs[d].content_gen = Doc.content_gen /\ docs[d].look = Doc.look

FreshInv == DocsOK /\ CacheOK /\ PoolOK /\ LocalsOK /\ HeldOK

-----------------------------------------------------------------------------
LEMMA DocTyped ==
    ASSUME DocsOK
    PROVE  /\ Doc \in DocType
           /\ \A d \in 1..Len(docs) : docs[d] \in DocType
           /\ Len(docs) \in Nat
BY DEF DocsOK, Doc

LEMMA LiveTaskTyped ==
    ASSUME DocsOK, NEW stage \in Stages
    PROVE  LiveTask(stage) \in TaskType /\ LiveTask(stage).stage = stage
BY DocTyped DEF LiveTask, LayerGen, TaskType, DocType

LEMMA CompositeTaskTyped ==
    ASSUME DocsOK, NEW d \in 1..Len(docs)
    PROVE  CompositeTask(d) \in TaskType
BY DocTyped DEF CompositeTask, TaskType, DocType, Stages

LEMMA EnqueuedTyped ==
    ASSUME PoolOK, NEW t \in TaskType
    PROVE  PoolTyped(Enqueued(t))
<1>1. t.stage \in Stages /\ t # None
  BY NoneAssumption DEF TaskType
<1>2. CASE Enqueued(t) = pending
  BY <1>2 DEF PoolOK
<1>3. CASE Enqueued(t) = [pending EXCEPT ![t.stage] = t]
  BY <1>1, <1>3 DEF PoolOK, PoolTyped
<1> QED
  BY <1>2, <1>3 DEF Enqueued

LEMMA MarkDirtyTyped ==
    ASSUME NEW e \in Entry \union {None}
    PROVE  /\ MarkDirty(e) \in Entry \union {None}
           /\ MarkDirty(e) = None <=> e = None
           /\ e # None => MarkDirty(e).generation = e.generation /\ MarkDirty(e).look = e.look
BY NoneAssumption DEF MarkDirty, Entry

LEMMA DirtyIfBehindTyped ==
    ASSUME NEW e \in Entry \union {None}
    PROVE  /\ DirtyIfBehind(e) \in Entry \union {None}
           /\ DirtyIfBehind(e) = None <=> e = None
           /\ e # None => /\ DirtyIfBehind(e).generation = e.generation
                          /\ DirtyIfBehind(e).look = e.look
BY MarkDirtyTyped DEF DirtyIfBehind

LEMMA RescheduledTyped ==
    ASSUME DocsOK, PoolOK, NEW e, NEW stage \in Stages
    PROVE  PoolTyped(Rescheduled(e, stage))
<1>1. PoolTyped(Enqueued(LiveTask(stage)))
  BY LiveTaskTyped, EnqueuedTyped
<1> QED
  BY <1>1 DEF Rescheduled, PoolOK

-----------------------------------------------------------------------------
LEMMA FreshInit == Init => FreshInv
<1> SUFFICES ASSUME Init PROVE FreshInv
  OBVIOUS
<1> USE FreshnessAssumption, NoneAssumption
<1>1. DocsOK
  BY DEF Init, DocsOK, DocType, Look, Blank
<1>2. CacheOK
  <2>1. [look |-> 1, generation |-> 1, dirty |-> FALSE] \in Entry
    BY DEF Entry, Look, Blank
  <2> QED
    BY <2>1 DEF Init, CacheOK
<1>3. PoolOK
  <2>1. [stage |-> "composite", generation |-> 1, layer_generation |-> 0] \in TaskType
    BY DEF TaskType, Stages
  <2>2. CASE pending = [processed |-> None, composite |-> None]
    BY <2>2 DEF Init, PoolOK, PoolTyped, Stages
  <2>3. CASE pending = [processed |-> None, composite |->
                 [stage |-> "composite", generation |-> 1, layer_generation |-> 0]]
    <3> DEFINE t == [stage |-> "composite", generation |-> 1, layer_generation |-> 0]
    <3>1. t \in TaskType /\ t.stage = "composite"
      BY <2>1
    <3> HIDE DEF t
    <3>2. pending = [processed |-> None, composite |-> t]
      BY <2>3 DEF t
    <3> QED
      BY <3>1, <3>2 DEF Init, PoolOK, PoolTyped, Stages
  <2> QED
    BY <2>2, <2>3 DEF Init
<1>4. LocalsOK
  <2>1. Blank \in Look
    BY DEF Look, Blank
  <2>2. \A w \in Workers : pc[w] = "idle" /\ task[w] = None
    BY DEF Init
  <2>3. pc \in [Workers -> Labels]
    BY DEF Init, Labels, Resting
  <2>4. task \in [Workers -> TaskType \union {None}]
    BY DEF Init
  <2>5. look \in [Workers -> Look]
    BY <2>1 DEF Init
  <2>6. /\ base \in [Workers -> Nat]
        /\ snap \in [Workers -> Nat]
        /\ stamp \in [Workers -> Nat]
        /\ churned \in [Workers -> BOOLEAN]
    BY DEF Init
  <2> QED
    BY <2>2, <2>3, <2>4, <2>5, <2>6 DEF LocalsOK, Resting
<1>5. HeldOK
  BY DEF Init, HeldOK, SnapLabels, BaseLabels, InlineLabels
<1> QED
  BY <1>1, <1>2, <1>3, <1>4, <1>5 DEF FreshInv

-----------------------------------------------------------------------------
(***************************************************************************)
(* The main thread: documents are added and keep their looks.              *)
(***************************************************************************)
DocsGrow ==
    /\ Len(docs') >= Len(docs)
    /\ \A d \in 1..Len(docs) : d \in 1..Len(docs') /\ docs'[d].look = docs[d].look

LEMMA EditDocs ==
    ASSUME DocsOK, Edit
    PROVE  /\ DocsOK' /\ DocsGrow
           /\ \A d \in 1..Len(docs) : docs'[d] = docs[d]
           /\ main' \in {"invalidate", "layer_gen", "layer_gen_request"}
<1> USE FreshnessAssumption
<1>p. PICK kind \in EditKinds[edits + 1] :
        /\ docs' = Append(docs, [look |-> edits + 2,
                                 document_gen |-> Doc.document_gen + (IF kind = "palette" THEN 0 ELSE 1),
                                 content_gen |-> Doc.content_gen + 1,
                                 layer_gen |-> Doc.layer_gen])
        /\ main' = [palette |-> "invalidate", add_filter |-> "layer_gen",
                    update_filter |-> "layer_gen_request"][kind]
  BY DEF Edit
<1> DEFINE new == [look |-> edits + 2,
                   document_gen |-> Doc.document_gen + (IF kind = "palette" THEN 0 ELSE 1),
                   content_gen |-> Doc.content_gen + 1,
                   layer_gen |-> Doc.layer_gen]
<1>0. edits + 1 \in 1..MaxEdits
  BY DEF Edit, DocsOK
<1>1. edits + 2 \in Look
  BY <1>0 DEF Edit, DocsOK, Look, Blank
<1>k. kind \in {"palette", "add_filter", "update_filter"}
  BY <1>0
<1>m. main' \in {"invalidate", "layer_gen", "layer_gen_request"}
  BY <1>k, <1>p
<1>2. new \in DocType
  BY <1>1, DocTyped DEF DocType
<1>3. docs' = Append(docs, new)
  BY <1>p
<1> HIDE DEF new
<1>4. /\ docs' \in Seq(DocType) /\ Len(docs') = Len(docs) + 1
      /\ \A d \in 1..Len(docs) : docs'[d] = docs[d]
  BY <1>2, <1>3 DEF DocsOK
<1>5. live' \in 1..Len(docs') /\ edits' \in 0..MaxEdits
  BY <1>4 DEF Edit, DocsOK
<1>6. undo_stack \in Seq(1..Len(docs')) /\ live \in 1..Len(docs')
  BY <1>4 DEF DocsOK
<1>7. undo_stack' \in Seq(1..Len(docs')) /\ redo_stack' \in Seq(1..Len(docs'))
  BY <1>6 DEF Edit
<1>8. DocsGrow
  BY <1>4, DocTyped DEF DocsGrow
<1> QED
  BY <1>4, <1>5, <1>7, <1>8, <1>m DEF DocsOK

LEMMA RestoreDocs ==
    ASSUME DocsOK, UndoOrRedo
    PROVE  /\ DocsOK' /\ DocsGrow
           /\ live' = Len(docs) + 1
           /\ \A d \in 1..Len(docs) : docs'[d] = docs[d]
           /\ \E d \in 1..Len(docs) : docs'[live'] = docs[d]
<1>1. ASSUME NEW from, NEW to, NEW from_, NEW to_, Restore(from, to, from_, to_),
             from \in Seq(1..Len(docs)), to \in Seq(1..Len(docs))
      PROVE  /\ docs' \in Seq(DocType) /\ Len(docs') = Len(docs) + 1
             /\ live' = Len(docs) + 1
             /\ \A d \in 1..Len(docs) : docs'[d] = docs[d]
             /\ \E d \in 1..Len(docs) : docs'[live'] = docs[d]
             /\ from_ \in Seq(1..Len(docs')) /\ to_ \in Seq(1..Len(docs'))
  <2>1. from[Len(from)] \in 1..Len(docs)
    BY <1>1 DEF Restore
  <2>2. docs[from[Len(from)]] \in DocType
    BY <2>1, DocTyped
  <2>3. /\ docs' \in Seq(DocType) /\ Len(docs') = Len(docs) + 1
        /\ live' = Len(docs) + 1
        /\ docs'[Len(docs) + 1] = docs[from[Len(from)]]
        /\ \A d \in 1..Len(docs) : docs'[d] = docs[d]
    BY <1>1, <2>2 DEF Restore, DocsOK
  <2>4. from \in Seq(1..Len(docs')) /\ to \in Seq(1..Len(docs')) /\ live \in 1..Len(docs')
    BY <1>1, <2>3 DEF DocsOK
  <2>5. from_ \in Seq(1..Len(docs'))
    <3>1. /\ 1 \in Int /\ Len(from) - 1 \in Int
          /\ \A i \in 1..(Len(from) - 1) : from[i] \in 1..Len(docs')
      BY <1>1, <2>4
    <3>2. SubSeq(from, 1, Len(from) - 1) \in Seq(1..Len(docs'))
      BY <3>1, SubSeqProperties
    <3> QED
      BY <1>1, <3>2 DEF Restore
  <2>6. to_ \in Seq(1..Len(docs'))
    BY <1>1, <2>4 DEF Restore
  <2> QED
    BY <2>1, <2>3, <2>5, <2>6
<1>2. /\ docs' \in Seq(DocType) /\ Len(docs') = Len(docs) + 1
      /\ live' = Len(docs) + 1
      /\ \A d \in 1..Len(docs) : docs'[d] = docs[d]
      /\ \E d \in 1..Len(docs) : docs'[live'] = docs[d]
      /\ undo_stack' \in Seq(1..Len(docs')) /\ redo_stack' \in Seq(1..Len(docs'))
  <2>1. undo_stack \in Seq(1..Len(docs)) /\ redo_stack \in Seq(1..Len(docs))
    BY DEF DocsOK
  <2>2. CASE Restore(undo_stack, redo_stack, undo_stack', redo_stack')
    BY <1>1, <2>1, <2>2
  <2>3. CASE Restore(redo_stack, undo_stack, redo_stack', undo_stack')
    BY <1>1, <2>1, <2>3
  <2> QED
    BY <2>2, <2>3 DEF UndoOrRedo
<1>3. live' \in 1..Len(docs') /\ edits' \in 0..MaxEdits
  BY <1>2, DocTyped DEF UndoOrRedo, DocsOK
<1> QED
  BY <1>2, <1>3, DocTyped DEF DocsOK, DocsGrow

\* A change in place of the live document's generations.
LEMMA InPlaceDocs ==
    ASSUME DocsOK, UNCHANGED <<live, undo_stack, redo_stack, edits>>,
           NEW d \in DocType, d.look = Doc.look,
           docs' = [docs EXCEPT ![live] = d]
    PROVE  DocsOK' /\ DocsGrow
<1>1. /\ docs' \in Seq(DocType) /\ Len(docs') = Len(docs)
      /\ \A e \in 1..Len(docs) : docs'[e] = IF e = live THEN d ELSE docs[e]
  BY DEF DocsOK
<1> QED
  BY <1>1, DocTyped DEF DocsOK, DocsGrow, Doc

LEMMA LayerGenDocs ==
    ASSUME DocsOK, IncrementLayerGen
    PROVE  DocsOK' /\ DocsGrow
<1> DEFINE d == [Doc EXCEPT !.layer_gen = @ + 1]
<1>1. d \in DocType /\ d.look = Doc.look
  BY DocTyped DEF DocType
<1>2. docs' = [docs EXCEPT ![live] = d]
  BY DEF IncrementLayerGen, Doc
<1> HIDE DEF d
<1> QED
  BY <1>1, <1>2, InPlaceDocs DEF IncrementLayerGen

LEMMA BumpDocs ==
    ASSUME DocsOK, CacheOK, BumpLiveDocumentGen
    PROVE  DocsOK' /\ DocsGrow
<1> DEFINE next == Larger(Doc.document_gen, MaxGeneration) + 1
           d == [Doc EXCEPT !.document_gen = next, !.content_gen = Larger(@, next)]
<1>1. MaxGeneration \in Nat
  BY DEF CacheOK, MaxGeneration, Larger, Entry
<1>2. next \in Nat
  BY <1>1, DocTyped DEF Larger, DocType
<1>3. docs' = [docs EXCEPT ![live] = d]
  BY DEF BumpLiveDocumentGen, Doc, DocsOK
<1> HIDE DEF next
<1>4. d \in DocType /\ d.look = Doc.look
  BY <1>2, DocTyped DEF DocType, Larger
<1> HIDE DEF d
<1> QED
  BY <1>3, <1>4, InPlaceDocs DEF BumpLiveDocumentGen

LEMMA HeldKept ==
    ASSUME DocsOK, HeldOK, DocsGrow, UNCHANGED workerVars
    PROVE  HeldOK'
BY DEF HeldOK, DocsGrow, workerVars

LEMMA MainTyped ==
    ASSUME FreshInv, Main
    PROVE  FreshInv' /\ DocsGrow
<1> USE DEF FreshInv
<1>1. ASSUME UNCHANGED docVars, UNCHANGED edits
      PROVE  DocsOK' /\ DocsGrow
  BY <1>1, DocTyped DEF DocsOK, DocsGrow, docVars
<1>2. ASSUME UNCHANGED poolVars PROVE PoolOK'
  BY <1>2 DEF PoolOK, PoolTyped, poolVars
<1>3. ASSUME UNCHANGED cacheVars PROVE CacheOK'
  BY <1>3 DEF CacheOK, cacheVars
<1>4. ASSUME UNCHANGED workerVars, DocsGrow PROVE LocalsOK' /\ HeldOK'
  BY <1>4, HeldKept DEF LocalsOK, workerVars
<1>5. CASE Edit
  BY <1>2, <1>3, <1>4, <1>5, EditDocs DEF Edit
<1>6. CASE IncrementLayerGen
  BY <1>2, <1>3, <1>4, <1>6, LayerGenDocs DEF IncrementLayerGen
<1>7. CASE UndoOrRedo
  BY <1>2, <1>3, <1>4, <1>7, RestoreDocs DEF UndoOrRedo
<1>8. CASE BumpLiveDocumentGen
  BY <1>2, <1>3, <1>4, <1>8, BumpDocs DEF BumpLiveDocumentGen
<1>9. CASE InvalidateProcessed
  <2>1. CacheOK'
    BY <1>9, MarkDirtyTyped DEF InvalidateProcessed, CacheOK
  <2> QED
    BY <1>1, <1>2, <1>4, <1>9, <2>1 DEF InvalidateProcessed
<1>10. CASE InvalidateComposite
  <2>1. CacheOK'
    BY <1>10, MarkDirtyTyped DEF InvalidateComposite, CacheOK
  <2> QED
    BY <1>1, <1>2, <1>4, <1>10, <2>1 DEF InvalidateComposite
<1>11. CASE SetEpoch
  <2>1. CacheOK'
    BY <1>11, DocTyped DEF SetEpoch, CacheOK, DocType
  <2> QED
    BY <1>1, <1>2, <1>4, <1>11, <2>1 DEF SetEpoch
<1>12. CASE EnqueueVisible
  <2>1. PoolTyped(Enqueued(CompositeTask(live)))
    BY CompositeTaskTyped, EnqueuedTyped DEF DocsOK
  <2>2. PoolOK'
    BY <1>12, <2>1 DEF EnqueueVisible, EnqueueIfBehind, PoolOK, PoolTyped
  <2> QED
    BY <1>1, <1>3, <1>4, <1>12, <2>2 DEF EnqueueVisible
<1>13. CASE RequestRefresh \/ StashRefresh
  BY <1>1, <1>2, <1>3, <1>4, <1>13 DEF RequestRefresh, StashRefresh
<1> QED
  BY <1>5, <1>6, <1>7, <1>8, <1>9, <1>10, <1>11, <1>12, <1>13 DEF Main

-----------------------------------------------------------------------------
(***************************************************************************)
(* The workers: they leave the documents alone.                            *)
(***************************************************************************)
\* A step to label keeps what the labels promise of the documents held.
MayEnter(w, label) ==
    /\ label \in Labels /\ (label \in Resting) = (pc[w] \in Resting)
    /\ label \in SnapLabels => snap'[w] \in 1..Len(docs)
    /\ label \in BaseLabels => base'[w] \in 1..Len(docs)
    /\ label \in InlineLabels /\ task[w].stage = "composite" => base'[w] \in 1..Len(docs)

LEMMA MoveTyped ==
    ASSUME LocalsOK, HeldOK, UNCHANGED docVars, NEW w \in Workers, NEW label,
           Goto(w, label), UNCHANGED task, MayEnter(w, label),
           \A v \in Workers \ {w} : snap'[v] = snap[v] /\ base'[v] = base[v],
           snap' \in [Workers -> Nat], base' \in [Workers -> Nat],
           stamp' \in [Workers -> Nat], churned' \in [Workers -> BOOLEAN],
           look' \in [Workers -> Look]
    PROVE  LocalsOK' /\ HeldOK'
<1>1. pc' = [pc EXCEPT ![w] = label] /\ label \in Labels /\ (label \in Resting) = (pc[w] \in Resting)
  BY DEF Goto, MayEnter
<1>2. pc' \in [Workers -> Labels] /\ pc'[w] = label /\ \A v \in Workers \ {w} : pc'[v] = pc[v]
  BY <1>1 DEF LocalsOK
<1>3. LocalsOK'
  BY <1>1, <1>2 DEF LocalsOK
<1>4. HeldOK'
  BY <1>1, <1>2 DEF HeldOK, MayEnter, docVars
<1> QED
  BY <1>3, <1>4

LEMMA ResetTyped ==
    ASSUME LocalsOK, HeldOK, UNCHANGED docVars, NEW w \in Workers,
           NEW t \in TaskType \union {None}, NEW label \in {"idle", "finished", "computed"},
           (label \in Resting) = (t = None), Reset(w, t, label)
    PROVE  LocalsOK' /\ HeldOK'
<1>1. pc' = [pc EXCEPT ![w] = label] /\ label \in Labels
  BY DEF Reset, Goto, Labels, Resting
<1>2. pc' \in [Workers -> Labels] /\ pc'[w] = label /\ \A v \in Workers \ {w} : pc'[v] = pc[v]
  BY <1>1 DEF LocalsOK
<1>3. /\ task' \in [Workers -> TaskType \union {None}] /\ task'[w] = t
      /\ \A v \in Workers \ {w} : task'[v] = task[v]
  BY DEF LocalsOK, Reset
<1>4. /\ base' \in [Workers -> Nat] /\ snap' \in [Workers -> Nat] /\ stamp' \in [Workers -> Nat]
      /\ \A v \in Workers \ {w} : base'[v] = base[v] /\ snap'[v] = snap[v]
  BY DEF LocalsOK, Reset
<1>5. churned' \in [Workers -> BOOLEAN] /\ look' \in [Workers -> Look]
  <2>1. Blank \in Look
    BY FreshnessAssumption DEF Look, Blank
  <2> QED
    BY <2>1 DEF LocalsOK, Reset
<1>6. \A v \in Workers : (pc'[v] \in Resting) = (task'[v] = None)
  BY <1>2, <1>3 DEF LocalsOK
<1>7. LocalsOK'
  BY <1>2, <1>3, <1>4, <1>5, <1>6 DEF LocalsOK
<1>8. HeldOK'
  BY <1>2, <1>3, <1>4 DEF HeldOK, docVars, SnapLabels, InlineLabels, BaseLabels
<1> QED
  BY <1>7, <1>8

LEMMA TaskHeld ==
    ASSUME LocalsOK, NEW w \in Workers, pc[w] \notin Resting
    PROVE  task[w] \in TaskType /\ task[w] # None
BY DEF LocalsOK

LEMMA ForgetTyped ==
    ASSUME LocalsOK, HeldOK, UNCHANGED docVars, NEW w \in Workers, Forget(w)
    PROVE  LocalsOK' /\ HeldOK'
BY ResetTyped DEF Forget, Resting

LEMMA ComputedTyped ==
    ASSUME LocalsOK, HeldOK, UNCHANGED docVars, NEW w \in Workers, pc[w] \notin Resting, Computed(w)
    PROVE  LocalsOK' /\ HeldOK'
BY ResetTyped, TaskHeld DEF Computed, Resting

LEMMA LocalTyped ==
    ASSUME LocalsOK, HeldOK, UNCHANGED docVars, NEW w \in Workers, NEW label,
           Local(w, label),
           label \in Labels, (label \in Resting) = (pc[w] \in Resting),
           label \in SnapLabels => snap[w] \in 1..Len(docs),
           label \in BaseLabels => base[w] \in 1..Len(docs),
           label \in InlineLabels /\ task[w].stage = "composite" => base[w] \in 1..Len(docs)
    PROVE  LocalsOK' /\ HeldOK'
<1>1. MayEnter(w, label) /\ Goto(w, label) /\ UNCHANGED <<task, base, snap, stamp, churned, look>>
  BY DEF MayEnter, Local
<1> QED
  BY <1>1, MoveTyped DEF LocalsOK

LEMMA ReturnTyped ==
    ASSUME LocalsOK, HeldOK, UNCHANGED docVars, NEW w \in Workers,
           pc[w] \in InlineLabels, ReturnProcessed(w)
    PROVE  LocalsOK' /\ HeldOK'
<1>1. pc[w] \notin Resting
  BY DEF InlineLabels, SnapLabels, Resting
<1>2. CASE task[w].stage = "processed"
  BY <1>1, <1>2, ComputedTyped DEF ReturnProcessed
<1>3. CASE task[w].stage # "processed"
  <2>1. task[w].stage = "composite"
    BY <1>1, <1>3, TaskHeld DEF TaskType, Stages
  <2>2. /\ snap' = [snap EXCEPT ![w] = 0] /\ stamp' = [stamp EXCEPT ![w] = 0]
        /\ Goto(w, "inputs") /\ UNCHANGED <<task, base, churned, look>>
    BY <1>3 DEF ReturnProcessed
  <2>3. MayEnter(w, "inputs")
    BY <1>1, <2>1, <2>2 DEF HeldOK, MayEnter, Labels, Resting, SnapLabels, InlineLabels, BaseLabels
  <2>4. /\ snap' \in [Workers -> Nat] /\ stamp' \in [Workers -> Nat] /\ base' \in [Workers -> Nat]
        /\ churned' \in [Workers -> BOOLEAN] /\ look' \in [Workers -> Look]
        /\ \A v \in Workers \ {w} : snap'[v] = snap[v] /\ base'[v] = base[v]
    BY <2>2 DEF LocalsOK
  <2> QED
    BY <1>1, <2>2, <2>3, <2>4, MoveTyped
<1> QED
  BY <1>2, <1>3

\* What a worker's step changes of the caches and the pool.
LEMMA WorkerCaches ==
    ASSUME FreshInv, NEW w \in Workers, Worker(w)
    PROVE  CacheOK'
<1> USE DEF FreshInv
<1>1. CASE UNCHANGED cacheVars
  BY <1>1 DEF CacheOK, cacheVars
<1>2. ASSUME NEW held, UNCHANGED <<processed, composite>>, content_epoch' = docs[held].content_gen,
             held \in 1..Len(docs)
      PROVE  CacheOK'
  BY <1>2, DocTyped DEF CacheOK, DocType
<1>3. CASE ComputeProcessed(w)
  <2>1. CASE SnapshotProcessed(w)
    BY <1>1, <2>1 DEF SnapshotProcessed
  <2>2. CASE MirrorEpoch(w, "processed_epoch", snap[w], "processed_check")
    BY <1>2, <2>2 DEF MirrorEpoch, HeldOK, SnapLabels
  <2>3. CASE CheckProcessed(w)
    BY <1>1, <2>3 DEF CheckProcessed
  <2>4. CASE InsertProcessed(w)
    <3>1. snap[w] \in 1..Len(docs)
      BY <2>4 DEF InsertProcessed, HeldOK, SnapLabels
    <3>2. [look |-> docs[snap[w]].look, generation |-> stamp[w], dirty |-> FALSE] \in Entry
      BY <3>1, DocTyped DEF LocalsOK, Entry, DocType
    <3>3. UNCHANGED <<composite, content_epoch>> /\
            (processed' = processed \/
             processed' = [look |-> docs[snap[w]].look, generation |-> stamp[w], dirty |-> FALSE])
      BY <2>4 DEF InsertProcessed
    <3> QED
      BY <3>2, <3>3 DEF CacheOK
  <2>5. CASE RejectProcessed(w)
    BY <2>5, DirtyIfBehindTyped DEF RejectProcessed, CacheOK
  <2>6. CASE InvalidateFedBy(w)
    BY <2>6, MarkDirtyTyped DEF InvalidateFedBy, CacheOK
  <2> QED
    BY <1>3, <2>1, <2>2, <2>3, <2>4, <2>5, <2>6 DEF ComputeProcessed
<1>4. CASE ComputeComposite(w)
  <2>1. CASE SnapshotComposite(w) \/ EnsureProcessed(w) \/ InputVersions(w) \/ Blend(w) \/ CheckComposite(w)
    BY <1>1, <2>1 DEF SnapshotComposite, EnsureProcessed, InputVersions, Blend, CheckComposite
  <2>2. CASE MirrorEpoch(w, "composite_epoch", base[w], "ensure")
    BY <1>2, <2>2 DEF MirrorEpoch, HeldOK, BaseLabels
  <2>3. CASE RetryComposite(w)
    BY <2>3, MarkDirtyTyped DEF RetryComposite, CacheOK
  <2>4. CASE RecheckProcessed(w)
    <3>1. UNCHANGED <<processed, content_epoch>>
          /\ (composite' = composite \/ composite' = DirtyIfBehind(composite))
      BY <2>4 DEF RecheckProcessed
    <3> QED
      BY <3>1, DirtyIfBehindTyped DEF CacheOK
  <2>5. CASE InsertComposite(w)
    <3>1. [look |-> look[w], generation |-> stamp[w], dirty |-> FALSE] \in Entry
      BY DEF LocalsOK, Entry
    <3>2. UNCHANGED <<processed, content_epoch>> /\
            (composite' = composite \/
             composite' = [look |-> look[w], generation |-> stamp[w], dirty |-> FALSE])
      BY <2>5 DEF InsertComposite
    <3> QED
      BY <3>1, <3>2 DEF CacheOK
  <2>6. CASE RejectComposite(w)
    BY <2>6, DirtyIfBehindTyped DEF RejectComposite, CacheOK
  <2> QED
    BY <1>4, <2>1, <2>2, <2>3, <2>4, <2>5, <2>6 DEF ComputeComposite
<1>5. CASE Dequeue(w) \/ DropStale(w) \/ StartCompute(w) \/ Announce(w)
  BY <1>1, <1>5 DEF Dequeue, DropStale, StartCompute, Announce
<1>6. CASE AnnounceEpoch(w)
  BY <1>2, <1>6 DEF AnnounceEpoch, HeldOK, BaseLabels
<1>7. CASE TaskFinished(w) \/ DrainPending(w)
  BY <1>1, <1>7 DEF TaskFinished, DrainPending
<1>8. CASE RunRefresh(w)
  <2>1. CASE RunInvalidateProcessed(w) \/ RunInvalidateComposite(w)
    BY <2>1, MarkDirtyTyped DEF RunInvalidateProcessed, RunInvalidateComposite, CacheOK
  <2>2. CASE RunSnapshot(w) \/ RunEnqueueVisible(w)
    BY <1>1, <2>2 DEF RunSnapshot, RunEnqueueVisible
  <2>3. CASE MirrorEpoch(w, "run_epoch", base[w], "run_enqueue")
    BY <1>2, <2>3 DEF MirrorEpoch, HeldOK, BaseLabels
  <2> QED
    BY <1>8, <2>1, <2>2, <2>3 DEF RunRefresh
<1> QED
  BY <1>3, <1>4, <1>5, <1>6, <1>7, <1>8 DEF Worker

LEMMA WorkerPool ==
    ASSUME FreshInv, NEW w \in Workers, Worker(w)
    PROVE  PoolOK'
<1> USE DEF FreshInv
<1>1. CASE UNCHANGED poolVars
  BY <1>1 DEF PoolOK, PoolTyped, poolVars
<1>2. ASSUME NEW pool, PoolTyped(pool), pending' = pool,
             delayed' = delayed \/ (delayed' = delayed \union {task[w]} /\ pc[w] \notin Resting)
      PROVE  PoolOK'
  BY <1>2, TaskHeld DEF PoolOK, PoolTyped
<1>3. /\ PoolTyped(Enqueued(LiveTask("composite")))
      /\ PoolTyped(Rescheduled(composite, "composite"))
      /\ PoolTyped(Rescheduled(processed, "processed"))
  BY LiveTaskTyped, EnqueuedTyped, RescheduledTyped DEF Stages
<1>4. CASE Dequeue(w)
  <2> PICK stage \in Stages : pending' = [pending EXCEPT ![stage] = None]
    BY <1>4 DEF Dequeue
  <2>1. PoolTyped([pending EXCEPT ![stage] = None])
    BY DEF PoolOK, PoolTyped
  <2> QED
    BY <1>2, <1>4, <2>1 DEF Dequeue
<1>5. CASE ComputeProcessed(w)
  <2>1. CASE SnapshotProcessed(w) \/ MirrorEpoch(w, "processed_epoch", snap[w], "processed_check")
             \/ CheckProcessed(w) \/ InsertProcessed(w)
    BY <1>1, <2>1 DEF SnapshotProcessed, MirrorEpoch, CheckProcessed, InsertProcessed
  <2>2. CASE RejectProcessed(w)
    BY <1>2, <1>3, <2>2 DEF RejectProcessed
  <2>3. CASE InvalidateFedBy(w)
    BY <1>2, <1>3, <2>3 DEF InvalidateFedBy
  <2> QED
    BY <1>5, <2>1, <2>2, <2>3 DEF ComputeProcessed
<1>6. CASE ComputeComposite(w)
  <2>1. CASE SnapshotComposite(w) \/ MirrorEpoch(w, "composite_epoch", base[w], "ensure")
             \/ EnsureProcessed(w) \/ InputVersions(w) \/ Blend(w) \/ CheckComposite(w)
             \/ InsertComposite(w)
    BY <1>1, <2>1 DEF SnapshotComposite, MirrorEpoch, EnsureProcessed, InputVersions, Blend,
                      CheckComposite, InsertComposite
  <2>2. CASE RetryComposite(w)
    BY <1>2, <1>3, <2>2 DEF RetryComposite
  <2>3. CASE RecheckProcessed(w)
    <3>1. CASE Behind(processed, content_epoch)
      <4>1. pc[w] \notin Resting /\ delayed' = delayed \union {task[w]}
            /\ pending' = Rescheduled(composite, "composite")
        BY <2>3, <3>1 DEF RecheckProcessed, Resting
      <4> QED
        BY <1>2, <1>3, <4>1
    <3>2. CASE ~Behind(processed, content_epoch)
      BY <1>1, <2>3, <3>2 DEF RecheckProcessed, poolVars
    <3> QED
      BY <3>1, <3>2
  <2>4. CASE RejectComposite(w)
    BY <1>2, <1>3, <2>4 DEF RejectComposite
  <2> QED
    BY <1>6, <2>1, <2>2, <2>3, <2>4 DEF ComputeComposite
<1>7. CASE \/ DropStale(w) \/ StartCompute(w) \/ Announce(w) \/ AnnounceEpoch(w)
           \/ TaskFinished(w) \/ DrainPending(w)
  BY <1>1, <1>7 DEF DropStale, StartCompute, Announce, AnnounceEpoch, TaskFinished, DrainPending
<1>8. CASE RunRefresh(w)
  <2>1. CASE \/ RunInvalidateProcessed(w) \/ RunInvalidateComposite(w) \/ RunSnapshot(w)
             \/ MirrorEpoch(w, "run_epoch", base[w], "run_enqueue")
    BY <1>1, <2>1 DEF RunInvalidateProcessed, RunInvalidateComposite, RunSnapshot, MirrorEpoch
  <2>2. CASE RunEnqueueVisible(w)
    <3>1. base[w] \in 1..Len(docs)
      BY <2>2 DEF RunEnqueueVisible, HeldOK, BaseLabels
    <3>2. PoolTyped(Enqueued(CompositeTask(base[w]))) /\ PoolTyped(pending)
      BY <3>1, CompositeTaskTyped, EnqueuedTyped DEF PoolOK
    <3> QED
      BY <1>2, <2>2, <3>2 DEF RunEnqueueVisible, EnqueueIfBehind
  <2> QED
    BY <1>8, <2>1, <2>2 DEF RunRefresh
<1> QED
  BY <1>4, <1>5, <1>6, <1>7, <1>8 DEF Worker

LEMMA WorkerDocs ==
    ASSUME DocsOK, NEW w \in Workers, Worker(w)
    PROVE  /\ UNCHANGED docVars /\ UNCHANGED <<main, edits, undos>> /\ DocsOK'
           /\ DrainPending(w) \/ UNCHANGED stashed
<1> DEFINE Kept == UNCHANGED docVars /\ UNCHANGED mainVars
<1>1. ASSUME ComputeProcessed(w) PROVE Kept
  <2>1. SnapshotProcessed(w) \/ CheckProcessed(w) \/ InsertProcessed(w) => Kept
    BY DEF SnapshotProcessed, CheckProcessed, InsertProcessed
  <2>2. MirrorEpoch(w, "processed_epoch", snap[w], "processed_check") => Kept
    BY DEF MirrorEpoch
  <2>3. RejectProcessed(w) => Kept
    BY DEF RejectProcessed
  <2>4. InvalidateFedBy(w) => Kept
    BY DEF InvalidateFedBy
  <2> QED
    BY <1>1, <2>1, <2>2, <2>3, <2>4 DEF ComputeProcessed
<1>2. ASSUME ComputeComposite(w) PROVE Kept
  <2>1. SnapshotComposite(w) \/ EnsureProcessed(w) \/ InputVersions(w) \/ Blend(w) => Kept
    BY DEF SnapshotComposite, EnsureProcessed, InputVersions, Blend
  <2>2. MirrorEpoch(w, "composite_epoch", base[w], "ensure") => Kept
    BY DEF MirrorEpoch
  <2>3. CheckComposite(w) => Kept
    BY DEF CheckComposite
  <2>4. RetryComposite(w) => Kept
    BY DEF RetryComposite
  <2>5. RecheckProcessed(w) => Kept
    BY DEF RecheckProcessed
  <2>6. InsertComposite(w) => Kept
    BY DEF InsertComposite
  <2>7. RejectComposite(w) => Kept
    BY DEF RejectComposite
  <2> QED
    BY <1>2, <2>1, <2>2, <2>3, <2>4, <2>5, <2>6, <2>7 DEF ComputeComposite
<1>3. ASSUME RunRefresh(w) PROVE Kept
  <2>1. RunInvalidateProcessed(w) \/ RunInvalidateComposite(w) \/ RunSnapshot(w) => Kept
    BY DEF RunInvalidateProcessed, RunInvalidateComposite, RunSnapshot
  <2>2. MirrorEpoch(w, "run_epoch", base[w], "run_enqueue") => Kept
    BY DEF MirrorEpoch
  <2>3. RunEnqueueVisible(w) => Kept
    BY DEF RunEnqueueVisible, mainVars
  <2> QED
    BY <1>3, <2>1, <2>2, <2>3 DEF RunRefresh
<1>4. Kept \/ DrainPending(w)
  <2>1. Dequeue(w) \/ DropStale(w) \/ StartCompute(w) \/ Announce(w) \/ AnnounceEpoch(w) => Kept
    BY DEF Dequeue, DropStale, StartCompute, Announce, AnnounceEpoch
  <2>2. TaskFinished(w) => Kept
    BY DEF TaskFinished
  <2> QED
    BY <1>1, <1>2, <1>3, <2>1, <2>2 DEF Worker
<1> QED
  BY <1>4 DEF DocsOK, docVars, mainVars, DrainPending

LEMMA WorkerLocals ==
    ASSUME FreshInv, NEW w \in Workers, Worker(w)
    PROVE  LocalsOK' /\ HeldOK'
<1> USE DEF FreshInv
<1>0. UNCHANGED docVars
  BY WorkerDocs
<1>1. CASE Dequeue(w)
  <2> PICK stage \in Stages :
          pending[stage] # None /\ task' = [task EXCEPT ![w] = pending[stage]]
    BY <1>1 DEF Dequeue
  <2>1. pending[stage] \in TaskType
    BY DEF PoolOK, PoolTyped
  <2>2. /\ pc' = [pc EXCEPT ![w] = "check"] /\ UNCHANGED <<base, snap, stamp, churned, look>>
    BY <1>1 DEF Dequeue, Goto
  <2>3. LocalsOK'
    BY <2>1, <2>2, NoneAssumption DEF LocalsOK, Labels, Resting
  <2>4. HeldOK'
    BY <1>0, <2>2 DEF LocalsOK, HeldOK, docVars, SnapLabels, InlineLabels, BaseLabels
  <2> QED
    BY <2>3, <2>4
<1>2. CASE DropStale(w)
  BY <1>0, <1>2, ForgetTyped DEF DropStale
<1>3. CASE StartCompute(w)
  <2>1. pc[w] \notin Resting /\ task[w].stage \in Stages
    BY <1>3, TaskHeld DEF StartCompute, TaskType, Resting
  <2>2. CASE task[w].stage = "composite"
    <3>1. Local(w, "composite")
      BY <1>3, <2>2 DEF StartCompute
    <3> QED
      BY <1>0, <2>1, <3>1, LocalTyped DEF Labels, SnapLabels, BaseLabels, InlineLabels, Resting
  <2>3. CASE task[w].stage # "composite"
    <3>1. Local(w, "processed")
      BY <1>3, <2>3 DEF StartCompute
    <3> QED
      BY <1>0, <2>1, <2>3, <3>1, LocalTyped DEF Labels, SnapLabels, BaseLabels, InlineLabels, Resting
  <2> QED
    BY <2>2, <2>3
<1>4. CASE ComputeProcessed(w)
  <2>1. CASE SnapshotProcessed(w)
    <3>1. /\ pc[w] = "processed" /\ snap' = [snap EXCEPT ![w] = live] /\ Goto(w, "processed_epoch")
          /\ UNCHANGED <<task, base, stamp, churned, look>>
      BY <2>1 DEF SnapshotProcessed
    <3>2. live \in Nat /\ live \in 1..Len(docs)
      BY DocTyped DEF DocsOK
    <3>3. MayEnter(w, "processed_epoch")
      BY <3>1, <3>2 DEF MayEnter, Resting, HeldOK, LocalsOK, Labels, SnapLabels, InlineLabels, BaseLabels
    <3>4. snap' \in [Workers -> Nat] /\ \A v \in Workers \ {w} : snap'[v] = snap[v]
      BY <3>1, <3>2 DEF LocalsOK
    <3> QED
      BY <1>0, <3>1, <3>3, <3>4, MoveTyped DEF LocalsOK
  <2>2. CASE MirrorEpoch(w, "processed_epoch", snap[w], "processed_check")
    <3>1. pc[w] = "processed_epoch" /\ Local(w, "processed_check")
      BY <2>2 DEF MirrorEpoch
    <3> QED
      BY <1>0, <3>1, LocalTyped DEF HeldOK, Labels, SnapLabels, BaseLabels, InlineLabels, Resting
  <2>3. CASE CheckProcessed(w)
    <3> PICK label \in {"processed_insert", "processed_reject"} : Goto(w, label)
      BY <2>3 DEF CheckProcessed
    <3>1. /\ pc[w] = "processed_check" /\ stamp' = [stamp EXCEPT ![w] = docs[snap[w]].content_gen]
          /\ UNCHANGED <<task, base, snap, churned, look>>
      BY <2>3 DEF CheckProcessed
    <3>2. snap[w] \in 1..Len(docs)
      BY <3>1 DEF HeldOK, SnapLabels
    <3>3. stamp' \in [Workers -> Nat]
      BY <3>1, <3>2, DocTyped DEF LocalsOK, DocType
    <3>4. MayEnter(w, label)
      BY <3>1, <3>2 DEF MayEnter, Resting, HeldOK, Labels, SnapLabels, InlineLabels, BaseLabels
    <3> QED
      BY <1>0, <3>1, <3>3, <3>4, MoveTyped DEF LocalsOK
  <2>4. CASE InsertProcessed(w)
    <3> PICK label \in {"fed_by", "processed_reject"} : Goto(w, label)
      BY <2>4 DEF InsertProcessed
    <3>1. pc[w] = "processed_insert" /\ UNCHANGED <<task, base, snap, stamp, look>>
      BY <2>4 DEF InsertProcessed
    <3>2. churned' \in [Workers -> BOOLEAN]
      <4>1. CASE Refused(processed, w)
        BY <2>4, <4>1 DEF InsertProcessed, LocalsOK
      <4>2. CASE ~Refused(processed, w)
        <5>1. churned' = [v \in Workers |-> pc[v] \in {"blend", "composite_check"}]
          BY <2>4, <4>2 DEF InsertProcessed
        <5>2. \A v \in Workers : (pc[v] \in {"blend", "composite_check"}) \in BOOLEAN
          OBVIOUS
        <5> QED
          BY <5>1, <5>2, Zenon
      <4> QED
        BY <4>1, <4>2
    <3>3. MayEnter(w, label)
      BY <3>1 DEF MayEnter, Resting, HeldOK, Labels, SnapLabels, InlineLabels, BaseLabels
    <3> QED
      BY <1>0, <3>1, <3>2, <3>3, MoveTyped DEF LocalsOK
  <2>5. CASE RejectProcessed(w)
    BY <1>0, <2>5, ReturnTyped DEF RejectProcessed, InlineLabels
  <2>6. CASE InvalidateFedBy(w)
    BY <1>0, <2>6, ReturnTyped DEF InvalidateFedBy, InlineLabels
  <2> QED
    BY <1>4, <2>1, <2>2, <2>3, <2>4, <2>5, <2>6 DEF ComputeProcessed
<1>5. CASE ComputeComposite(w)
  <2>1. CASE SnapshotComposite(w)
    <3>1. /\ pc[w] = "composite" /\ base' = [base EXCEPT ![w] = live] /\ Goto(w, "composite_epoch")
          /\ UNCHANGED <<task, snap, stamp, churned, look>>
      BY <2>1 DEF SnapshotComposite
    <3>2. live \in Nat /\ live \in 1..Len(docs)
      BY DocTyped DEF DocsOK
    <3>3. MayEnter(w, "composite_epoch")
      BY <3>1, <3>2 DEF MayEnter, Resting, LocalsOK, Labels, SnapLabels, InlineLabels, BaseLabels
    <3>4. base' \in [Workers -> Nat] /\ \A v \in Workers \ {w} : base'[v] = base[v]
      BY <3>1, <3>2 DEF LocalsOK
    <3> QED
      BY <1>0, <3>1, <3>3, <3>4, MoveTyped DEF LocalsOK
  <2>2. CASE MirrorEpoch(w, "composite_epoch", base[w], "ensure")
    <3>1. pc[w] = "composite_epoch" /\ Local(w, "ensure")
      BY <2>2 DEF MirrorEpoch
    <3> QED
      BY <1>0, <3>1, LocalTyped DEF HeldOK, Labels, SnapLabels, BaseLabels, InlineLabels, Resting
  <2>3. CASE EnsureProcessed(w)
    <3> PICK label \in {"processed", "inputs"} : Local(w, label)
      BY <2>3 DEF EnsureProcessed
    <3>1. pc[w] = "ensure"
      BY <2>3 DEF EnsureProcessed
    <3> QED
      BY <1>0, <3>1, LocalTyped DEF HeldOK, Labels, SnapLabels, BaseLabels, InlineLabels, Resting
  <2>4. CASE InputVersions(w)
    <3>1. /\ pc[w] = "inputs" /\ churned' = [churned EXCEPT ![w] = processed = None]
          /\ Goto(w, "blend") /\ UNCHANGED <<task, base, snap, stamp, look>>
      BY <2>4 DEF InputVersions
    <3>2. MayEnter(w, "blend")
      BY <3>1 DEF MayEnter, Resting, HeldOK, Labels, SnapLabels, InlineLabels, BaseLabels
    <3>3. churned' \in [Workers -> BOOLEAN]
      BY <3>1 DEF LocalsOK
    <3> QED
      BY <1>0, <3>1, <3>2, <3>3, MoveTyped DEF LocalsOK
  <2>5. CASE Blend(w)
    <3> DEFINE seen == IF processed = None THEN Blank ELSE processed.look
    <3>1. /\ pc[w] = "blend" /\ look' = [look EXCEPT ![w] = seen]
          /\ Goto(w, "composite_check") /\ UNCHANGED <<task, base, snap, stamp, churned>>
      BY <2>5 DEF Blend
    <3>2. MayEnter(w, "composite_check")
      BY <3>1 DEF MayEnter, Resting, HeldOK, Labels, SnapLabels, InlineLabels, BaseLabels
    <3>3. seen \in Look
      BY FreshnessAssumption DEF CacheOK, Entry, Look, Blank
    <3> HIDE DEF seen
    <3>4. look' \in [Workers -> Look]
      BY <3>1, <3>3 DEF LocalsOK
    <3> QED
      BY <1>0, <3>1, <3>2, <3>4, MoveTyped DEF LocalsOK
  <2>6. CASE CheckComposite(w)
    <3> PICK label \in {"composite_reject", "composite_retry", "recheck"} : Goto(w, label)
      BY <2>6 DEF CheckComposite
    <3>1. /\ pc[w] = "composite_check" /\ stamp' = [stamp EXCEPT ![w] = docs[base[w]].content_gen]
          /\ churned' = [churned EXCEPT ![w] = FALSE] /\ UNCHANGED <<task, base, snap, look>>
      BY <2>6 DEF CheckComposite
    <3>2. base[w] \in 1..Len(docs)
      BY <3>1 DEF HeldOK, BaseLabels
    <3>3. stamp' \in [Workers -> Nat] /\ churned' \in [Workers -> BOOLEAN]
      BY <3>1, <3>2, DocTyped DEF LocalsOK, DocType
    <3>4. MayEnter(w, label)
      BY <3>1 DEF MayEnter, Resting, Labels, SnapLabels, InlineLabels, BaseLabels
    <3> QED
      BY <1>0, <3>1, <3>3, <3>4, MoveTyped DEF LocalsOK
  <2>7. CASE RetryComposite(w)
    BY <1>0, <2>7, ComputedTyped DEF RetryComposite, Resting
  <2>8. CASE RecheckProcessed(w)
    <3>1. CASE Behind(processed, content_epoch)
      BY <1>0, <2>8, <3>1, ForgetTyped DEF RecheckProcessed
    <3>2. CASE ~Behind(processed, content_epoch)
      <4>1. pc[w] = "recheck" /\ Local(w, "composite_insert")
        BY <2>8, <3>2 DEF RecheckProcessed
      <4> QED
        BY <1>0, <4>1, LocalTyped DEF Labels, SnapLabels, BaseLabels, InlineLabels, Resting
    <3> QED
      BY <3>1, <3>2
  <2>9. CASE InsertComposite(w)
    <3>1. CASE Refused(composite, w)
      <4>1. pc[w] = "composite_insert" /\ Local(w, "composite_reject")
        BY <2>9, <3>1 DEF InsertComposite
      <4> QED
        BY <1>0, <4>1, LocalTyped DEF Labels, SnapLabels, BaseLabels, InlineLabels, Resting
    <3>2. CASE ~Refused(composite, w)
      BY <1>0, <2>9, <3>2, ComputedTyped DEF InsertComposite, Resting
    <3> QED
      BY <3>1, <3>2
  <2>10. CASE RejectComposite(w)
    BY <1>0, <2>10, ComputedTyped DEF RejectComposite, Resting
  <2> QED
    BY <1>5, <2>1, <2>2, <2>3, <2>4, <2>5, <2>6, <2>7, <2>8, <2>9, <2>10 DEF ComputeComposite
<1>6. CASE Announce(w)
  <2>1. pc[w] = "computed"
    BY <1>6 DEF Announce
  <2>2. CASE task[w].stage = "composite"
    <3>1. /\ base' = [base EXCEPT ![w] = live] /\ Goto(w, "announce")
          /\ UNCHANGED <<task, snap, stamp, churned, look>>
      BY <1>6, <2>2 DEF Announce
    <3>2. live \in Nat /\ live \in 1..Len(docs)
      BY DocTyped DEF DocsOK
    <3>3. MayEnter(w, "announce")
      BY <2>1, <3>1, <3>2 DEF MayEnter, Resting, LocalsOK, Labels, SnapLabels, InlineLabels, BaseLabels
    <3>4. base' \in [Workers -> Nat] /\ \A v \in Workers \ {w} : base'[v] = base[v]
      BY <3>1, <3>2 DEF LocalsOK
    <3> QED
      BY <1>0, <2>1, <3>1, <3>3, <3>4, MoveTyped DEF LocalsOK
  <2>3. CASE task[w].stage # "composite"
    BY <1>0, <1>6, <2>3, ForgetTyped DEF Announce
  <2> QED
    BY <2>2, <2>3
<1>7. CASE AnnounceEpoch(w)
  BY <1>0, <1>7, ForgetTyped DEF AnnounceEpoch
<1>8. CASE TaskFinished(w) \/ DrainPending(w)
  <2>1. pc[w] \in {"finished", "drain"} /\ \E label \in {"idle", "drain", "run"} : Local(w, label)
    BY <1>8 DEF TaskFinished, DrainPending
  <2> QED
    BY <1>0, <2>1, LocalTyped DEF Labels, SnapLabels, BaseLabels, InlineLabels, Resting
<1>9. CASE RunRefresh(w)
  <2>1. CASE RunInvalidateProcessed(w) \/ RunInvalidateComposite(w)
    <3>1. pc[w] \in {"run", "run_composite"} /\ \E label \in {"run_composite", "run_snapshot"} : Local(w, label)
      BY <2>1 DEF RunInvalidateProcessed, RunInvalidateComposite
    <3> QED
      BY <1>0, <3>1, LocalTyped DEF Labels, SnapLabels, BaseLabels, InlineLabels, Resting
  <2>2. CASE RunSnapshot(w)
    <3>1. /\ pc[w] = "run_snapshot" /\ base' = [base EXCEPT ![w] = live] /\ Goto(w, "run_epoch")
          /\ UNCHANGED <<task, snap, stamp, churned, look>>
      BY <2>2 DEF RunSnapshot
    <3>2. live \in Nat /\ live \in 1..Len(docs)
      BY DocTyped DEF DocsOK
    <3>3. MayEnter(w, "run_epoch")
      BY <3>1, <3>2 DEF MayEnter, Resting, LocalsOK, Labels, SnapLabels, InlineLabels, BaseLabels
    <3>4. base' \in [Workers -> Nat] /\ \A v \in Workers \ {w} : base'[v] = base[v]
      BY <3>1, <3>2 DEF LocalsOK
    <3> QED
      BY <1>0, <3>1, <3>3, <3>4, MoveTyped DEF LocalsOK
  <2>3. CASE MirrorEpoch(w, "run_epoch", base[w], "run_enqueue")
    <3>1. pc[w] = "run_epoch" /\ Local(w, "run_enqueue")
      BY <2>3 DEF MirrorEpoch
    <3> QED
      BY <1>0, <3>1, LocalTyped DEF HeldOK, Labels, SnapLabels, BaseLabels, InlineLabels, Resting
  <2>4. CASE RunEnqueueVisible(w)
    BY <1>0, <2>4, ResetTyped DEF RunEnqueueVisible, Resting
  <2> QED
    BY <1>9, <2>1, <2>2, <2>3, <2>4 DEF RunRefresh
<1> QED
  BY <1>1, <1>2, <1>3, <1>4, <1>5, <1>6, <1>7, <1>8, <1>9 DEF Worker

-----------------------------------------------------------------------------
LEMMA FreshNext == FreshInv /\ [Next]_vars => FreshInv'
<1> SUFFICES ASSUME FreshInv, [Next]_vars PROVE FreshInv'
  OBVIOUS
<1> USE DEF FreshInv
<1>1. CASE Main
  BY <1>1, MainTyped
<1>2. CASE Pull
  <2>1. PoolTyped(Enqueued(LiveTask("composite")))
    BY LiveTaskTyped, EnqueuedTyped DEF Stages
  <2>2. PoolOK'
    BY <1>2, <2>1 DEF Pull, PoolOK, PoolTyped
  <2>3. DocsOK' /\ CacheOK' /\ LocalsOK' /\ HeldOK'
    BY <1>2 DEF Pull, DocsOK, CacheOK, LocalsOK, HeldOK, docVars, cacheVars, mainVars, workerVars
  <2> QED
    BY <2>2, <2>3
<1>3. ASSUME NEW w \in Workers, Worker(w) PROVE FreshInv'
  BY <1>3, WorkerDocs, WorkerCaches, WorkerPool, WorkerLocals
<1>4. ASSUME NEW t \in delayed, Requeue(t) PROVE FreshInv'
  <2>1. t \in TaskType
    BY DEF PoolOK
  <2>2. PoolTyped(Enqueued(t)) /\ PoolTyped(pending)
    BY <2>1, EnqueuedTyped DEF PoolOK
  <2>3. PoolTyped(pending') /\ delayed' \subseteq TaskType
    <3>1. pending' = Enqueued(t) \/ pending' = pending
      BY <1>4 DEF Requeue
    <3> QED
      BY <1>4, <2>2, <3>1 DEF Requeue, PoolOK
  <2>4. PoolOK'
    BY <2>3 DEF PoolOK, PoolTyped
  <2>5. DocsOK' /\ CacheOK' /\ LocalsOK' /\ HeldOK'
    BY <1>4 DEF Requeue, DocsOK, CacheOK, LocalsOK, HeldOK, docVars, cacheVars, mainVars, workerVars
  <2> QED
    BY <2>4, <2>5
<1>5. CASE UNCHANGED vars
  BY <1>5 DEF vars, DocsOK, CacheOK, PoolOK, PoolTyped, LocalsOK, HeldOK, docVars, cacheVars, poolVars,
              mainVars, workerVars
<1> QED
  BY <1>1, <1>2, <1>3, <1>4, <1>5 DEF Next

LEMMA FreshInvariant == Spec => []FreshInv
BY FreshInit, FreshNext, PTL DEF Spec

\* Every variable keeps its type, whatever main thread and workers do, and a
\* worker holds a task exactly from the queue to on_preview_task_finished
\* (worker.rs:122-134, 649-651).
THEOREM TypeCorrect == Spec => []TypeOK
<1>1. FreshInv => TypeOK
  BY DEF FreshInv, DocsOK, CacheOK, PoolOK, PoolTyped, LocalsOK, DocType, TypeOK
<1> QED
  BY <1>1, FreshInvariant, PTL

-----------------------------------------------------------------------------
(***************************************************************************)
(* No stamp names other pixels.  A document's generations change in place  *)
(* in two ways only: increment_layer_gen leaves content_gen alone, and     *)
(* bump_live_document_gen raises that of a clone whose source stays.       *)
(***************************************************************************)
StampInv == FreshInv /\ StampNamesPixels /\ StampsOK /\ CloneOK

LEMMA WitnessKept ==
    ASSUME FreshInv, CloneOK, [Next]_vars, NEW gen, NEW pixels, Witnessed(gen, pixels)
    PROVE  Witnessed(gen, pixels)'
<1> USE DEF FreshInv
<1>1. ASSUME UNCHANGED docVars PROVE Witnessed(gen, pixels)'
  BY <1>1 DEF Witnessed, docVars
<1>2. PICK d \in 1..Len(docs) : docs[d].content_gen = gen /\ docs[d].look = pixels
  BY DEF Witnessed
<1>3. ASSUME DocsGrow, NEW e \in 1..Len(docs), docs'[e] = docs[e],
             docs[e].content_gen = gen, docs[e].look = pixels
      PROVE  Witnessed(gen, pixels)'
  BY <1>3 DEF Witnessed, DocsGrow
<1>4. CASE Edit
  BY <1>2, <1>3, <1>4, EditDocs
<1>5. CASE UndoOrRedo
  BY <1>2, <1>3, <1>5, RestoreDocs
<1>6. CASE IncrementLayerGen
  <2> DEFINE new == [Doc EXCEPT !.layer_gen = @ + 1]
  <2>1. docs' = [docs EXCEPT ![live] = new]
    BY <1>6 DEF IncrementLayerGen, Doc
  <2>2. new.content_gen = Doc.content_gen /\ new.look = Doc.look
    BY DocTyped DEF DocType
  <2> HIDE DEF new
  <2>3. Len(docs') = Len(docs) /\ docs'[d] = IF d = live THEN new ELSE docs[d]
    BY <1>2, <2>1, DocTyped DEF DocsOK
  <2> QED
    BY <1>2, <2>2, <2>3 DEF Witnessed, Doc
<1>7. CASE BumpLiveDocumentGen
  <2>1. PICK e \in 1..Len(docs) :
            e # live /\ docs[e].content_gen = gen /\ docs[e].look = pixels
    BY <1>2, <1>7 DEF CloneOK, BumpLiveDocumentGen, Doc
  <2>2. docs'[e] = docs[e]
    BY <1>7, <2>1 DEF BumpLiveDocumentGen, DocsOK
  <2> QED
    BY <1>3, <1>7, <2>1, <2>2, BumpDocs
<1>8. CASE \/ InvalidateProcessed \/ InvalidateComposite \/ SetEpoch \/ EnqueueVisible
           \/ RequestRefresh \/ StashRefresh
  BY <1>1, <1>8 DEF InvalidateProcessed, InvalidateComposite, SetEpoch, EnqueueVisible,
                    RequestRefresh, StashRefresh
<1>9. CASE Pull
  BY <1>1, <1>9 DEF Pull
<1>10. ASSUME NEW w \in Workers, Worker(w) PROVE Witnessed(gen, pixels)'
  BY <1>1, <1>10, WorkerDocs
<1>11. ASSUME NEW t \in delayed, Requeue(t) PROVE Witnessed(gen, pixels)'
  BY <1>1, <1>11 DEF Requeue
<1>12. CASE UNCHANGED vars
  BY <1>1, <1>12 DEF vars
<1> QED
  BY <1>4, <1>5, <1>6, <1>7, <1>8, <1>9, <1>10, <1>11, <1>12 DEF Next, Main

LEMMA CloneKept ==
    ASSUME FreshInv, CloneOK, [Next]_vars
    PROVE  CloneOK'
<1> USE DEF FreshInv
<1>1. ASSUME UNCHANGED docVars, UNCHANGED main PROVE CloneOK'
  BY <1>1 DEF CloneOK, Doc, docVars
<1>2. ASSUME main' # "bump" PROVE CloneOK'
  BY <1>2 DEF CloneOK
<1>3. CASE Edit \/ IncrementLayerGen \/ BumpLiveDocumentGen
  <2>1. main' # "bump"
    BY <1>3, EditDocs DEF IncrementLayerGen, BumpLiveDocumentGen
  <2> QED
    BY <1>2, <2>1
<1>4. CASE \/ InvalidateProcessed \/ InvalidateComposite \/ SetEpoch \/ EnqueueVisible
           \/ RequestRefresh \/ StashRefresh
  BY <1>2, <1>4 DEF InvalidateProcessed, InvalidateComposite, SetEpoch, EnqueueVisible,
                    RequestRefresh, StashRefresh
<1>5. CASE UndoOrRedo
  <2>1. PICK d \in 1..Len(docs) : docs'[live'] = docs[d]
    BY <1>5, RestoreDocs
  <2>2. /\ d # live' /\ docs'[d] = docs[d] /\ d \in 1..Len(docs')
    BY <1>5, <2>1, RestoreDocs, DocTyped DEF DocsGrow
  <2>3. Doc' = docs[d]
    BY <2>1 DEF Doc
  <2> QED
    BY <2>2, <2>3 DEF CloneOK
<1>6. CASE Pull
  BY <1>1, <1>6 DEF Pull, mainVars
<1>7. ASSUME NEW w \in Workers, Worker(w) PROVE CloneOK'
  BY <1>1, <1>7, WorkerDocs
<1>8. ASSUME NEW t \in delayed, Requeue(t) PROVE CloneOK'
  BY <1>1, <1>8 DEF Requeue, mainVars
<1>9. CASE UNCHANGED vars
  BY <1>1, <1>9 DEF vars, mainVars
<1> QED
  BY <1>3, <1>4, <1>5, <1>6, <1>7, <1>8, <1>9 DEF Next, Main

\* A worker's step leaves the others alone, and reaches the insert of a
\* Processed tile only through the comparison of the generations.
LEMMA WorkerFrame ==
    ASSUME FreshInv, NEW w \in Workers, Worker(w)
    PROVE  /\ \A v \in Workers \ {w} :
                pc'[v] = pc[v] /\ stamp'[v] = stamp[v] /\ snap'[v] = snap[v]
           /\ pc'[w] = "processed_insert" => CheckProcessed(w)
<1> USE DEF FreshInv
<1> DEFINE Frame ==
        /\ \A v \in Workers \ {w} : pc'[v] = pc[v] /\ stamp'[v] = stamp[v] /\ snap'[v] = snap[v]
        /\ pc'[w] = "processed_insert" => CheckProcessed(w)
<1>1. ASSUME NEW label, Goto(w, label), label # "processed_insert" \/ CheckProcessed(w),
             \/ UNCHANGED stamp
             \/ \E n : stamp' = [stamp EXCEPT ![w] = n],
             \/ UNCHANGED snap
             \/ \E n : snap' = [snap EXCEPT ![w] = n]
      PROVE  Frame
  <2>1. pc' = [pc EXCEPT ![w] = label]
    BY <1>1 DEF Goto
  <2>2. pc'[w] = label /\ \A v \in Workers \ {w} : pc'[v] = pc[v]
    BY <2>1 DEF LocalsOK
  <2>3. \A v \in Workers \ {w} : stamp'[v] = stamp[v]
    BY <1>1 DEF LocalsOK
  <2>4. \A v \in Workers \ {w} : snap'[v] = snap[v]
    BY <1>1 DEF LocalsOK
  <2> QED
    BY <1>1, <2>2, <2>3, <2>4
<1>2. ASSUME NEW t, NEW label, Reset(w, t, label), label # "processed_insert" PROVE Frame
  BY <1>1, <1>2 DEF Reset
<1>3. Forget(w) \/ Computed(w) => Frame
  BY <1>2 DEF Forget, Computed
<1>4. ASSUME NEW label, Local(w, label), label # "processed_insert" PROVE Frame
  BY <1>1, <1>4 DEF Local
<1>5. ReturnProcessed(w) => Frame
  <2>1. CASE task[w].stage = "processed"
    BY <1>3, <2>1 DEF ReturnProcessed
  <2>2. CASE task[w].stage # "processed"
    BY <1>1, <2>2 DEF ReturnProcessed
  <2> QED
    BY <2>1, <2>2
<1> HIDE DEF Frame
<1>6. ASSUME ComputeProcessed(w) PROVE Frame
  <2>1. SnapshotProcessed(w) => Frame
    BY <1>1 DEF SnapshotProcessed
  <2>2. MirrorEpoch(w, "processed_epoch", snap[w], "processed_check") => Frame
    BY <1>4 DEF MirrorEpoch
  <2>3. CheckProcessed(w) => Frame
    BY <1>1 DEF CheckProcessed
  <2>4. InsertProcessed(w) => Frame
    <3>1. InsertProcessed(w) => /\ UNCHANGED <<stamp, snap>>
                                /\ \E label \in {"processed_reject", "fed_by"} : Goto(w, label)
      BY DEF InsertProcessed
    <3> QED
      BY <1>1, <3>1
  <2>5. RejectProcessed(w) \/ InvalidateFedBy(w) => Frame
    BY <1>5 DEF RejectProcessed, InvalidateFedBy
  <2> QED
    BY <1>6, <2>1, <2>2, <2>3, <2>4, <2>5 DEF ComputeProcessed
<1>7. ASSUME ComputeComposite(w) PROVE Frame
  <2>1. SnapshotComposite(w) \/ InputVersions(w) \/ Blend(w) => Frame
    BY <1>1 DEF SnapshotComposite, InputVersions, Blend
  <2>2. MirrorEpoch(w, "composite_epoch", base[w], "ensure") \/ EnsureProcessed(w) => Frame
    BY <1>4 DEF MirrorEpoch, EnsureProcessed
  <2>3. CheckComposite(w) => Frame
    BY <1>1 DEF CheckComposite
  <2>4. RetryComposite(w) \/ RejectComposite(w) => Frame
    BY <1>3 DEF RetryComposite, RejectComposite
  <2>5. RecheckProcessed(w) => Frame
    <3>1. RecheckProcessed(w) => Forget(w) \/ Local(w, "composite_insert")
      BY DEF RecheckProcessed
    <3> QED
      BY <1>3, <1>4, <3>1
  <2>6. InsertComposite(w) => Frame
    <3>1. InsertComposite(w) => Computed(w) \/ Local(w, "composite_reject")
      BY DEF InsertComposite
    <3> QED
      BY <1>3, <1>4, <3>1
  <2> QED
    BY <1>7, <2>1, <2>2, <2>3, <2>4, <2>5, <2>6 DEF ComputeComposite
<1>8. Dequeue(w) => Frame
  BY <1>1 DEF Dequeue
<1>9. DropStale(w) \/ AnnounceEpoch(w) => Frame
  BY <1>3 DEF DropStale, AnnounceEpoch
<1>10. StartCompute(w) => Frame
  BY <1>4 DEF StartCompute
<1>11. Announce(w) => Frame
  <2>1. Announce(w) => Forget(w) \/ (Goto(w, "announce") /\ UNCHANGED <<snap, stamp>>)
    BY DEF Announce
  <2> QED
    BY <1>1, <1>3, <2>1
<1>12. TaskFinished(w) \/ DrainPending(w) => Frame
  <2>1. TaskFinished(w) \/ DrainPending(w) => \E label \in {"idle", "drain", "run"} : Local(w, label)
    BY DEF TaskFinished, DrainPending
  <2> QED
    BY <1>4, <2>1
<1>13. RunRefresh(w) => Frame
  <2>1. RunInvalidateProcessed(w) \/ RunInvalidateComposite(w) => Frame
    BY <1>4 DEF RunInvalidateProcessed, RunInvalidateComposite
  <2>2. MirrorEpoch(w, "run_epoch", base[w], "run_enqueue") => Frame
    BY <1>4 DEF MirrorEpoch
  <2>3. RunSnapshot(w) => Frame
    BY <1>1 DEF RunSnapshot
  <2>4. RunEnqueueVisible(w) => Frame
    BY <1>2 DEF RunEnqueueVisible
  <2> QED
    BY <2>1, <2>2, <2>3, <2>4 DEF RunRefresh
<1> QED
  BY <1>6, <1>7, <1>8, <1>9, <1>10, <1>11, <1>12, <1>13 DEF Worker, Frame

\* What a worker is about to publish was witnessed when it compared the
\* generations, and stays so.
LEMMA StampsKept ==
    ASSUME FreshInv, StampsOK, CloneOK, [Next]_vars
    PROVE  StampsOK'
<1> USE DEF FreshInv
<1>1. SUFFICES ASSUME NEW w \in Workers, pc'[w] = "processed_insert"
               PROVE  Promised(w)'
  BY DEF StampsOK
<1>2. ASSUME pc[w] = "processed_insert", stamp'[w] = stamp[w], snap'[w] = snap[w]
      PROVE  Promised(w)'
  <2>1. snap[w] \in 1..Len(docs)
    BY <1>2 DEF HeldOK, SnapLabels
  <2>2. docs'[snap[w]].look = docs[snap[w]].look
    <3>1. ASSUME UNCHANGED docVars PROVE docs'[snap[w]].look = docs[snap[w]].look
      BY <3>1 DEF docVars
    <3>2. CASE Main
      BY <2>1, <3>2, MainTyped DEF DocsGrow
    <3>3. ASSUME NEW v \in Workers, Worker(v) PROVE docs'[snap[w]].look = docs[snap[w]].look
      BY <3>1, <3>3, WorkerDocs
    <3>4. CASE Pull \/ (\E t \in delayed : Requeue(t)) \/ UNCHANGED vars
      BY <3>1, <3>4 DEF Pull, Requeue, vars
    <3> QED
      BY <3>2, <3>3, <3>4 DEF Next
  <2>3. PICK gen, pixels : gen = stamp[w] /\ pixels = docs[snap[w]].look
    OBVIOUS
  <2>4. Witnessed(gen, pixels)
    BY <1>2, <2>3 DEF StampsOK, Promised
  <2>5. Witnessed(gen, pixels)'
    BY <2>4, WitnessKept
  <2> QED
    BY <1>2, <2>2, <2>3, <2>5 DEF Promised, Witnessed
<1>3. ASSUME UNCHANGED workerVars PROVE Promised(w)'
  BY <1>1, <1>2, <1>3 DEF workerVars
<1>4. CASE Main
  <2>1. UNCHANGED workerVars
    BY <1>4 DEF Main, Edit, IncrementLayerGen, UndoOrRedo, BumpLiveDocumentGen, InvalidateProcessed,
                InvalidateComposite, SetEpoch, EnqueueVisible, RequestRefresh, StashRefresh
  <2> QED
    BY <1>3, <2>1
<1>5. CASE Pull \/ (\E t \in delayed : Requeue(t)) \/ UNCHANGED vars
  BY <1>3, <1>5 DEF Pull, Requeue, vars
<1>6. ASSUME NEW v \in Workers, Worker(v) PROVE Promised(w)'
  <2>1. CASE v # w
    BY <1>1, <1>2, <1>6, <2>1, WorkerFrame
  <2>2. CASE v = w
    <3>1. CheckProcessed(w)
      BY <1>1, <1>6, <2>2, WorkerFrame
    <3>2. /\ UNCHANGED <<docs, snap>> /\ stamp' = [stamp EXCEPT ![w] = docs[snap[w]].content_gen]
          /\ snap[w] \in 1..Len(docs)
      BY <3>1 DEF CheckProcessed, docVars, HeldOK, SnapLabels
    <3>3. stamp'[w] = docs[snap[w]].content_gen
      BY <3>2 DEF LocalsOK
    <3> QED
      BY <3>2, <3>3 DEF Promised, Witnessed
  <2> QED
    BY <2>1, <2>2
<1> QED
  BY <1>4, <1>5, <1>6 DEF Next

\* Besides an insert, a step leaves pixels and stamp of the Processed tile.
Republished ==
    \/ processed' = processed
    \/ processed' = MarkDirty(processed)
    \/ processed' = DirtyIfBehind(processed)

LEMMA ProcessedSteps ==
    ASSUME [Next]_vars, ~\E w \in Workers : InsertProcessed(w)
    PROVE  Republished
<1>1. ASSUME UNCHANGED processed PROVE Republished
  BY <1>1 DEF Republished
<1>2. Edit \/ IncrementLayerGen \/ UndoOrRedo \/ BumpLiveDocumentGen => Republished
  BY <1>1 DEF Edit, IncrementLayerGen, UndoOrRedo, BumpLiveDocumentGen, cacheVars
<1>3. InvalidateProcessed => Republished
  BY DEF InvalidateProcessed, Republished
<1>4. ASSUME \/ InvalidateComposite \/ SetEpoch \/ EnqueueVisible \/ RequestRefresh \/ StashRefresh
             \/ Pull \/ (\E t \in delayed : Requeue(t))
      PROVE  Republished
  BY <1>1, <1>4 DEF InvalidateComposite, SetEpoch, EnqueueVisible, RequestRefresh, StashRefresh, Pull,
                    Requeue, cacheVars
<1>5. ASSUME NEW w \in Workers, Worker(w) PROVE Republished
  <2>1. ASSUME ComputeProcessed(w) PROVE Republished
    <3>1. SnapshotProcessed(w) \/ CheckProcessed(w) \/ InvalidateFedBy(w) => Republished
      BY <1>1 DEF SnapshotProcessed, CheckProcessed, InvalidateFedBy, cacheVars
    <3>2. MirrorEpoch(w, "processed_epoch", snap[w], "processed_check") => Republished
      BY <1>1 DEF MirrorEpoch
    <3>3. RejectProcessed(w) => Republished
      BY DEF RejectProcessed, Republished
    <3> QED
      BY <2>1, <3>1, <3>2, <3>3 DEF ComputeProcessed
  <2>2. ASSUME ComputeComposite(w) PROVE Republished
    <3>1. SnapshotComposite(w) \/ EnsureProcessed(w) \/ InputVersions(w) \/ Blend(w) => Republished
      BY <1>1 DEF SnapshotComposite, EnsureProcessed, InputVersions, Blend, cacheVars
    <3>2. MirrorEpoch(w, "composite_epoch", base[w], "ensure") => Republished
      BY <1>1 DEF MirrorEpoch
    <3>3. CheckComposite(w) \/ RetryComposite(w) \/ RecheckProcessed(w) => Republished
      BY <1>1 DEF CheckComposite, RetryComposite, RecheckProcessed, cacheVars
    <3>4. InsertComposite(w) \/ RejectComposite(w) => Republished
      BY <1>1 DEF InsertComposite, RejectComposite
    <3> QED
      BY <2>2, <3>1, <3>2, <3>3, <3>4 DEF ComputeComposite
  <2>3. Dequeue(w) \/ DropStale(w) \/ StartCompute(w) \/ Announce(w) \/ AnnounceEpoch(w) => Republished
    BY <1>1 DEF Dequeue, DropStale, StartCompute, Announce, AnnounceEpoch, cacheVars
  <2>4. TaskFinished(w) \/ DrainPending(w) => Republished
    BY <1>1 DEF TaskFinished, DrainPending, cacheVars
  <2>5. ASSUME RunRefresh(w) PROVE Republished
    <3>1. RunInvalidateProcessed(w) => Republished
      BY DEF RunInvalidateProcessed, Republished
    <3>2. RunInvalidateComposite(w) \/ RunSnapshot(w) \/ RunEnqueueVisible(w) => Republished
      BY <1>1 DEF RunInvalidateComposite, RunSnapshot, RunEnqueueVisible, cacheVars
    <3>3. MirrorEpoch(w, "run_epoch", base[w], "run_enqueue") => Republished
      BY <1>1 DEF MirrorEpoch
    <3> QED
      BY <2>5, <3>1, <3>2, <3>3 DEF RunRefresh
  <2> QED
    BY <1>5, <2>1, <2>2, <2>3, <2>4, <2>5 DEF Worker
<1>6. UNCHANGED vars => Republished
  BY <1>1 DEF vars, cacheVars
<1>7. Main => Republished
  BY <1>2, <1>3, <1>4 DEF Main
<1> QED
  BY <1>4, <1>5, <1>6, <1>7 DEF Next

LEMMA StampsNamed ==
    ASSUME StampInv, [Next]_vars
    PROVE  StampNamesPixels'
<1> USE DEF StampInv, FreshInv
<1>1. ASSUME NEW gen, NEW pixels, Witnessed(gen, pixels),
             processed'.generation = gen, processed'.look = pixels
      PROVE  StampNamesPixels'
  <2>1. Witnessed(gen, pixels)'
    BY <1>1, WitnessKept
  <2> QED
    BY <1>1, <2>1 DEF Witnessed, StampNamesPixels
<1>2. CASE \E w \in Workers : InsertProcessed(w)
  <2> PICK w \in Workers : InsertProcessed(w)
    BY <1>2
  <2>1. CASE Refused(processed, w)
    <3>1. processed' = processed /\ processed # None
      BY <2>1 DEF InsertProcessed, Refused
    <3>2. PICK gen, pixels : gen = processed.generation /\ pixels = processed.look
      OBVIOUS
    <3> QED
      BY <1>1, <3>1, <3>2 DEF StampNamesPixels, Witnessed
  <2>2. CASE ~Refused(processed, w)
    <3>1. processed' = [look |-> docs[snap[w]].look, generation |-> stamp[w], dirty |-> FALSE]
      BY <2>2 DEF InsertProcessed
    <3>2. PICK gen, pixels : gen = stamp[w] /\ pixels = docs[snap[w]].look
      OBVIOUS
    <3>3. Witnessed(gen, pixels)
      BY <3>2 DEF InsertProcessed, StampsOK, Promised
    <3> QED
      BY <1>1, <3>1, <3>2, <3>3
  <2> QED
    BY <2>1, <2>2
<1>3. CASE ~\E w \in Workers : InsertProcessed(w)
  <2>1. Republished
    BY <1>3, ProcessedSteps
  <2>2. /\ processed' = None <=> processed = None
        /\ processed # None => /\ processed'.generation = processed.generation
                               /\ processed'.look = processed.look
    BY <2>1, MarkDirtyTyped, DirtyIfBehindTyped DEF Republished, CacheOK
  <2>3. PICK gen, pixels : gen = processed.generation /\ pixels = processed.look
    OBVIOUS
  <2> QED
    BY <1>1, <2>2, <2>3 DEF StampNamesPixels, Witnessed
<1> QED
  BY <1>2, <1>3

\* No Processed tile is ever published under the content generation of other
\* pixels, for any number of workers, edits, undo and redo calls
\* (tile_pipeline.rs:604-619, undo.rs:297-307).
THEOREM StampCorrect == Spec => []StampNamesPixels
<1>1. Init => StampInv
  <2> SUFFICES ASSUME Init PROVE StampInv
    OBVIOUS
  <2>1. FreshInv
    BY FreshInit
  <2>2. StampsOK /\ CloneOK
    BY DEF Init, StampsOK, CloneOK
  <2>3. StampNamesPixels
    <3>1. Len(docs) = 1 /\ docs[1].content_gen = 1 /\ docs[1].look = 1
      BY DEF Init
    <3>2. processed # None => processed.generation = 1 /\ processed.look = 1
      BY DEF Init
    <3> QED
      BY <3>1, <3>2 DEF StampNamesPixels
  <2> QED
    BY <2>1, <2>2, <2>3 DEF StampInv
<1>2. StampInv /\ [Next]_vars => StampInv'
  <2> SUFFICES ASSUME StampInv, [Next]_vars PROVE StampInv'
    OBVIOUS
  <2> QED
    BY FreshNext, StampsNamed, StampsKept, CloneKept DEF StampInv
<1> QED
  BY <1>1, <1>2, PTL DEF Spec, StampInv

-----------------------------------------------------------------------------
(***************************************************************************)
(* One worker and no undo: what is served as fresh shows the live          *)
(* document.  Documents are numbered by their content generation; a look   *)
(* travels from the document to the Processed entry, to the worker's       *)
(* blend, to the Composite entry, and at each place is at least as new as  *)
(* the generation it is published under.                                   *)
(***************************************************************************)
\* Edits only: the n-th document has content generation n and shows edit n.
Numbered ==
    /\ live = Len(docs) /\ Len(docs) = edits + 1
    /\ \A d \in 1..Len(docs) : docs[d].content_gen = d /\ docs[d].look = d
    /\ undos = 0 /\ main # "bump"

\* The entries and the epoch come from documents there are.
EntriesOK ==
    /\ content_epoch <= live
    /\ processed # None =>
        processed.look = processed.generation /\ processed.generation <= live
    /\ composite # None =>
        composite.generation <= composite.look /\ composite.look <= live

\* From its epoch mirror to its insert a composite keeps the content epoch at
\* its own document or later.
EpochLabels == {"ensure", "inputs", "blend", "composite_check", "recheck", "composite_insert"}
AtEpoch(w) ==
    \/ pc[w] \in EpochLabels
    \/ pc[w] \in InlineLabels /\ task[w].stage = "composite"
EpochOK ==
    \A w \in Workers :
        /\ AtEpoch(w) => base[w] <= content_epoch
        /\ AtEpoch(w) /\ pc[w] \in SnapLabels => base[w] <= snap[w]

\* The stamp is the content generation of the document that was compared.
StampLabels == {"recheck", "composite_insert"}
OwnStampOK ==
    \A w \in Workers :
        /\ pc[w] = "processed_insert" => stamp[w] = snap[w]
        /\ pc[w] \in StampLabels => stamp[w] = base[w]

\* What was blended is still in the Processed entry, and new enough when the
\* composite is inserted.
BlendLabels == {"composite_check"} \union StampLabels
BlendedOK ==
    \A w \in Workers :
        /\ pc[w] \in BlendLabels =>
            look[w] = IF processed = None THEN Blank ELSE processed.look
        /\ pc[w] = "composite_insert" => processed # None /\ base[w] <= processed.generation

ShowInv == Numbered /\ EntriesOK /\ EpochOK /\ OwnStampOK /\ BlendedOK

OneWorker == \E w : Workers = {w}

\* An entry keeps its pixels and its stamp.
KeepsEntry(old, new) ==
    /\ new = None <=> old = None
    /\ old # None => new.look = old.look /\ new.generation = old.generation

LEMMA MarkedKept ==
    ASSUME NEW e \in Entry \union {None}
    PROVE  KeepsEntry(e, e) /\ KeepsEntry(e, MarkDirty(e)) /\ KeepsEntry(e, DirtyIfBehind(e))
BY MarkDirtyTyped, DirtyIfBehindTyped DEF KeepsEntry

\* What the others do to a worker in the middle of its task.
Outside ==
    /\ live <= live' /\ live' \in Nat
    /\ KeepsEntry(processed, processed') /\ KeepsEntry(composite, composite')
    /\ content_epoch' = content_epoch \/ content_epoch' = live'
    /\ UNCHANGED workerVars

LEMMA OutsideShows ==
    ASSUME FreshInv, ShowInv, Outside, Numbered'
    PROVE  ShowInv'
<1> USE DEF ShowInv
<1>0. live \in Nat /\ content_epoch \in Nat /\ Len(docs) \in Nat /\ Len(docs) = live
      /\ content_epoch <= content_epoch'
  BY DocTyped DEF FreshInv, CacheOK, DocsOK, Numbered, EntriesOK, Outside
<1>1. EntriesOK'
  BY <1>0 DEF EntriesOK, Outside, KeepsEntry, FreshInv, CacheOK, Entry, Look
<1>2. EpochOK'
  BY <1>0 DEF EpochOK, AtEpoch, Outside, workerVars, FreshInv, LocalsOK
<1>3. OwnStampOK'
  BY DEF OwnStampOK, Outside, workerVars
<1>4. BlendedOK'
  BY DEF BlendedOK, Outside, workerVars, KeepsEntry
<1> QED
  BY <1>1, <1>2, <1>3, <1>4

LEMMA NumberedMain ==
    ASSUME FreshInv, Numbered, MaxUndos = 0, Main
    PROVE  Numbered' /\ live <= live' /\ live' \in Nat
<1> USE DEF FreshInv
<1>0. Len(docs) \in Nat /\ edits \in Nat /\ live \in Nat /\ live = Len(docs)
  BY DocTyped, FreshnessAssumption DEF DocsOK, Numbered, FreshnessAssumption
<1>1. CASE Edit
  <2>1. /\ DocsOK' /\ live' = Len(docs) + 1 /\ edits' = edits + 1 /\ undos' = undos
        /\ main' # "bump"
        /\ \A d \in 1..Len(docs) : docs'[d] = docs[d]
    BY <1>1, EditDocs DEF Edit
  <2>2. PICK kind : docs' = Append(docs, [look |-> edits + 2,
                                 document_gen |-> Doc.document_gen + (IF kind = "palette" THEN 0 ELSE 1),
                                 content_gen |-> Doc.content_gen + 1,
                                 layer_gen |-> Doc.layer_gen])
    BY <1>1 DEF Edit
  <2>3. Len(docs') = Len(docs) + 1 /\ docs'[Len(docs) + 1].look = edits + 2
        /\ docs'[Len(docs) + 1].content_gen = Doc.content_gen + 1
    BY <2>2 DEF DocsOK
  <2>4. Doc.content_gen = Len(docs) /\ edits + 2 = Len(docs) + 1
    BY <1>0 DEF Numbered, Doc, DocsOK
  <2>5. \A d \in 1..Len(docs') : docs'[d].content_gen = d /\ docs'[d].look = d
    <3>1. ASSUME NEW d \in 1..Len(docs')
          PROVE  docs'[d].content_gen = d /\ docs'[d].look = d
      <4>1. CASE d \in 1..Len(docs)
        BY <2>1, <4>1 DEF Numbered
      <4>2. CASE d = Len(docs) + 1
        BY <2>3, <2>4, <4>2
      <4> QED
        BY <1>0, <2>3, <4>1, <4>2
    <3> QED
      BY <3>1
  <2> QED
    BY <1>0, <2>1, <2>3, <2>5 DEF Numbered
<1>2. CASE IncrementLayerGen
  <2> DEFINE new == [Doc EXCEPT !.layer_gen = @ + 1]
  <2>1. docs' = [docs EXCEPT ![live] = new]
    BY <1>2 DEF IncrementLayerGen, Doc
  <2>2. new.content_gen = Doc.content_gen /\ new.look = Doc.look
    BY DocTyped DEF DocType
  <2> HIDE DEF new
  <2>3. Len(docs') = Len(docs) /\ \A d \in 1..Len(docs) : docs'[d] = IF d = live THEN new ELSE docs[d]
    BY <2>1 DEF DocsOK
  <2>4. \A d \in 1..Len(docs) : docs'[d].content_gen = docs[d].content_gen /\ docs'[d].look = docs[d].look
    BY <2>2, <2>3 DEF Doc
  <2>5. UNCHANGED <<live, edits, undos>> /\ main' # "bump"
    BY <1>2 DEF IncrementLayerGen
  <2> QED
    BY <1>0, <2>3, <2>4, <2>5 DEF Numbered
<1>3. ~UndoOrRedo /\ ~BumpLiveDocumentGen
  BY DEF UndoOrRedo, BumpLiveDocumentGen, Numbered
<1>4. CASE \/ InvalidateProcessed \/ InvalidateComposite \/ SetEpoch \/ EnqueueVisible
           \/ RequestRefresh \/ StashRefresh
  <2>1. UNCHANGED <<docs, live, edits, undos>> /\ main' # "bump"
    BY <1>4 DEF InvalidateProcessed, InvalidateComposite, SetEpoch, EnqueueVisible, RequestRefresh,
                StashRefresh, docVars
  <2> QED
    BY <1>0, <2>1 DEF Numbered
<1> QED
  BY <1>1, <1>2, <1>3, <1>4 DEF Main

LEMMA MainShows ==
    ASSUME FreshInv, ShowInv, MaxUndos = 0, Main
    PROVE  ShowInv'
<1>1. Numbered' /\ live <= live' /\ live' \in Nat
  BY NumberedMain DEF ShowInv
<1>2. KeepsEntry(processed, processed) /\ KeepsEntry(processed, MarkDirty(processed))
      /\ KeepsEntry(composite, composite) /\ KeepsEntry(composite, MarkDirty(composite))
  BY MarkedKept DEF FreshInv, CacheOK
<1>3. Outside
  <2>1. CASE Edit
    BY <1>1, <1>2, <2>1 DEF Edit, cacheVars, Outside
  <2>2. CASE IncrementLayerGen
    BY <1>1, <1>2, <2>2 DEF IncrementLayerGen, cacheVars, Outside
  <2>3. CASE InvalidateProcessed \/ InvalidateComposite \/ EnqueueVisible \/ RequestRefresh \/ StashRefresh
    BY <1>1, <1>2, <2>3 DEF InvalidateProcessed, InvalidateComposite, EnqueueVisible, RequestRefresh,
                            StashRefresh, cacheVars, Outside
  <2>4. CASE SetEpoch
    <3>1. Doc.content_gen = live /\ live' = live
      BY <2>4 DEF SetEpoch, docVars, ShowInv, Numbered, Doc, FreshInv, DocsOK
    <3> QED
      BY <1>1, <1>2, <2>4, <3>1 DEF SetEpoch, Outside
  <2>5. ~UndoOrRedo /\ ~BumpLiveDocumentGen
    BY DEF UndoOrRedo, BumpLiveDocumentGen, ShowInv, Numbered
  <2> QED
    BY <2>1, <2>2, <2>3, <2>4, <2>5 DEF Main
<1> QED
  BY <1>1, <1>3, OutsideShows

\* Steps that leave documents, caches and workers alone.
LEMMA PoolShows ==
    ASSUME FreshInv, ShowInv, UNCHANGED <<docVars, cacheVars, mainVars, workerVars>>
    PROVE  ShowInv'
<1>1. Numbered'
  BY DEF ShowInv, Numbered, docVars, mainVars
<1>2. Outside
  BY DocTyped DEF Outside, KeepsEntry, FreshInv, DocsOK, docVars, cacheVars
<1> QED
  BY <1>1, <1>2, OutsideShows

-----------------------------------------------------------------------------
(* The only worker's own steps.                                            *)

FreeLabels == {"check", "composite", "composite_epoch", "composite_retry", "composite_reject",
    "computed", "announce"} \union Resting

\* A worker that is at rest, or has given up, has nothing to keep.
LEMMA FreeShows ==
    ASSUME ShowInv, NEW w, Workers = {w}, UNCHANGED docVars, UNCHANGED <<main, edits, undos>>,
           pc'[w] \in FreeLabels, EntriesOK'
    PROVE  ShowInv'
<1>1. Numbered'
  BY DEF ShowInv, Numbered, docVars
<1>2. EpochOK'
  BY DEF EpochOK, AtEpoch, EpochLabels, InlineLabels, SnapLabels, FreeLabels, Resting
<1>3. OwnStampOK' /\ BlendedOK'
  BY DEF OwnStampOK, BlendedOK, BlendLabels, StampLabels, FreeLabels, Resting
<1> QED
  BY <1>1, <1>2, <1>3 DEF ShowInv

LEMMA EntriesKept ==
    ASSUME FreshInv, ShowInv, UNCHANGED docVars,
           KeepsEntry(processed, processed'), KeepsEntry(composite, composite'), content_epoch' <= live
    PROVE  EntriesOK'
BY DEF ShowInv, EntriesOK, KeepsEntry, docVars, FreshInv, CacheOK, Entry, Look

\* A worker that leaves its last call: Forget, Computed.
LEMMA ResetShows ==
    ASSUME FreshInv, ShowInv, NEW w, Workers = {w}, UNCHANGED docVars, UNCHANGED <<main, edits, undos>>,
           Forget(w) \/ Computed(w), EntriesOK'
    PROVE  ShowInv'
<1>1. pc'[w] \in FreeLabels
  BY DEF Forget, Computed, Reset, Goto, FreshInv, LocalsOK, FreeLabels, Resting
<1> QED
  BY <1>1, FreeShows

\* compute_processed_tile returns to a task of its own or to a composite.
LEMMA ReturnShows ==
    ASSUME FreshInv, ShowInv, NEW w, Workers = {w}, UNCHANGED docVars, UNCHANGED <<main, edits, undos>>,
           pc[w] \in InlineLabels, ReturnProcessed(w), EntriesOK', UNCHANGED content_epoch
    PROVE  ShowInv'
<1>1. CASE task[w].stage = "processed"
  BY <1>1, ResetShows DEF ReturnProcessed
<1>2. CASE task[w].stage # "processed"
  <2>1. pc[w] \notin Resting
    BY DEF InlineLabels, SnapLabels, Resting
  <2>2. task[w].stage = "composite"
    BY <1>2, <2>1, TaskHeld DEF FreshInv, TaskType, Stages
  <2>3. pc'[w] = "inputs" /\ base'[w] = base[w]
    BY <1>2 DEF ReturnProcessed, Goto, FreshInv, LocalsOK
  <2>4. base[w] <= content_epoch
    BY <2>2 DEF ShowInv, EpochOK, AtEpoch
  <2>5. EpochOK'
    BY <2>3, <2>4 DEF EpochOK, SnapLabels
  <2>6. OwnStampOK' /\ BlendedOK'
    BY <2>3 DEF OwnStampOK, BlendedOK, BlendLabels, StampLabels
  <2>7. Numbered'
    BY DEF ShowInv, Numbered, docVars
  <2> QED
    BY <2>5, <2>6, <2>7 DEF ShowInv
<1> QED
  BY <1>1, <1>2

LEMMA ProcessedShows ==
    ASSUME FreshInv, ShowInv, NEW w, Workers = {w}, ComputeProcessed(w),
           UNCHANGED docVars, UNCHANGED <<main, edits, undos>>
    PROVE  ShowInv'
<1> USE DEF FreshInv, ShowInv
<1>0. /\ w \in Workers /\ live \in Nat /\ content_epoch \in Nat /\ base[w] \in Nat /\ snap[w] \in Nat
      /\ Len(docs) = live /\ Numbered'
  BY DocTyped DEF DocsOK, CacheOK, LocalsOK, Numbered, docVars
<1>k. /\ KeepsEntry(processed, processed) /\ KeepsEntry(composite, composite)
      /\ KeepsEntry(composite, MarkDirty(composite)) /\ KeepsEntry(processed, DirtyIfBehind(processed))
  BY MarkedKept DEF CacheOK
<1>1. CASE SnapshotProcessed(w)
  <2>1. /\ pc[w] = "processed" /\ pc'[w] = "processed_epoch" /\ snap'[w] = live
        /\ UNCHANGED <<task, base, processed, composite, content_epoch>>
    BY <1>0, <1>1 DEF SnapshotProcessed, Goto, LocalsOK, cacheVars
  <2>2. EntriesOK'
    BY <1>k, <2>1, EntriesKept DEF EntriesOK
  <2>3. EpochOK'
    BY <1>0, <2>1 DEF EpochOK, AtEpoch, InlineLabels, SnapLabels, EpochLabels, EntriesOK
  <2>4. OwnStampOK' /\ BlendedOK'
    BY <2>1 DEF OwnStampOK, BlendedOK, BlendLabels, StampLabels
  <2> QED
    BY <1>0, <2>2, <2>3, <2>4
<1>2. CASE MirrorEpoch(w, "processed_epoch", snap[w], "processed_check")
  <2>1. /\ pc[w] = "processed_epoch" /\ pc'[w] = "processed_check"
        /\ content_epoch' = docs[snap[w]].content_gen
        /\ UNCHANGED <<task, base, snap, processed, composite>>
    BY <1>0, <1>2 DEF MirrorEpoch, Local, Goto, LocalsOK
  <2>2. content_epoch' = snap[w] /\ snap[w] <= live
    BY <1>0, <2>1 DEF HeldOK, SnapLabels, Numbered
  <2>3. EntriesOK'
    BY <1>k, <2>1, <2>2, EntriesKept
  <2>4. EpochOK'
    BY <1>0, <2>1, <2>2 DEF EpochOK, AtEpoch, InlineLabels, SnapLabels, EpochLabels
  <2>5. OwnStampOK' /\ BlendedOK'
    BY <2>1 DEF OwnStampOK, BlendedOK, BlendLabels, StampLabels
  <2> QED
    BY <1>0, <2>3, <2>4, <2>5
<1>3. CASE CheckProcessed(w)
  <2>1. /\ pc[w] = "processed_check" /\ pc'[w] \in {"processed_insert", "processed_reject"}
        /\ stamp'[w] = docs[snap[w]].content_gen
        /\ UNCHANGED <<task, base, snap, processed, composite, content_epoch>>
    BY <1>0, <1>3 DEF CheckProcessed, Goto, LocalsOK, cacheVars
  <2>2. stamp'[w] = snap[w]
    BY <2>1, <1>0 DEF HeldOK, SnapLabels, Numbered
  <2>3. EntriesOK'
    BY <1>k, <2>1, EntriesKept DEF EntriesOK
  <2>4. EpochOK'
    BY <1>0, <2>1 DEF EpochOK, AtEpoch, InlineLabels, SnapLabels, EpochLabels
  <2>5. OwnStampOK' /\ BlendedOK'
    BY <2>1, <2>2 DEF OwnStampOK, BlendedOK, BlendLabels, StampLabels
  <2> QED
    BY <1>0, <2>3, <2>4, <2>5
<1>4. CASE InsertProcessed(w)
  <2>1. /\ pc[w] = "processed_insert" /\ pc'[w] \in {"fed_by", "processed_reject"}
        /\ UNCHANGED <<task, base, snap, composite, content_epoch>>
    BY <1>0, <1>4 DEF InsertProcessed, Goto, LocalsOK
  <2>2. EntriesOK'
    <3>1. CASE processed' = processed
      BY <1>k, <2>1, <3>1, EntriesKept DEF EntriesOK
    <3>2. CASE processed' = [look |-> docs[snap[w]].look, generation |-> stamp[w], dirty |-> FALSE]
      <4>1. stamp[w] = snap[w] /\ snap[w] \in 1..Len(docs) /\ docs[snap[w]].look = snap[w]
        BY <1>0, <2>1 DEF OwnStampOK, HeldOK, SnapLabels, Numbered
      <4>2. processed'.look = snap[w] /\ processed'.generation = snap[w] /\ snap[w] <= live
        BY <1>0, <3>2, <4>1
      <4> QED
        BY <2>1, <4>2 DEF EntriesOK, docVars
    <3> QED
      BY <1>4, <3>1, <3>2 DEF InsertProcessed
  <2>3. EpochOK'
    BY <1>0, <2>1 DEF EpochOK, AtEpoch, InlineLabels, SnapLabels, EpochLabels
  <2>4. OwnStampOK' /\ BlendedOK'
    BY <2>1 DEF OwnStampOK, BlendedOK, BlendLabels, StampLabels
  <2> QED
    BY <1>0, <2>2, <2>3, <2>4
<1>5. CASE RejectProcessed(w)
  <2>1. EntriesOK'
    BY <1>5, <1>k, EntriesKept DEF RejectProcessed, EntriesOK
  <2> QED
    BY <1>5, <2>1, ReturnShows DEF RejectProcessed, InlineLabels
<1>6. CASE InvalidateFedBy(w)
  <2>1. EntriesOK'
    BY <1>6, <1>k, EntriesKept DEF InvalidateFedBy, EntriesOK
  <2> QED
    BY <1>6, <2>1, ReturnShows DEF InvalidateFedBy, InlineLabels
<1> QED
  BY <1>1, <1>2, <1>3, <1>4, <1>5, <1>6 DEF ComputeProcessed

LEMMA CompositeShows ==
    ASSUME FreshInv, ShowInv, NEW w, Workers = {w}, ComputeComposite(w),
           UNCHANGED docVars, UNCHANGED <<main, edits, undos>>
    PROVE  ShowInv'
<1> USE DEF FreshInv, ShowInv
<1>0. /\ w \in Workers /\ live \in Nat /\ content_epoch \in Nat /\ base[w] \in Nat /\ snap[w] \in Nat
      /\ Len(docs) = live /\ Numbered'
  BY DocTyped DEF DocsOK, CacheOK, LocalsOK, Numbered, docVars
<1>k. /\ KeepsEntry(processed, processed) /\ KeepsEntry(composite, composite)
      /\ KeepsEntry(composite, MarkDirty(composite)) /\ KeepsEntry(composite, DirtyIfBehind(composite))
  BY MarkedKept DEF CacheOK
<1>s. UNCHANGED cacheVars => EntriesOK'
  BY <1>k, EntriesKept DEF cacheVars, EntriesOK
<1>1. CASE SnapshotComposite(w)
  <2>1. pc'[w] \in FreeLabels
    BY <1>0, <1>1 DEF SnapshotComposite, Goto, LocalsOK, FreeLabels
  <2> QED
    BY <1>1, <1>s, <2>1, FreeShows DEF SnapshotComposite
<1>2. CASE MirrorEpoch(w, "composite_epoch", base[w], "ensure")
  <2>1. /\ pc[w] = "composite_epoch" /\ pc'[w] = "ensure"
        /\ content_epoch' = docs[base[w]].content_gen
        /\ UNCHANGED <<task, base, processed, composite>>
    BY <1>0, <1>2 DEF MirrorEpoch, Local, Goto, LocalsOK
  <2>2. content_epoch' = base[w] /\ base[w] <= live
    BY <1>0, <2>1 DEF HeldOK, BaseLabels, Numbered
  <2>3. EntriesOK'
    BY <1>k, <2>1, <2>2, EntriesKept
  <2>4. EpochOK'
    BY <1>0, <2>1, <2>2 DEF EpochOK, SnapLabels
  <2>5. OwnStampOK' /\ BlendedOK'
    BY <2>1 DEF OwnStampOK, BlendedOK, BlendLabels, StampLabels
  <2> QED
    BY <1>0, <2>3, <2>4, <2>5
<1>3. CASE EnsureProcessed(w)
  <2>1. /\ pc[w] = "ensure" /\ pc'[w] \in {"processed", "inputs"}
        /\ UNCHANGED <<task, base, processed, composite, content_epoch>>
    BY <1>0, <1>3 DEF EnsureProcessed, Local, Goto, LocalsOK, cacheVars
  <2>2. EpochOK'
    BY <1>0, <2>1 DEF EpochOK, AtEpoch, SnapLabels, EpochLabels
  <2>3. OwnStampOK' /\ BlendedOK'
    BY <2>1 DEF OwnStampOK, BlendedOK, BlendLabels, StampLabels
  <2> QED
    BY <1>0, <1>3, <1>s, <2>2, <2>3 DEF EnsureProcessed
<1>4. CASE InputVersions(w)
  <2>1. /\ pc[w] = "inputs" /\ pc'[w] = "blend" /\ UNCHANGED <<base, content_epoch>>
    BY <1>0, <1>4 DEF InputVersions, Goto, LocalsOK, cacheVars
  <2>2. EpochOK'
    BY <1>0, <2>1 DEF EpochOK, AtEpoch, SnapLabels, EpochLabels
  <2>3. OwnStampOK' /\ BlendedOK'
    BY <2>1 DEF OwnStampOK, BlendedOK, BlendLabels, StampLabels
  <2> QED
    BY <1>0, <1>4, <1>s, <2>2, <2>3 DEF InputVersions
<1>5. CASE Blend(w)
  <2>1. /\ pc[w] = "blend" /\ pc'[w] = "composite_check" /\ UNCHANGED <<base, content_epoch, processed>>
        /\ look'[w] = IF processed = None THEN Blank ELSE processed.look
    BY <1>0, <1>5 DEF Blend, Goto, LocalsOK, cacheVars
  <2>2. EpochOK'
    BY <1>0, <2>1 DEF EpochOK, AtEpoch, SnapLabels, EpochLabels
  <2>3. OwnStampOK' /\ BlendedOK'
    BY <1>0, <2>1 DEF OwnStampOK, BlendedOK, BlendLabels, StampLabels
  <2> QED
    BY <1>0, <1>5, <1>s, <2>2, <2>3 DEF Blend
<1>6. CASE CheckComposite(w)
  <2>1. /\ pc[w] = "composite_check" /\ UNCHANGED <<base, look, content_epoch, processed>>
        /\ pc'[w] \in {"recheck", "composite_reject", "composite_retry"}
        /\ stamp'[w] = docs[base[w]].content_gen
    BY <1>0, <1>6 DEF CheckComposite, Goto, LocalsOK, cacheVars
  <2>2. stamp'[w] = base[w]
    BY <1>0, <2>1 DEF HeldOK, BaseLabels, Numbered
  <2>3. EntriesOK'
    BY <1>6, <1>s DEF CheckComposite
  <2>4. CASE pc'[w] = "recheck"
    <3>1. EpochOK'
      BY <1>0, <2>1, <2>4 DEF EpochOK, AtEpoch, SnapLabels, EpochLabels
    <3>2. OwnStampOK' /\ BlendedOK'
      BY <1>0, <2>1, <2>2, <2>4 DEF OwnStampOK, BlendedOK, BlendLabels, StampLabels
    <3> QED
      BY <1>0, <2>3, <3>1, <3>2
  <2>5. CASE pc'[w] # "recheck"
    <3>1. pc'[w] \in FreeLabels
      BY <2>1, <2>5 DEF FreeLabels
    <3> QED
      BY <2>3, <3>1, FreeShows
  <2> QED
    BY <2>4, <2>5
<1>7. CASE RetryComposite(w)
  <2>1. EntriesOK'
    BY <1>7, <1>k, EntriesKept DEF RetryComposite, EntriesOK
  <2> QED
    BY <1>7, <2>1, ResetShows DEF RetryComposite
<1>8. CASE RecheckProcessed(w)
  <2>1. CASE Behind(processed, content_epoch)
    <3>1. EntriesOK'
      BY <1>8, <1>k, <2>1, EntriesKept DEF RecheckProcessed, EntriesOK
    <3> QED
      BY <1>8, <2>1, <3>1, ResetShows DEF RecheckProcessed
  <2>2. CASE ~Behind(processed, content_epoch)
    <3>1. /\ pc[w] = "recheck" /\ pc'[w] = "composite_insert"
          /\ UNCHANGED <<base, stamp, look, content_epoch, processed, composite>>
      BY <1>0, <1>8, <2>2 DEF RecheckProcessed, Local, Goto, LocalsOK
    <3>2. processed # None /\ content_epoch <= processed.generation /\ processed.generation \in Nat
      BY <1>0, <2>2 DEF Behind, CacheOK, Entry
    <3>3. base[w] <= content_epoch
      BY <1>0, <3>1 DEF EpochOK, AtEpoch, EpochLabels
    <3>4. EpochOK'
      BY <1>0, <3>1, <3>3 DEF EpochOK, SnapLabels
    <3>5. OwnStampOK' /\ BlendedOK'
      BY <1>0, <3>1, <3>2, <3>3 DEF OwnStampOK, BlendedOK, BlendLabels, StampLabels
    <3>6. EntriesOK'
      BY <1>k, <3>1, EntriesKept DEF EntriesOK
    <3> QED
      BY <1>0, <3>4, <3>5, <3>6
  <2> QED
    BY <2>1, <2>2
<1>9. CASE InsertComposite(w)
  <2>1. EntriesOK'
    <3>1. CASE Refused(composite, w)
      BY <1>9, <1>k, <3>1, EntriesKept DEF InsertComposite, EntriesOK
    <3>2. CASE ~Refused(composite, w)
      <4>1. /\ pc[w] = "composite_insert" /\ UNCHANGED <<processed, content_epoch>>
            /\ composite' = [look |-> look[w], generation |-> stamp[w], dirty |-> FALSE]
        BY <1>9, <3>2 DEF InsertComposite
      <4>2. /\ stamp[w] = base[w] /\ processed # None /\ look[w] = processed.look
            /\ base[w] <= processed.generation
        BY <1>0, <4>1 DEF OwnStampOK, BlendedOK, BlendLabels, StampLabels
      <4>3. processed.look = processed.generation /\ processed.generation <= live
        BY <4>2 DEF EntriesOK
      <4>4. composite'.look = processed.look /\ composite'.generation = base[w]
        BY <4>1, <4>2
      <4> QED
        BY <4>1, <4>2, <4>3, <4>4 DEF EntriesOK, docVars
    <3> QED
      BY <3>1, <3>2
  <2>2. pc'[w] \in FreeLabels
    BY <1>0, <1>9 DEF InsertComposite, Local, Computed, Reset, Goto, LocalsOK, FreeLabels
  <2> QED
    BY <2>1, <2>2, FreeShows
<1>10. CASE RejectComposite(w)
  <2>1. EntriesOK'
    BY <1>10, <1>k, EntriesKept DEF RejectComposite, EntriesOK
  <2> QED
    BY <1>10, <2>1, ResetShows DEF RejectComposite
<1> QED
  BY <1>1, <1>2, <1>3, <1>4, <1>5, <1>6, <1>7, <1>8, <1>9, <1>10 DEF ComputeComposite

LEMMA WorkerShows ==
    ASSUME FreshInv, ShowInv, NEW w, Workers = {w}, Worker(w)
    PROVE  ShowInv'
<1> USE DEF FreshInv
<1>0. w \in Workers /\ UNCHANGED docVars /\ UNCHANGED <<main, edits, undos>>
  BY WorkerDocs
<1>s. UNCHANGED cacheVars => EntriesOK'
  BY <1>0, EntriesKept, MarkedKept DEF cacheVars, ShowInv, EntriesOK, CacheOK
<1>1. CASE ComputeProcessed(w) \/ ComputeComposite(w)
  BY <1>0, <1>1, ProcessedShows, CompositeShows
<1>2. CASE Dequeue(w)
  <2>1. pc'[w] \in FreeLabels
    BY <1>0, <1>2 DEF Dequeue, Goto, LocalsOK, FreeLabels
  <2> QED
    BY <1>0, <1>2, <1>s, <2>1, FreeShows DEF Dequeue
<1>3. CASE DropStale(w)
  BY <1>0, <1>3, <1>s, ResetShows DEF DropStale
<1>4. CASE StartCompute(w)
  <2>1. CASE task[w].stage = "composite"
    <3>1. pc'[w] \in FreeLabels
      BY <1>0, <1>4, <2>1 DEF StartCompute, Local, Goto, LocalsOK, FreeLabels
    <3> QED
      BY <1>0, <1>4, <1>s, <3>1, FreeShows DEF StartCompute
  <2>2. CASE task[w].stage # "composite"
    <3>1. pc'[w] = "processed" /\ task' = task
      BY <1>0, <1>4, <2>2 DEF StartCompute, Local, Goto, LocalsOK
    <3>2. EpochOK'
      BY <2>2, <3>1 DEF EpochOK, AtEpoch, EpochLabels
    <3>3. OwnStampOK' /\ BlendedOK'
      BY <3>1 DEF OwnStampOK, BlendedOK, BlendLabels, StampLabels
    <3>4. Numbered' /\ EntriesOK'
      BY <1>0, <1>4, <1>s DEF ShowInv, Numbered, StartCompute, docVars
    <3> QED
      BY <3>2, <3>3, <3>4 DEF ShowInv
  <2> QED
    BY <2>1, <2>2
<1>5. CASE Announce(w)
  <2>1. pc'[w] \in FreeLabels
    BY <1>0, <1>5 DEF Announce, Forget, Reset, Goto, LocalsOK, FreeLabels, Resting
  <2> QED
    BY <1>0, <1>5, <1>s, <2>1, FreeShows DEF Announce
<1>6. CASE AnnounceEpoch(w)
  <2>1. content_epoch' = base[w] /\ base[w] <= live
    BY <1>0, <1>6, DocTyped DEF AnnounceEpoch, HeldOK, BaseLabels, ShowInv, Numbered
  <2>2. EntriesOK'
    BY <1>0, <1>6, <2>1, EntriesKept, MarkedKept DEF AnnounceEpoch, CacheOK
  <2> QED
    BY <1>0, <1>6, <2>2, ResetShows DEF AnnounceEpoch
<1>7. CASE TaskFinished(w) \/ DrainPending(w)
  <2>1. pc'[w] \in FreeLabels /\ UNCHANGED cacheVars
    BY <1>0, <1>7 DEF TaskFinished, DrainPending, Local, Goto, LocalsOK, FreeLabels, Resting
  <2> QED
    BY <1>0, <1>s, <2>1, FreeShows
<1>8. CASE RunRefresh(w)
  <2>1. pc'[w] \in FreeLabels
    <3>1. pc[w] \in Resting /\ \E label \in Resting : Goto(w, label)
      BY <1>8 DEF RunRefresh, RunInvalidateProcessed, RunInvalidateComposite, RunSnapshot, MirrorEpoch,
                  RunEnqueueVisible, Local, Reset, Resting
    <3> QED
      BY <1>0, <3>1 DEF Goto, LocalsOK, FreeLabels
  <2>2. EntriesOK'
    <3>k. /\ KeepsEntry(processed, processed) /\ KeepsEntry(processed, MarkDirty(processed))
          /\ KeepsEntry(composite, composite) /\ KeepsEntry(composite, MarkDirty(composite))
          /\ content_epoch <= live
      BY MarkedKept DEF CacheOK, ShowInv, EntriesOK
    <3>1. CASE RunInvalidateProcessed(w) \/ RunInvalidateComposite(w)
      BY <1>0, <3>k, <3>1, EntriesKept DEF RunInvalidateProcessed, RunInvalidateComposite
    <3>2. CASE RunSnapshot(w) \/ RunEnqueueVisible(w)
      BY <1>s, <3>2 DEF RunSnapshot, RunEnqueueVisible
    <3>3. CASE MirrorEpoch(w, "run_epoch", base[w], "run_enqueue")
      <4>1. content_epoch' = base[w] /\ base[w] <= live
        BY <1>0, <3>3, DocTyped DEF MirrorEpoch, HeldOK, BaseLabels, ShowInv, Numbered
      <4> QED
        BY <1>0, <3>k, <3>3, <4>1, EntriesKept DEF MirrorEpoch
    <3> QED
      BY <1>8, <3>1, <3>2, <3>3 DEF RunRefresh
  <2> QED
    BY <1>0, <2>1, <2>2, FreeShows
<1> QED
  BY <1>1, <1>2, <1>3, <1>4, <1>5, <1>6, <1>7, <1>8 DEF Worker

LEMMA ShowInit == Init => ShowInv
<1> SUFFICES ASSUME Init PROVE ShowInv
  OBVIOUS
<1>1. Numbered
  BY DEF Init, Numbered
<1>2. EntriesOK
  BY DEF Init, EntriesOK
<1>3. EpochOK /\ OwnStampOK /\ BlendedOK
  BY DEF Init, EpochOK, AtEpoch, EpochLabels, InlineLabels, SnapLabels, OwnStampOK, BlendedOK,
         BlendLabels, StampLabels
<1> QED
  BY <1>1, <1>2, <1>3 DEF ShowInv

LEMMA ShowNext ==
    ASSUME OneWorker, MaxUndos = 0, FreshInv, ShowInv, [Next]_vars
    PROVE  ShowInv'
<1>1. CASE Main
  BY <1>1, MainShows
<1>2. CASE Pull \/ (\E t \in delayed : Requeue(t)) \/ UNCHANGED vars
  BY <1>2, PoolShows DEF Pull, Requeue, vars
<1>3. ASSUME NEW w \in Workers, Worker(w)
      PROVE  ShowInv'
  <2>1. Workers = {w}
    BY DEF OneWorker
  <2> QED
    BY <1>3, <2>1, WorkerShows
<1> QED
  BY <1>1, <1>2, <1>3 DEF Next

\* With one worker and no undo a tile that is served as fresh shows the live
\* document, at every moment and after any number of edits of either kind: the
\* content epoch a composite mirrors holds until it has rechecked its input,
\* and what it blended is at least as new as the generation it is published
\* under (tile_pipeline.rs:604-619, 888-920, tile_serve.rs:201-210).
THEOREM FreshCorrect ==
    ASSUME OneWorker, MaxUndos = 0
    PROVE  Spec => []FreshShowsLive
<1>1. Init => FreshInv /\ ShowInv
  BY FreshInit, ShowInit
<1>2. FreshInv /\ ShowInv /\ [Next]_vars => FreshInv' /\ ShowInv'
  BY FreshNext, ShowNext
<1>3. FreshInv /\ ShowInv => FreshShowsLive
  <2> SUFFICES ASSUME FreshInv, ShowInv, ServedFresh
               PROVE  composite.look = Doc.look
    BY DEF FreshShowsLive
  <2>1. Doc.content_gen = live /\ Doc.look = live /\ live \in Nat
    BY DocTyped DEF FreshInv, DocsOK, ShowInv, Numbered, Doc
  <2>2. composite # None /\ composite \in Entry /\ live <= composite.generation
    BY <2>1 DEF ServedFresh, Behind, FreshInv, CacheOK, Entry
  <2>3. composite.generation <= composite.look /\ composite.look <= live
    BY <2>2 DEF ShowInv, EntriesOK
  <2> QED
    BY <2>1, <2>2, <2>3 DEF Entry, Look
<1> QED
  BY <1>1, <1>2, <1>3, PTL DEF Spec

-----------------------------------------------------------------------------
(***************************************************************************)
(* Any number of workers, and no undo: who answers for a tile that is not  *)
(* fresh.                                                                  *)
(***************************************************************************)
\* A task of the composite that is not stale.
Due(t) == t # None /\ t.stage = "composite" /\ t.generation = Doc.document_gen

\* A worker that has such a task and has not taken its document yet, or holds
\* the live one: what it publishes will be fresh, or it asks once more.
CarryLabels == InlineLabels \union
    {"composite_epoch", "ensure", "inputs", "blend", "composite_check", "composite_retry",
     "recheck", "composite_insert"}
Carries(w) ==
    /\ Due(task[w])
    /\ pc[w] \in {"check", "composite"} \/ (pc[w] \in CarryLabels /\ base[w] = live)

\* A worker that runs the deferred refresh, and has not taken its document yet
\* or holds the live one.
Refreshes(w) ==
    \/ pc[w] \in {"run", "run_composite", "run_snapshot"}
    \/ pc[w] \in {"run_epoch", "run_enqueue"} /\ base[w] = live

Answered ==
    \/ Due(pending["composite"])
    \/ \E t \in delayed : Due(t)
    \/ \E w \in Workers : Carries(w) \/ Refreshes(w)
Owed == main # "idle" \/ stashed \/ ServedFresh \/ Answered

\* No composite task carries a layer generation, so only its document
\* generation makes it stale.
Plain(t) == t # None /\ t.stage = "composite" => t.layer_generation = 0
PlainOK ==
    /\ Plain(pending["composite"])
    /\ \A t \in delayed : Plain(t)
    /\ \A w \in Workers : Plain(task[w])

\* Nothing is ahead of the live document.
NotAhead ==
    /\ \A d \in 1..Len(docs) : docs[d].document_gen <= Doc.document_gen
    /\ composite # None => composite.generation <= live
    /\ pending["composite"] # None => pending["composite"].generation <= Doc.document_gen
    /\ \A w \in Workers :
        pc[w] \in StampLabels => stamp[w] = base[w] /\ base[w] <= live

OwedInv == Numbered /\ PlainOK /\ NotAhead /\ Owed

-----------------------------------------------------------------------------
\* The live document of a numbered history.
LEMMA LiveNumbered ==
    ASSUME FreshInv, Numbered
    PROVE  /\ Doc.content_gen = live /\ live \in Nat /\ live \in 1..Len(docs)
           /\ Doc.document_gen \in Nat
BY DocTyped DEF FreshInv, DocsOK, Numbered, Doc, DocType

\* A pool slot that holds nothing newer than the live document.
SlotOK(pool) ==
    /\ Plain(pool["composite"])
    /\ pool["composite"] # None => pool["composite"].generation <= Doc.document_gen

\* The duplicate test keeps a due task, and takes in one that is due.
LEMMA EnqueuedDue ==
    ASSUME FreshInv, SlotOK(pending), NEW t \in TaskType, Plain(t), t.generation <= Doc.document_gen
    PROVE  /\ SlotOK(Enqueued(t))
           /\ Due(pending["composite"]) \/ Due(t) => Due(Enqueued(t)["composite"])
<1>1. t # None /\ t.stage \in Stages /\ t.generation \in Nat
  BY NoneAssumption DEF TaskType
<1>2. /\ pending["composite"] \in TaskType \union {None}
      /\ pending["composite"] # None =>
            pending["composite"].stage = "composite" /\ pending["composite"].generation \in Nat
      /\ pending \in [Stages -> TaskType \union {None}]
      /\ Doc.document_gen \in Nat
  BY DocTyped DEF FreshInv, PoolOK, PoolTyped, Stages, TaskType, DocType
<1>3. CASE Enqueued(t) = pending
  <2>1. \/ pending[t.stage] # None /\ pending[t.stage].generation >= t.generation
        \/ pending = [pending EXCEPT ![t.stage] = t]
    BY <1>3 DEF Enqueued
  <2>2. ASSUME Due(t) PROVE Due(pending["composite"])
    <3>1. CASE pending[t.stage] # None /\ pending[t.stage].generation >= t.generation
      BY <1>2, <2>2, <3>1 DEF Due, SlotOK
    <3>2. CASE pending = [pending EXCEPT ![t.stage] = t]
      <4>1. pending[t.stage] = t
        BY <1>1, <1>2, <3>2
      <4> QED
        BY <2>2, <4>1 DEF Due
    <3> QED
      BY <2>1, <3>1, <3>2
  <2> QED
    BY <1>3, <2>2
<1>4. CASE Enqueued(t) = [pending EXCEPT ![t.stage] = t]
  <2>1. CASE t.stage = "composite"
    <3>1. Enqueued(t)["composite"] = t
      BY <1>1, <1>2, <1>4, <2>1
    <3>2. CASE Due(pending["composite"]) /\ pending["composite"].generation >= t.generation
      \* Then the task is a duplicate and the pool stays as it is.
      <4>1. Enqueued(t) = pending
        BY <2>1, <3>2 DEF Enqueued, Due
      <4> QED
        BY <1>3, <4>1
    <3>3. CASE Due(pending["composite"]) /\ ~(pending["composite"].generation >= t.generation)
      BY <1>1, <1>2, <3>3 DEF Due
    <3>4. CASE ~Due(pending["composite"])
      BY <3>1, <3>4 DEF SlotOK
    <3> QED
      BY <3>2, <3>3, <3>4
  <2>2. CASE t.stage # "composite"
    <3>1. Enqueued(t)["composite"] = pending["composite"]
      BY <1>1, <1>2, <1>4, <2>2 DEF Stages
    <3> QED
      BY <2>2, <3>1 DEF SlotOK, Due
  <2> QED
    BY <2>1, <2>2
<1> QED
  BY <1>3, <1>4 DEF Enqueued

LEMMA LiveTaskDue ==
    ASSUME FreshInv, SlotOK(pending), NEW stage \in Stages
    PROVE  /\ SlotOK(Enqueued(LiveTask(stage)))
           /\ Due(pending["composite"]) => Due(Enqueued(LiveTask(stage))["composite"])
           /\ stage = "composite" => Due(Enqueued(LiveTask(stage))["composite"])
<1>1. /\ LiveTask(stage) \in TaskType /\ LiveTask(stage).stage = stage
      /\ LiveTask(stage).generation = Doc.document_gen
      /\ Plain(LiveTask(stage)) /\ Doc.document_gen \in Nat
      /\ LiveTask(stage) # None
  BY DocTyped, LiveTaskTyped, NoneAssumption DEF FreshInv, LiveTask, LayerGen, Plain, DocType
<1>2. stage = "composite" => Due(LiveTask(stage))
  BY <1>1 DEF Due
<1>3. LiveTask(stage).generation <= Doc.document_gen
  BY <1>1
<1> QED
  BY <1>1, <1>2, <1>3, EnqueuedDue

LEMMA RescheduledDue ==
    ASSUME FreshInv, SlotOK(pending), NEW entry, NEW stage \in Stages
    PROVE  /\ SlotOK(Rescheduled(entry, stage))
           /\ Due(pending["composite"]) => Due(Rescheduled(entry, stage)["composite"])
BY LiveTaskDue DEF Rescheduled

-----------------------------------------------------------------------------
\* A worker's step touches no other worker.
LEMMA OthersKeep ==
    ASSUME FreshInv, NEW w \in Workers, Worker(w)
    PROVE  \A v \in Workers \ {w} :
                pc'[v] = pc[v] /\ stamp'[v] = stamp[v] /\ task'[v] = task[v] /\ base'[v] = base[v]
<1> USE DEF FreshInv
<1> DEFINE Frame == \A v \in Workers \ {w} : task'[v] = task[v] /\ base'[v] = base[v]
<1>1. ASSUME UNCHANGED task \/ \E t : task' = [task EXCEPT ![w] = t],
             UNCHANGED base \/ \E d : base' = [base EXCEPT ![w] = d]
      PROVE  Frame
  <2>1. \A v \in Workers \ {w} : task'[v] = task[v]
    BY <1>1 DEF LocalsOK
  <2>2. \A v \in Workers \ {w} : base'[v] = base[v]
    BY <1>1 DEF LocalsOK
  <2> QED
    BY <2>1, <2>2
<1> HIDE DEF Frame
<1>2. ASSUME NEW t, NEW label, Reset(w, t, label) PROVE Frame
  BY <1>1, <1>2 DEF Reset
<1>3. Forget(w) \/ Computed(w) => Frame
  BY <1>2 DEF Forget, Computed
<1>4. ASSUME NEW label, Local(w, label) PROVE Frame
  BY <1>1, <1>4 DEF Local
<1>5. ReturnProcessed(w) => Frame
  <2>1. CASE task[w].stage = "processed"
    BY <1>3, <2>1 DEF ReturnProcessed
  <2>2. CASE task[w].stage # "processed"
    BY <1>1, <2>2 DEF ReturnProcessed
  <2> QED
    BY <2>1, <2>2
<1>6. ASSUME ComputeProcessed(w) PROVE Frame
  <2>1. SnapshotProcessed(w) \/ CheckProcessed(w) => Frame
    BY <1>1 DEF SnapshotProcessed, CheckProcessed
  <2>2. MirrorEpoch(w, "processed_epoch", snap[w], "processed_check") => Frame
    BY <1>4 DEF MirrorEpoch
  <2>3. InsertProcessed(w) => Frame
    BY <1>1 DEF InsertProcessed
  <2>4. RejectProcessed(w) \/ InvalidateFedBy(w) => Frame
    BY <1>5 DEF RejectProcessed, InvalidateFedBy
  <2> QED
    BY <1>6, <2>1, <2>2, <2>3, <2>4 DEF ComputeProcessed
<1>7. ASSUME ComputeComposite(w) PROVE Frame
  <2>1. SnapshotComposite(w) \/ InputVersions(w) \/ Blend(w) \/ CheckComposite(w) => Frame
    BY <1>1 DEF SnapshotComposite, InputVersions, Blend, CheckComposite
  <2>2. MirrorEpoch(w, "composite_epoch", base[w], "ensure") \/ EnsureProcessed(w) => Frame
    BY <1>4 DEF MirrorEpoch, EnsureProcessed
  <2>3. RetryComposite(w) \/ RejectComposite(w) => Frame
    BY <1>3 DEF RetryComposite, RejectComposite
  <2>4. RecheckProcessed(w) => Frame
    BY <1>3, <1>4 DEF RecheckProcessed
  <2>5. InsertComposite(w) => Frame
    BY <1>3, <1>4 DEF InsertComposite
  <2> QED
    BY <1>7, <2>1, <2>2, <2>3, <2>4, <2>5 DEF ComputeComposite
<1>8. Dequeue(w) => Frame
  BY <1>1 DEF Dequeue
<1>9. DropStale(w) \/ AnnounceEpoch(w) => Frame
  BY <1>3 DEF DropStale, AnnounceEpoch
<1>10. StartCompute(w) => Frame
  BY <1>4 DEF StartCompute
<1>11. Announce(w) => Frame
  BY <1>1, <1>3 DEF Announce
<1>12. TaskFinished(w) \/ DrainPending(w) => Frame
  BY <1>4 DEF TaskFinished, DrainPending
<1>13. RunRefresh(w) => Frame
  <2>1. RunInvalidateProcessed(w) \/ RunInvalidateComposite(w) => Frame
    BY <1>4 DEF RunInvalidateProcessed, RunInvalidateComposite
  <2>2. MirrorEpoch(w, "run_epoch", base[w], "run_enqueue") => Frame
    BY <1>4 DEF MirrorEpoch
  <2>3. RunSnapshot(w) => Frame
    BY <1>1 DEF RunSnapshot
  <2>4. RunEnqueueVisible(w) => Frame
    BY <1>2 DEF RunEnqueueVisible
  <2> QED
    BY <2>1, <2>2, <2>3, <2>4 DEF RunRefresh
<1>14. Frame
  BY <1>6, <1>7, <1>8, <1>9, <1>10, <1>11, <1>12, <1>13 DEF Worker
<1> QED
  BY <1>14, WorkerFrame DEF Frame

\* What a step of worker w owes to the invariant.
StepOK(w) ==
    /\ composite' # None => composite'.generation <= live
    /\ SlotOK(pending')
    /\ \A t \in delayed : t \in delayed'
    /\ \A t \in delayed' : t \in delayed \/ t = task[w]
    /\ Plain(task'[w])
    /\ pc'[w] \in StampLabels => stamp'[w] = base'[w] /\ base'[w] <= live
    /\ ServedFresh => ServedFresh' \/ Due(pending'["composite"]) \/ Refreshes(w)'
    /\ Due(pending["composite"]) => Due(pending'["composite"]) \/ Carries(w)'
    /\ Carries(w) =>
        \/ ServedFresh' \/ Carries(w)'
        \/ Due(pending'["composite"]) \/ \E t \in delayed' : Due(t)

\* What worker w owes for the refresh it drains from the stash, or runs.
StashOK(w) ==
    /\ stashed => stashed' \/ Refreshes(w)'
    /\ Refreshes(w) => Refreshes(w)' \/ ServedFresh' \/ Due(pending'["composite"])

LEMMA StepKeepsOwed ==
    ASSUME FreshInv, OwedInv, NEW w \in Workers, Worker(w), StepOK(w), StashOK(w)
    PROVE  OwedInv'
<1>0. UNCHANGED docVars /\ UNCHANGED <<main, edits, undos>>
  BY WorkerDocs DEF FreshInv
<1>1. Doc' = Doc /\ live' = live /\ main' = main /\ docs' = docs
  BY <1>0 DEF Doc, docVars
<1>2. \A v \in Workers \ {w} :
          pc'[v] = pc[v] /\ stamp'[v] = stamp[v] /\ task'[v] = task[v] /\ base'[v] = base[v]
  BY OthersKeep
<1>3. Numbered'
  BY <1>0 DEF OwedInv, Numbered, docVars
<1>4. PlainOK'
  <2>1. Plain(task'[w]) /\ \A v \in Workers : Plain(task[v])
    BY DEF StepOK, OwedInv, PlainOK
  <2>2. \A v \in Workers : Plain(task'[v])
    BY <1>2, <2>1
  <2>3. \A t \in delayed' : Plain(t)
    BY <2>1 DEF StepOK, OwedInv, PlainOK
  <2>4. Plain(pending'["composite"])
    BY DEF StepOK, SlotOK
  <2> QED
    BY <2>2, <2>3, <2>4 DEF PlainOK, Plain
<1>5. NotAhead'
  <2>1. \A v \in Workers : pc'[v] \in StampLabels => stamp'[v] = base'[v] /\ base'[v] <= live
    BY <1>2 DEF StepOK, OwedInv, NotAhead
  <2> QED
    BY <1>1, <2>1 DEF StepOK, SlotOK, OwedInv, NotAhead
<1>6. Owed'
  <2>1. \A t : Due(t)' <=> Due(t)
    BY <1>1 DEF Due
  <2>2. \A v \in Workers \ {w} : (Carries(v) => Carries(v)') /\ (Refreshes(v) => Refreshes(v)')
    BY <1>1, <1>2 DEF Carries, Refreshes, Due
  <2>3. Due(pending'["composite"]) => Answered'
    BY <1>1 DEF Answered, Due
  <2>4. (\E t \in delayed' : Due(t)) => Answered'
    BY <1>1 DEF Answered, Due
  <2>5. (\E v \in Workers : Carries(v)' \/ Refreshes(v)') => Answered'
    BY DEF Answered
  <2>6. CASE main # "idle"
    BY <1>1, <2>6 DEF Owed
  <2>7. CASE ServedFresh
    BY <2>3, <2>5, <2>7 DEF Owed, StepOK
  <2>8. CASE Due(pending["composite"])
    BY <2>3, <2>5, <2>8 DEF Owed, StepOK
  <2>9. CASE \E t \in delayed : Due(t)
    BY <2>4, <2>9 DEF Owed, StepOK
  <2>10. CASE \E v \in Workers : Carries(v)
    <3> PICK v \in Workers : Carries(v)
      BY <2>10
    <3>1. CASE v = w
      BY <2>3, <2>4, <2>5, <3>1 DEF Owed, StepOK
    <3>2. CASE v # w
      BY <2>2, <2>5, <3>2 DEF Owed
    <3> QED
      BY <3>1, <3>2
  <2>11. CASE \E v \in Workers : Refreshes(v)
    <3> PICK v \in Workers : Refreshes(v)
      BY <2>11
    <3>1. CASE v = w
      BY <2>3, <2>5, <3>1 DEF Owed, StashOK
    <3>2. CASE v # w
      BY <2>2, <2>5, <3>2 DEF Owed
    <3> QED
      BY <3>1, <3>2
  <2>12. CASE stashed
    BY <2>5, <2>12 DEF Owed, StashOK
  <2> QED
    BY <2>6, <2>7, <2>8, <2>9, <2>10, <2>11, <2>12 DEF OwedInv, Owed, Answered
<1> QED
  BY <1>3, <1>4, <1>5, <1>6 DEF OwedInv

-----------------------------------------------------------------------------
(* The kinds of steps.                                                     *)

LEMMA SlotHeld == ASSUME OwedInv PROVE SlotOK(pending)
BY DEF OwedInv, PlainOK, NotAhead, SlotOK

\* The worker only moves on, with the task it has.
LEMMA MovesOn ==
    ASSUME FreshInv, OwedInv, NEW w \in Workers,
           UNCHANGED <<docVars, composite, poolVars, task>>,
           pc'[w] \in StampLabels => stamp'[w] = base'[w] /\ base'[w] <= live,
           Carries(w) => Carries(w)'
    PROVE  StepOK(w)
<1>1. Doc' = Doc
  BY DEF Doc, docVars
<1>2. ServedFresh' = ServedFresh
  BY <1>1 DEF ServedFresh, Behind
<1> QED
  BY <1>2, SlotHeld DEF StepOK, OwedInv, PlainOK, NotAhead, poolVars

\* The worker leaves without having been the one that answers.
LEMMA Leaves ==
    ASSUME FreshInv, OwedInv, NEW w \in Workers, ~Carries(w), Forget(w) \/ Computed(w),
           UNCHANGED <<docVars, composite, poolVars>>
    PROVE  StepOK(w)
<1>1. Doc' = Doc
  BY DEF Doc, docVars
<1>2. ServedFresh' = ServedFresh
  BY <1>1 DEF ServedFresh, Behind
<1>3. pc'[w] \in {"finished", "computed"} /\ (task'[w] = None \/ task'[w] = task[w])
  BY DEF Forget, Computed, Reset, Goto, FreshInv, LocalsOK
<1>4. Plain(task'[w])
  BY <1>3 DEF Plain, OwedInv, PlainOK
<1>5. pc'[w] \notin StampLabels
  BY <1>3 DEF StampLabels
<1> QED
  BY <1>2, <1>4, <1>5, SlotHeld DEF StepOK, OwedInv, PlainOK, NotAhead, poolVars

\* The step leaves a due task in the queue, whatever else it does.
LEMMA AsksAgain ==
    ASSUME FreshInv, OwedInv, NEW w \in Workers, UNCHANGED <<docVars, delayed>>,
           composite' = MarkDirty(composite), pending' = Enqueued(LiveTask("composite")),
           pc'[w] \notin StampLabels, Plain(task'[w])
    PROVE  StepOK(w)
<1>1. Due(pending'["composite"]) /\ SlotOK(pending')
  BY LiveTaskDue, SlotHeld DEF Stages
<1>2. composite' # None => composite'.generation <= live
  BY MarkDirtyTyped DEF FreshInv, CacheOK, OwedInv, NotAhead
<1> QED
  BY <1>1, <1>2 DEF StepOK

\* A refused insert, or an input found stale, disturbs nothing that is fresh.
LEMMA BehindOnly ==
    ASSUME FreshInv, OwedInv, UNCHANGED docVars, composite' = DirtyIfBehind(composite)
    PROVE  /\ composite' # None => composite'.generation <= live
           /\ ServedFresh => ServedFresh'
<1>1. composite' # None => composite'.generation <= live
  BY DirtyIfBehindTyped DEF FreshInv, CacheOK, OwedInv, NotAhead
<1>2. ASSUME ServedFresh PROVE ServedFresh'
  <2>1. Doc' = Doc /\ Doc.content_gen \in Nat
    BY LiveNumbered DEF Doc, docVars, OwedInv
  <2>2. composite # None /\ composite \in Entry /\ ~(composite.generation < Doc.content_gen)
    BY <1>2 DEF ServedFresh, Behind, FreshInv, CacheOK
  <2>3. composite' = composite
    BY <2>1, <2>2 DEF DirtyIfBehind, Entry
  <2> QED
    BY <1>2, <2>1, <2>3 DEF ServedFresh, Behind
<1> QED
  BY <1>1, <1>2

\* A worker at one of these labels stays the one that answers, if it is.
LEMMA StillCarries ==
    ASSUME NEW w \in Workers, UNCHANGED docVars, task'[w] = task[w],
           base'[w] = base[w] \/ base'[w] = live,
           pc[w] \in CarryLabels, pc'[w] \in CarryLabels
    PROVE  Carries(w) => Carries(w)'
BY DEF Carries, Due, Doc, docVars, CarryLabels, InlineLabels, SnapLabels

-----------------------------------------------------------------------------
(* The steps of a worker.                                                  *)

\* compute_processed_tile returns: to the composite it belongs to, or to the
\* loop with a task that is not one of the composite.
LEMMA ReturnCarries ==
    ASSUME FreshInv, OwedInv, NEW w \in Workers, UNCHANGED docVars,
           pc[w] \in InlineLabels, ReturnProcessed(w)
    PROVE  /\ pc'[w] \notin StampLabels /\ Plain(task'[w])
           /\ Carries(w) => Carries(w)'
<1>0. pc[w] \in CarryLabels
  BY DEF InlineLabels, SnapLabels, CarryLabels
<1>1. CASE task[w].stage = "processed"
  <2>1. ~Carries(w)
    BY <1>1 DEF Carries, Due
  <2>2. pc'[w] = "computed" /\ task'[w] = task[w]
    BY <1>1 DEF ReturnProcessed, Computed, Reset, Goto, FreshInv, LocalsOK
  <2> QED
    BY <2>1, <2>2 DEF StampLabels, OwedInv, PlainOK
<1>2. CASE task[w].stage # "processed"
  <2>1. pc'[w] = "inputs" /\ task'[w] = task[w] /\ base'[w] = base[w]
    BY <1>2 DEF ReturnProcessed, Goto, FreshInv, LocalsOK
  <2>2. Carries(w) => Carries(w)'
    BY <1>0, <2>1, StillCarries DEF CarryLabels
  <2> QED
    BY <2>1, <2>2 DEF StampLabels, OwedInv, PlainOK
<1> QED
  BY <1>1, <1>2

LEMMA OwedProcessed ==
    ASSUME FreshInv, OwedInv, NEW w \in Workers, ComputeProcessed(w), UNCHANGED docVars
    PROVE  StepOK(w)
<1>0. LocalsOK
  BY DEF FreshInv
<1>1. CASE SnapshotProcessed(w) \/ CheckProcessed(w)
  <2>1. /\ pc[w] \in {"processed", "processed_check"} /\ UNCHANGED <<composite, poolVars, task>>
        /\ pc'[w] \in {"processed_epoch", "processed_insert", "processed_reject"}
        /\ base'[w] = base[w]
    <3>1. CASE SnapshotProcessed(w)
      BY <1>0, <3>1 DEF SnapshotProcessed, Goto, LocalsOK, cacheVars
    <3>2. CASE CheckProcessed(w)
      BY <1>0, <3>2 DEF CheckProcessed, Goto, LocalsOK, cacheVars
    <3> QED
      BY <1>1, <3>1, <3>2
  <2>2. Carries(w) => Carries(w)'
    BY <2>1, StillCarries DEF CarryLabels, InlineLabels, SnapLabels
  <2> QED
    BY <2>1, <2>2, MovesOn DEF StampLabels
<1>2. CASE MirrorEpoch(w, "processed_epoch", snap[w], "processed_check")
  <2>1. /\ pc[w] = "processed_epoch" /\ UNCHANGED <<composite, poolVars, task>>
        /\ pc'[w] = "processed_check" /\ base'[w] = base[w]
    BY <1>0, <1>2 DEF MirrorEpoch, Local, Goto, LocalsOK
  <2>2. Carries(w) => Carries(w)'
    BY <2>1, StillCarries DEF CarryLabels, InlineLabels, SnapLabels
  <2> QED
    BY <2>1, <2>2, MovesOn DEF StampLabels
<1>3. CASE InsertProcessed(w)
  <2>1. /\ pc[w] = "processed_insert" /\ UNCHANGED <<composite, poolVars, task>>
        /\ pc'[w] \in {"processed_reject", "fed_by"} /\ base'[w] = base[w]
    BY <1>0, <1>3 DEF InsertProcessed, Goto, LocalsOK
  <2>2. Carries(w) => Carries(w)'
    BY <2>1, StillCarries DEF CarryLabels, InlineLabels, SnapLabels
  <2> QED
    BY <2>1, <2>2, MovesOn DEF StampLabels
<1>4. CASE RejectProcessed(w)
  <2>1. /\ pc[w] \in InlineLabels /\ ReturnProcessed(w) /\ UNCHANGED <<composite, delayed>>
        /\ pending' = Rescheduled(processed, "processed")
    BY <1>4 DEF RejectProcessed, InlineLabels
  <2>2. /\ pc'[w] \notin StampLabels /\ Plain(task'[w])
        /\ Carries(w) => Carries(w)'
    BY <2>1, ReturnCarries
  <2>3. /\ SlotOK(pending')
        /\ Due(pending["composite"]) => Due(pending'["composite"])
    BY <2>1, RescheduledDue, SlotHeld DEF Stages
  <2>4. ServedFresh' = ServedFresh
    BY <2>1 DEF ServedFresh, Behind, Doc, docVars
  <2> QED
    BY <2>1, <2>2, <2>3, <2>4 DEF StepOK, OwedInv, NotAhead
<1>5. CASE InvalidateFedBy(w)
  <2>1. pc[w] \in InlineLabels /\ ReturnProcessed(w)
    BY <1>5 DEF InvalidateFedBy, InlineLabels
  <2>2. pc'[w] \notin StampLabels /\ Plain(task'[w])
    BY <2>1, ReturnCarries
  <2> QED
    BY <1>5, <2>2, AsksAgain DEF InvalidateFedBy
<1> QED
  BY <1>1, <1>2, <1>3, <1>4, <1>5 DEF ComputeProcessed

LEMMA OwedComposite ==
    ASSUME FreshInv, OwedInv, NEW w \in Workers, ComputeComposite(w), UNCHANGED docVars
    PROVE  StepOK(w)
<1>0. LocalsOK
  BY DEF FreshInv
<1>n. /\ Doc' = Doc /\ Doc.content_gen = live /\ live \in Nat /\ Plain(task[w])
      /\ \A d \in 1..Len(docs) : docs[d].content_gen = d /\ d <= live
  BY LiveNumbered DEF Doc, docVars, OwedInv, PlainOK, Numbered
<1>1. CASE SnapshotComposite(w)
  <2>1. /\ pc[w] = "composite" /\ UNCHANGED <<composite, poolVars, task>>
        /\ pc'[w] = "composite_epoch" /\ base'[w] = live
    BY <1>0, <1>1 DEF SnapshotComposite, Goto, LocalsOK, cacheVars
  <2>2. Carries(w) => Carries(w)'
    BY <2>1 DEF Carries, Due, Doc, docVars, CarryLabels
  <2> QED
    BY <2>1, <2>2, MovesOn DEF StampLabels
<1>2. CASE MirrorEpoch(w, "composite_epoch", base[w], "ensure")
  <2>1. /\ pc[w] = "composite_epoch" /\ UNCHANGED <<composite, poolVars, task>>
        /\ pc'[w] = "ensure" /\ base'[w] = base[w]
    BY <1>0, <1>2 DEF MirrorEpoch, Local, Goto, LocalsOK
  <2>2. Carries(w) => Carries(w)'
    BY <2>1, StillCarries DEF CarryLabels
  <2> QED
    BY <2>1, <2>2, MovesOn DEF StampLabels
<1>3. CASE EnsureProcessed(w)
  <2>1. /\ pc[w] = "ensure" /\ UNCHANGED <<composite, poolVars, task>>
        /\ pc'[w] \in {"processed", "inputs"} /\ base'[w] = base[w]
    BY <1>0, <1>3 DEF EnsureProcessed, Local, Goto, LocalsOK, cacheVars
  <2>2. Carries(w) => Carries(w)'
    BY <2>1, StillCarries DEF CarryLabels, InlineLabels
  <2> QED
    BY <2>1, <2>2, MovesOn DEF StampLabels
<1>4. CASE InputVersions(w) \/ Blend(w)
  <2>1. /\ pc[w] \in {"inputs", "blend"} /\ UNCHANGED <<composite, poolVars, task>>
        /\ pc'[w] \in {"blend", "composite_check"} /\ base'[w] = base[w]
    <3>1. CASE InputVersions(w)
      BY <1>0, <3>1 DEF InputVersions, Goto, LocalsOK, cacheVars
    <3>2. CASE Blend(w)
      BY <1>0, <3>2 DEF Blend, Goto, LocalsOK, cacheVars
    <3> QED
      BY <1>4, <3>1, <3>2
  <2>2. Carries(w) => Carries(w)'
    BY <2>1, StillCarries DEF CarryLabels
  <2> QED
    BY <2>1, <2>2, MovesOn DEF StampLabels
<1>5. CASE CheckComposite(w)
  <2>1. /\ pc[w] = "composite_check" /\ UNCHANGED <<composite, poolVars, task>>
        /\ base'[w] = base[w] /\ stamp'[w] = docs[base[w]].content_gen
        /\ pc'[w] = IF ~SameGenerations(base[w]) THEN "composite_reject"
                    ELSE IF churned[w] THEN "composite_retry" ELSE "recheck"
    BY <1>0, <1>5 DEF CheckComposite, Goto, LocalsOK, cacheVars
  <2>2. stamp'[w] = base'[w] /\ base'[w] <= live
    BY <1>n, <2>1 DEF FreshInv, HeldOK, BaseLabels
  <2>3. ASSUME Carries(w) PROVE Carries(w)'
    \* It holds the live document, so the generations are the same.
    <3>1. base[w] = live
      BY <2>1, <2>3 DEF Carries
    <3>2. SameGenerations(base[w])
      BY <3>1 DEF SameGenerations, Doc
    <3>3. pc'[w] \in CarryLabels
      BY <2>1, <3>2 DEF CarryLabels
    <3> QED
      BY <2>1, <2>3, <3>3, StillCarries DEF CarryLabels
  <2> QED
    BY <2>1, <2>2, <2>3, MovesOn
<1>6. CASE RetryComposite(w)
  <2>1. pc'[w] = "computed" /\ task'[w] = task[w]
    BY <1>0, <1>6 DEF RetryComposite, Computed, Reset, Goto, LocalsOK
  <2> QED
    BY <1>6, <1>n, <2>1, AsksAgain DEF RetryComposite, StampLabels
<1>7. CASE RecheckProcessed(w)
  <2>1. CASE Behind(processed, content_epoch)
    <3>1. /\ pc[w] = "recheck" /\ composite' = DirtyIfBehind(composite)
          /\ pending' = Rescheduled(composite, "composite") /\ delayed' = delayed \union {task[w]}
          /\ Forget(w)
      BY <1>7, <2>1 DEF RecheckProcessed
    <3>2. pc'[w] = "finished" /\ task'[w] = None
      BY <1>0, <3>1 DEF Forget, Reset, Goto, LocalsOK
    <3>3. /\ SlotOK(pending')
          /\ Due(pending["composite"]) => Due(pending'["composite"])
      BY <3>1, RescheduledDue, SlotHeld DEF Stages
    \* The task itself waits for the requeue.
    <3>4. Carries(w) => \E t \in delayed' : Due(t)
      BY <3>1 DEF Carries
    <3>5. Plain(task'[w]) /\ pc'[w] \notin StampLabels
      BY <3>2 DEF Plain, StampLabels
    <3> QED
      BY <3>1, <3>3, <3>4, <3>5, BehindOnly DEF StepOK
  <2>2. CASE ~Behind(processed, content_epoch)
    <3>1. /\ pc[w] = "recheck" /\ UNCHANGED <<composite, pending, delayed, task>>
          /\ pc'[w] = "composite_insert" /\ base'[w] = base[w] /\ stamp'[w] = stamp[w]
      BY <1>0, <1>7, <2>2 DEF RecheckProcessed, Local, Goto, LocalsOK
    <3>2. Carries(w) => Carries(w)'
      BY <3>1, StillCarries DEF CarryLabels
    <3>3. stamp'[w] = base'[w] /\ base'[w] <= live
      BY <3>1 DEF StampLabels, OwedInv, NotAhead
    <3> QED
      BY <3>1, <3>2, <3>3, MovesOn DEF poolVars
  <2> QED
    BY <2>1, <2>2
<1>8. CASE InsertComposite(w)
  <2>0. pc[w] = "composite_insert" /\ UNCHANGED poolVars /\ stamp[w] = base[w] /\ base[w] <= live
    BY <1>8 DEF InsertComposite, StampLabels, OwedInv, NotAhead
  <2>1. CASE Refused(composite, w)
    <3>1. UNCHANGED <<composite, task>> /\ pc'[w] = "composite_reject"
      BY <1>0, <1>8, <2>1 DEF InsertComposite, Local, Goto, LocalsOK
    \* Nothing is ahead of the live document, so it was not the live one.
    <3>2. ~Carries(w)
      <4>1. composite # None /\ composite \in Entry /\ composite.generation > stamp[w]
        BY <2>1 DEF Refused, FreshInv, CacheOK
      <4>2. composite.generation <= live /\ composite.generation \in Nat
        BY <4>1 DEF OwedInv, NotAhead, Entry
      <4>3. base[w] # live
        BY <1>n, <2>0, <4>1, <4>2
      <4> QED
        BY <2>0, <4>3 DEF Carries
    <3> QED
      BY <2>0, <3>1, <3>2, MovesOn DEF StampLabels
  <2>2. CASE ~Refused(composite, w)
    <3>1. /\ composite' = [look |-> look[w], generation |-> stamp[w], dirty |-> FALSE]
          /\ pc'[w] = "computed" /\ task'[w] = task[w]
      BY <1>0, <1>8, <2>2 DEF InsertComposite, Computed, Reset, Goto, LocalsOK
    <3>2. composite' # None /\ composite'.generation = stamp[w] /\ ~composite'.dirty
      <4>1. composite' \in Entry
        BY <1>0, <3>1 DEF LocalsOK, Entry
      <4> QED
        BY <3>1, <4>1, NoneAssumption
    <3>3. ASSUME Carries(w) \/ ServedFresh PROVE ServedFresh'
      <4>1. stamp[w] \in Nat /\ stamp[w] >= live
        <5>1. CASE Carries(w)
          BY <1>n, <2>0, <5>1 DEF Carries
        <5>2. CASE ServedFresh
          BY <1>0, <1>n, <2>0, <2>2, <5>2 DEF ServedFresh, Behind, Refused, LocalsOK, FreshInv, CacheOK, Entry
        <5> QED
          BY <3>3, <5>1, <5>2
      <4> QED
        BY <1>n, <3>2, <4>1 DEF ServedFresh, Behind
    <3>4. Plain(task'[w]) /\ pc'[w] \notin StampLabels
      BY <1>n, <3>1 DEF StampLabels
    <3> QED
      BY <2>0, <3>2, <3>3, <3>4, SlotHeld DEF StepOK, poolVars
  <2> QED
    BY <2>1, <2>2
<1>9. CASE RejectComposite(w)
  <2>1. /\ pc[w] = "composite_reject" /\ composite' = DirtyIfBehind(composite)
        /\ pending' = Rescheduled(composite, "composite") /\ delayed' = delayed
        /\ pc'[w] = "computed" /\ task'[w] = task[w]
    BY <1>0, <1>9 DEF RejectComposite, Computed, Reset, Goto, LocalsOK
  <2>2. /\ SlotOK(pending')
        /\ Due(pending["composite"]) => Due(pending'["composite"])
    BY <2>1, RescheduledDue, SlotHeld DEF Stages
  <2>3. ~Carries(w)
    BY <2>1 DEF Carries, CarryLabels, InlineLabels, SnapLabels
  <2>4. Plain(task'[w]) /\ pc'[w] \notin StampLabels
    BY <1>n, <2>1 DEF StampLabels
  <2> QED
    BY <2>1, <2>2, <2>3, <2>4, BehindOnly DEF StepOK
<1> QED
  BY <1>1, <1>2, <1>3, <1>4, <1>5, <1>6, <1>7, <1>8, <1>9 DEF ComputeComposite

\* A task of the live document, however it is made.
LEMMA CompositeIsLive == CompositeTask(live) = LiveTask("composite")
BY DEF CompositeTask, LiveTask, LayerGen, Doc

\* The deferred refresh, run by a worker that is between two tasks.
LEMMA OwedRefresh ==
    ASSUME FreshInv, OwedInv, NEW w \in Workers, RunRefresh(w), UNCHANGED docVars
    PROVE  StepOK(w)
<1>0. LocalsOK
  BY DEF FreshInv
<1>n. Doc' = Doc /\ live' = live /\ Plain(task[w])
  BY DEF Doc, docVars, OwedInv, PlainOK
<1>1. CASE RunInvalidateProcessed(w) \/ RunSnapshot(w) \/ MirrorEpoch(w, "run_epoch", base[w], "run_enqueue")
  <2>1. /\ pc[w] \in {"run", "run_snapshot", "run_epoch"}
        /\ pc'[w] \in {"run_composite", "run_epoch", "run_enqueue"}
        /\ UNCHANGED <<composite, poolVars, task>>
    BY <1>0, <1>1 DEF RunInvalidateProcessed, RunSnapshot, MirrorEpoch, Local, Goto, LocalsOK, cacheVars
  <2>2. ~Carries(w)
    BY <2>1 DEF Carries, CarryLabels, InlineLabels, SnapLabels
  <2> QED
    BY <2>1, <2>2, MovesOn DEF StampLabels
<1>2. CASE RunInvalidateComposite(w)
  <2>1. /\ pc[w] = "run_composite" /\ pc'[w] = "run_snapshot" /\ task' = task
        /\ composite' = MarkDirty(composite) /\ UNCHANGED poolVars
    BY <1>0, <1>2 DEF RunInvalidateComposite, Local, Goto, LocalsOK
  <2>2. composite' # None => composite'.generation <= live
    BY <2>1, MarkDirtyTyped DEF FreshInv, CacheOK, OwedInv, NotAhead
  <2>3. ~Carries(w) /\ Refreshes(w)'
    BY <2>1 DEF Carries, CarryLabels, InlineLabels, SnapLabels, Refreshes
  <2> QED
    BY <1>n, <2>1, <2>2, <2>3, SlotHeld DEF StepOK, StampLabels, poolVars
<1>3. CASE RunEnqueueVisible(w)
  <2>1. /\ pc[w] = "run_enqueue" /\ pc'[w] = "idle" /\ task'[w] = None /\ UNCHANGED <<composite, delayed>>
        /\ pending' = pending \/ pending' = Enqueued(CompositeTask(base[w]))
    BY <1>0, <1>3 DEF RunEnqueueVisible, EnqueueIfBehind, Reset, Goto, LocalsOK, cacheVars
  <2>2. base[w] \in 1..Len(docs)
    BY <2>1 DEF FreshInv, HeldOK, BaseLabels
  <2>3. /\ CompositeTask(base[w]) \in TaskType /\ Plain(CompositeTask(base[w]))
        /\ CompositeTask(base[w]).generation <= Doc.document_gen
    BY <2>2, CompositeTaskTyped DEF FreshInv, CompositeTask, Plain, OwedInv, NotAhead
  <2>4. SlotOK(pending') /\ (Due(pending["composite"]) => Due(pending'["composite"]))
    BY <2>1, <2>3, EnqueuedDue, SlotHeld
  <2>5. ServedFresh' = ServedFresh
    BY <1>n, <2>1 DEF ServedFresh, Behind
  <2>6. ~Carries(w)
    BY <2>1 DEF Carries, CarryLabels, InlineLabels, SnapLabels
  <2>7. Plain(task'[w]) /\ pc'[w] \notin StampLabels
    BY <2>1 DEF Plain, StampLabels
  <2> QED
    BY <2>1, <2>4, <2>5, <2>6, <2>7 DEF StepOK, OwedInv, NotAhead
<1> QED
  BY <1>1, <1>2, <1>3 DEF RunRefresh

LEMMA OwedWorker ==
    ASSUME FreshInv, OwedInv, NEW w \in Workers, Worker(w)
    PROVE  StepOK(w)
<1>0. LocalsOK /\ UNCHANGED docVars
  BY WorkerDocs DEF FreshInv
<1>n. Doc' = Doc /\ live' = live /\ Plain(task[w])
  BY <1>0 DEF Doc, docVars, OwedInv, PlainOK
<1>1. CASE Dequeue(w)
  \* What it takes off the queue it has in hand.
  <2>1. PICK stage \in Stages :
            /\ pending[stage] # None
            /\ task' = [task EXCEPT ![w] = pending[stage]]
            /\ pending' = [pending EXCEPT ![stage] = None]
    BY <1>1 DEF Dequeue
  <2>2. /\ pc[w] = "idle" /\ pc'[w] = "check" /\ task'[w] = pending[stage]
        /\ UNCHANGED <<composite, delayed>>
    BY <1>0, <1>1, <2>1 DEF Dequeue, Goto, LocalsOK, cacheVars
  <2>3. pending \in [Stages -> TaskType \union {None}] /\ pending[stage].stage = stage
    BY <2>1 DEF FreshInv, PoolOK, PoolTyped
  <2>4. ServedFresh' = ServedFresh
    BY <1>n, <2>2 DEF ServedFresh, Behind
  <2>5. ~Carries(w) /\ pc'[w] \notin StampLabels
    BY <1>0, <2>2 DEF Carries, CarryLabels, InlineLabels, SnapLabels, StampLabels
  <2>6. CASE stage = "composite"
    <3>1. pending'["composite"] = None /\ task'[w] = pending["composite"]
      BY <2>1, <2>2, <2>3, <2>6
    <3>2. Due(pending["composite"]) => Carries(w)'
      BY <1>n, <2>2, <3>1 DEF Carries, Due
    <3>3. SlotOK(pending') /\ Plain(task'[w])
      BY <3>1, SlotHeld DEF SlotOK, Plain
    <3> QED
      BY <2>2, <2>4, <2>5, <3>2, <3>3 DEF StepOK, OwedInv, NotAhead
  <2>7. CASE stage # "composite"
    <3>1. pending'["composite"] = pending["composite"] /\ task'[w].stage # "composite"
      BY <2>1, <2>2, <2>3, <2>7 DEF Stages
    <3>2. SlotOK(pending') /\ Plain(task'[w])
      BY <3>1, SlotHeld DEF SlotOK, Plain
    <3> QED
      BY <2>2, <2>4, <2>5, <3>1, <3>2 DEF StepOK, OwedInv, NotAhead
  <2> QED
    BY <2>6, <2>7
<1>2. CASE DropStale(w)
  <2>1. ~Carries(w)
    \* A due task is not stale.
    <3>1. ASSUME Due(task[w]) PROVE ~task_is_stale(task[w])
      BY <1>n, <3>1 DEF Due, Plain, task_is_stale, LayerGen
    <3> QED
      BY <1>2, <3>1 DEF DropStale, Carries
  <2> QED
    BY <1>0, <1>2, <2>1, Leaves DEF DropStale, cacheVars
<1>3. CASE StartCompute(w)
  <2>1. /\ pc[w] = "check" /\ UNCHANGED <<composite, poolVars, task>>
        /\ pc'[w] = IF task[w].stage = "composite" THEN "composite" ELSE "processed"
    BY <1>0, <1>3 DEF StartCompute, Local, Goto, LocalsOK, cacheVars
  <2>2. Carries(w) => Carries(w)'
    BY <1>n, <2>1 DEF Carries, Due
  <2> QED
    BY <1>0, <2>1, <2>2, MovesOn DEF StampLabels
<1>4. CASE ComputeProcessed(w)
  BY <1>0, <1>4, OwedProcessed
<1>5. CASE ComputeComposite(w)
  BY <1>0, <1>5, OwedComposite
<1>6. CASE Announce(w)
  <2>1. ~Carries(w)
    BY <1>6 DEF Announce, Carries, CarryLabels, InlineLabels, SnapLabels
  <2>2. CASE task[w].stage = "composite"
    <3>1. pc'[w] = "announce" /\ UNCHANGED <<composite, poolVars, task>>
      BY <1>0, <1>6, <2>2 DEF Announce, Goto, LocalsOK, cacheVars
    <3> QED
      BY <1>0, <2>1, <3>1, MovesOn DEF StampLabels
  <2>3. CASE task[w].stage # "composite"
    BY <1>0, <1>6, <2>1, <2>3, Leaves DEF Announce, cacheVars
  <2> QED
    BY <2>2, <2>3
<1>7. CASE AnnounceEpoch(w)
  <2>1. ~Carries(w)
    BY <1>7 DEF AnnounceEpoch, Carries, CarryLabels, InlineLabels, SnapLabels
  <2> QED
    BY <1>0, <1>7, <2>1, Leaves DEF AnnounceEpoch
<1>8. CASE TaskFinished(w) \/ DrainPending(w)
  <2>1. /\ pc[w] \in {"finished", "drain"} /\ pc'[w] \in {"idle", "drain", "run"}
        /\ UNCHANGED <<composite, poolVars, task>>
    BY <1>0, <1>8 DEF TaskFinished, DrainPending, Local, Goto, LocalsOK, cacheVars
  <2>2. ~Carries(w)
    BY <2>1 DEF Carries, CarryLabels, InlineLabels, SnapLabels
  <2> QED
    BY <1>0, <2>1, <2>2, MovesOn DEF StampLabels
<1>9. CASE RunRefresh(w)
  BY <1>0, <1>9, OwedRefresh
<1> QED
  BY <1>1, <1>2, <1>3, <1>4, <1>5, <1>6, <1>7, <1>8, <1>9 DEF Worker

\* Only the refresh itself ends the duty of the one that runs it.
LEMMA StashWorker ==
    ASSUME FreshInv, OwedInv, NEW w \in Workers, Worker(w)
    PROVE  StashOK(w)
<1>0. LocalsOK /\ UNCHANGED docVars
  BY WorkerDocs DEF FreshInv
<1>n. Doc' = Doc /\ live' = live
  BY <1>0 DEF Doc, docVars
<1>1. CASE DrainPending(w)
  <2>1. pc[w] = "drain" /\ pc'[w] = IF stashed THEN "run" ELSE "idle"
    BY <1>0, <1>1 DEF DrainPending, Local, Goto, LocalsOK
  <2> QED
    BY <2>1 DEF StashOK, Refreshes
<1>2. CASE RunRefresh(w)
  <2>0. UNCHANGED stashed
    BY <1>2, WorkerDocs DEF FreshInv, RunRefresh, RunInvalidateProcessed, RunInvalidateComposite,
          RunSnapshot, MirrorEpoch, RunEnqueueVisible, mainVars
  <2>1. CASE RunInvalidateProcessed(w) \/ RunInvalidateComposite(w)
    <3>1. pc'[w] \in {"run_composite", "run_snapshot"}
      BY <1>0, <2>1 DEF RunInvalidateProcessed, RunInvalidateComposite, Local, Goto, LocalsOK
    <3> QED
      BY <2>0, <3>1 DEF StashOK, Refreshes
  <2>2. CASE RunSnapshot(w)
    <3>1. pc'[w] = "run_epoch" /\ base'[w] = live
      BY <1>0, <2>2 DEF RunSnapshot, Goto, LocalsOK
    <3> QED
      BY <1>n, <2>0, <3>1 DEF StashOK, Refreshes
  <2>3. CASE MirrorEpoch(w, "run_epoch", base[w], "run_enqueue")
    <3>1. pc[w] = "run_epoch" /\ pc'[w] = "run_enqueue" /\ base'[w] = base[w]
      BY <1>0, <2>3 DEF MirrorEpoch, Local, Goto, LocalsOK
    <3> QED
      BY <1>n, <2>0, <3>1 DEF StashOK, Refreshes
  <2>4. CASE RunEnqueueVisible(w)
    <3>1. /\ pc[w] = "run_enqueue" /\ UNCHANGED composite
          /\ pending' = IF Behind(composite, docs[base[w]].content_gen)
                        THEN Enqueued(CompositeTask(base[w])) ELSE pending
      BY <2>4 DEF RunEnqueueVisible, EnqueueIfBehind, cacheVars
    <3>2. ASSUME base[w] = live PROVE ServedFresh' \/ Due(pending'["composite"])
      BY <1>n, <3>1, <3>2, CompositeIsLive, LiveTaskDue, SlotHeld DEF ServedFresh, Behind, Doc, Stages
    <3> QED
      BY <2>0, <3>1, <3>2 DEF StashOK, Refreshes
  <2> QED
    BY <1>2, <2>1, <2>2, <2>3, <2>4 DEF RunRefresh
<1>3. CASE ~DrainPending(w) /\ ~RunRefresh(w)
  <2>1. UNCHANGED stashed
    BY <1>3, WorkerDocs DEF FreshInv
  <2>2. pc[w] \notin {"run", "run_composite", "run_snapshot", "run_epoch", "run_enqueue"}
    <3>1. ComputeProcessed(w) => pc[w] \in InlineLabels
      BY DEF ComputeProcessed, SnapshotProcessed, MirrorEpoch, CheckProcessed, InsertProcessed,
             RejectProcessed, InvalidateFedBy, InlineLabels, SnapLabels
    <3>2. ComputeComposite(w) => pc[w] \in CarryLabels \union {"composite", "composite_reject"}
      BY DEF ComputeComposite, SnapshotComposite, MirrorEpoch, EnsureProcessed, InputVersions, Blend,
             CheckComposite, RetryComposite, RecheckProcessed, InsertComposite, RejectComposite,
             CarryLabels
    <3>3. Dequeue(w) \/ DropStale(w) \/ StartCompute(w) \/ Announce(w) \/ AnnounceEpoch(w) \/ TaskFinished(w)
            => pc[w] \in {"idle", "check", "computed", "announce", "finished"}
      BY DEF Dequeue, DropStale, StartCompute, Announce, AnnounceEpoch, TaskFinished
    <3> QED
      BY <1>3, <3>1, <3>2, <3>3 DEF Worker, InlineLabels, SnapLabels, CarryLabels
  <2> QED
    BY <2>1, <2>2 DEF StashOK, Refreshes
<1> QED
  BY <1>1, <1>2, <1>3

-----------------------------------------------------------------------------
(* The main thread, the frontend and the requeue thread.                   *)

\* Away from the pool only the entry and the documents may move.
LEMMA OwedMain ==
    ASSUME FreshInv, OwedInv, MaxUndos = 0, Main
    PROVE  OwedInv'
<1>1. Numbered' /\ live <= live' /\ live' \in Nat /\ live \in Nat
  BY NumberedMain, LiveNumbered DEF OwedInv
<1>2. UNCHANGED delayed /\ UNCHANGED workerVars
  BY DEF Main, Edit, IncrementLayerGen, UndoOrRedo, BumpLiveDocumentGen, InvalidateProcessed,
         InvalidateComposite, SetEpoch, EnqueueVisible, RequestRefresh, StashRefresh, poolVars
<1>3. \A w \in Workers : pc'[w] \in StampLabels => stamp'[w] = base'[w] /\ base'[w] <= live'
  <2>1. ASSUME NEW w \in Workers, pc'[w] \in StampLabels
        PROVE  stamp'[w] = base'[w] /\ base'[w] <= live'
    <3>1. base[w] \in Nat /\ stamp[w] = base[w] /\ base[w] <= live
      BY <1>2, <2>1 DEF OwedInv, NotAhead, FreshInv, LocalsOK, workerVars
    <3> QED
      BY <1>1, <1>2, <3>1 DEF workerVars
  <2> QED
    BY <2>1
<1>4. ~UndoOrRedo /\ ~BumpLiveDocumentGen
  BY DEF UndoOrRedo, BumpLiveDocumentGen, OwedInv, Numbered
<1>5. composite' # None => composite'.generation <= live'
  <2>1. composite' = composite \/ composite' = MarkDirty(composite)
    BY <1>4 DEF Main, Edit, IncrementLayerGen, InvalidateProcessed, InvalidateComposite, SetEpoch,
                EnqueueVisible, RequestRefresh, StashRefresh, cacheVars
  <2>2. composite' # None => composite # None /\ composite'.generation = composite.generation
    BY <2>1, MarkDirtyTyped DEF FreshInv, CacheOK
  <2>3. composite # None => composite.generation <= live /\ composite.generation \in Nat
    BY DEF OwedInv, NotAhead, FreshInv, CacheOK, Entry
  <2> QED
    BY <1>1, <2>2, <2>3
<1>6. CASE EnqueueVisible
  <2>1. /\ Doc' = Doc /\ docs' = docs /\ composite' = composite
        /\ pending' = IF Behind(composite, Doc.content_gen)
                      THEN Enqueued(LiveTask("composite")) ELSE pending
    BY <1>6, CompositeIsLive DEF EnqueueVisible, EnqueueIfBehind, Doc, docVars, cacheVars
  <2>2. SlotOK(pending') /\ (ServedFresh' \/ Due(pending'["composite"]))
    BY <2>1, LiveTaskDue, SlotHeld DEF Stages, ServedFresh, Behind
  <2>3. Owed'
    BY <2>1, <2>2 DEF Owed, Answered, Due
  <2>4. PlainOK'
    BY <1>2, <2>2 DEF OwedInv, PlainOK, SlotOK, Plain, workerVars
  <2>5. NotAhead'
    BY <1>3, <1>5, <2>1, <2>2 DEF OwedInv, NotAhead, SlotOK
  <2> QED
    BY <1>1, <2>3, <2>4, <2>5 DEF OwedInv
<1>7. CASE ~EnqueueVisible
  <2>1. pending' = pending /\ (main' # "idle" \/ stashed')
    <3>1. Edit => main' # "idle"
      BY EditDocs DEF FreshInv
    <3> QED
      BY <1>4, <1>7, <3>1 DEF Main, Edit, IncrementLayerGen, InvalidateProcessed, InvalidateComposite,
                  SetEpoch, RequestRefresh, StashRefresh, poolVars
  <2>2. /\ Doc.document_gen <= Doc'.document_gen /\ Doc'.document_gen \in Nat /\ Doc.document_gen \in Nat
        /\ \A d \in 1..Len(docs') : docs'[d].document_gen <= Doc'.document_gen
    <3>0. /\ Doc.document_gen \in Nat /\ Len(docs) \in Nat
          /\ \A d \in 1..Len(docs) :
                docs[d].document_gen \in Nat /\ docs[d].document_gen <= Doc.document_gen
      BY LiveNumbered, DocTyped DEF OwedInv, NotAhead, FreshInv, DocType
    <3>1. CASE Edit
      <4>1. PICK kind :
                docs' = Append(docs, [look |-> edits + 2,
                                      document_gen |-> Doc.document_gen + (IF kind = "palette" THEN 0 ELSE 1),
                                      content_gen |-> Doc.content_gen + 1,
                                      layer_gen |-> Doc.layer_gen])
        BY <3>1 DEF Edit
      <4> DEFINE new == [look |-> edits + 2,
                         document_gen |-> Doc.document_gen + (IF kind = "palette" THEN 0 ELSE 1),
                         content_gen |-> Doc.content_gen + 1,
                         layer_gen |-> Doc.layer_gen]
      <4>2. new.document_gen \in Nat /\ new.document_gen >= Doc.document_gen
        BY <3>0
      <4>3. docs' = Append(docs, new) /\ live' = Len(docs) + 1
        BY <3>1, <4>1 DEF Edit
      <4> HIDE DEF new
      <4>4. /\ Len(docs') = Len(docs) + 1 /\ docs'[Len(docs) + 1] = new
            /\ \A d \in 1..Len(docs) : docs'[d] = docs[d]
        BY <4>3 DEF FreshInv, DocsOK
      <4>5. Doc' = new
        BY <4>3, <4>4 DEF Doc
      <4>6. ASSUME NEW d \in 1..Len(docs') PROVE docs'[d].document_gen <= new.document_gen
        <5>1. CASE d \in 1..Len(docs)
          BY <3>0, <4>2, <4>4, <5>1
        <5>2. CASE d = Len(docs) + 1
          BY <4>2, <4>4, <5>2
        <5> QED
          BY <3>0, <4>4, <5>1, <5>2
      <4> QED
        BY <3>0, <4>2, <4>5, <4>6
    <3>2. CASE IncrementLayerGen
      <4> DEFINE new == [Doc EXCEPT !.layer_gen = @ + 1]
      <4>1. docs' = [docs EXCEPT ![live] = new] /\ live' = live
        BY <3>2 DEF IncrementLayerGen, Doc
      <4>2. new.document_gen = Doc.document_gen
        BY DocTyped DEF FreshInv, DocType
      <4> HIDE DEF new
      <4>3. Doc' = new /\ Len(docs') = Len(docs)
            /\ \A d \in 1..Len(docs) : docs'[d] = IF d = live THEN new ELSE docs[d]
        BY <4>1 DEF Doc, FreshInv, DocsOK
      <4> QED
        BY <3>0, <4>2, <4>3
    <3>3. CASE InvalidateProcessed \/ InvalidateComposite \/ SetEpoch \/ RequestRefresh \/ StashRefresh
      <4>1. Doc' = Doc /\ docs' = docs
        BY <3>3 DEF InvalidateProcessed, InvalidateComposite, SetEpoch, RequestRefresh, StashRefresh, Doc,
                    docVars
      <4> QED
        BY <3>0, <4>1
    <3> QED
      BY <1>4, <1>7, <3>1, <3>2, <3>3 DEF Main
  <2>3. pending["composite"] # None =>
            pending["composite"].generation <= Doc.document_gen /\ pending["composite"].generation \in Nat
    BY DEF OwedInv, NotAhead, FreshInv, PoolOK, PoolTyped, Stages, TaskType
  <2>4. NotAhead'
    <3>1. pending'["composite"] # None => pending'["composite"].generation <= Doc'.document_gen
      BY <2>1, <2>2, <2>3
    <3> QED
      BY <1>3, <1>5, <2>2, <3>1 DEF NotAhead
  <2>5. PlainOK'
    BY <1>2, <2>1 DEF OwedInv, PlainOK, Plain, workerVars
  <2> QED
    BY <1>1, <2>1, <2>4, <2>5 DEF OwedInv, Owed
<1> QED
  BY <1>6, <1>7

LEMMA OwedPool ==
    ASSUME FreshInv, OwedInv, Pull \/ \E t \in delayed : Requeue(t)
    PROVE  OwedInv'
<1>1. UNCHANGED docVars /\ UNCHANGED cacheVars /\ UNCHANGED mainVars /\ UNCHANGED workerVars
  BY DEF Pull, Requeue
<1>2. Doc' = Doc /\ live' = live /\ ServedFresh' = ServedFresh /\ main' = main /\ stashed' = stashed
  BY <1>1 DEF Doc, docVars, cacheVars, mainVars, ServedFresh, Behind
<1>3. /\ \A t : Due(t)' <=> Due(t)
      /\ \A w : (Carries(w)' <=> Carries(w)) /\ (Refreshes(w)' <=> Refreshes(w))
  BY <1>1, <1>2 DEF Due, Carries, Refreshes, workerVars
<1>4. /\ SlotOK(pending')
      /\ Due(pending["composite"]) => Due(pending'["composite"])
      /\ delayed' \subseteq delayed
      /\ \A t \in delayed : Due(t) => t \in delayed' \/ Due(pending'["composite"])
  <2>1. CASE Pull
    BY <2>1, LiveTaskDue, SlotHeld DEF Pull, Stages
  <2>2. CASE \E t \in delayed : Requeue(t)
    <3> PICK t \in delayed : Requeue(t)
      BY <2>2
    <3>1. t \in TaskType /\ Plain(t)
      BY DEF FreshInv, PoolOK, OwedInv, PlainOK
    <3>2. delayed' = delayed \ {t}
          /\ pending' = IF t.generation = Doc.document_gen THEN Enqueued(t) ELSE pending
      BY DEF Requeue
    <3>3. CASE t.generation = Doc.document_gen
      <4>1. t.generation <= Doc.document_gen
        BY <3>3, LiveNumbered DEF OwedInv
      <4>2. SlotOK(Enqueued(t)) /\ (Due(pending["composite"]) \/ Due(t) => Due(Enqueued(t)["composite"]))
        BY <3>1, <4>1, EnqueuedDue, SlotHeld
      <4> QED
        BY <3>2, <3>3, <4>2
    <3>4. CASE t.generation # Doc.document_gen
      BY <3>2, <3>4, SlotHeld DEF Due
    <3> QED
      BY <3>3, <3>4
  <2> QED
    BY <2>1, <2>2
<1>5. Numbered'
  BY <1>1 DEF OwedInv, Numbered, docVars, mainVars
<1>6. PlainOK'
  BY <1>1, <1>4 DEF OwedInv, PlainOK, SlotOK, Plain, workerVars
<1>7. NotAhead'
  BY <1>1, <1>2, <1>4 DEF OwedInv, NotAhead, SlotOK, docVars, cacheVars, workerVars
<1>8. Owed'
  <2>1. Answered => Answered'
    <3>1. Due(pending'["composite"]) => Due(pending["composite"])'
      BY <1>2 DEF Due
    <3> QED
      BY <1>3, <1>4, <3>1 DEF Answered
  <2> QED
    BY <1>2, <2>1 DEF OwedInv, Owed
<1> QED
  BY <1>5, <1>6, <1>7, <1>8 DEF OwedInv

LEMMA OwedInit == Init => OwedInv
<1> SUFFICES ASSUME Init PROVE OwedInv
  OBVIOUS
<1>1. Numbered
  BY DEF Init, Numbered
<1>2. /\ Doc.content_gen = 1 /\ Doc.document_gen = 1 /\ live = 1 /\ delayed = {}
      /\ \A d \in 1..Len(docs) : docs[d].document_gen = 1
      /\ \A w \in Workers : pc[w] = "idle" /\ task[w] = None
  BY DEF Init, Doc
<1>3. CASE /\ composite = [look |-> 1, generation |-> 1, dirty |-> FALSE]
           /\ pending = [processed |-> None, composite |-> None]
  <2>1. composite # None /\ composite.generation = 1 /\ ~composite.dirty
    <3>1. composite \in Entry
      BY <1>3, FreshnessAssumption DEF Entry, Look, Blank, FreshnessAssumption
    <3> QED
      BY <1>3, <3>1, NoneAssumption
  <2>2. ServedFresh
    BY <1>2, <2>1 DEF ServedFresh, Behind
  <2> QED
    BY <1>1, <1>2, <1>3, <2>1, <2>2 DEF OwedInv, PlainOK, Plain, NotAhead, StampLabels, Owed
<1>4. CASE /\ composite = None
           /\ pending = [processed |-> None, composite |->
                [stage |-> "composite", generation |-> 1, layer_generation |-> 0]]
  <2> DEFINE t == [stage |-> "composite", generation |-> 1, layer_generation |-> 0]
  <2>1. t \in TaskType
    BY DEF TaskType, Stages
  <2>2. pending["composite"] = t /\ t # None /\ t.generation = 1 /\ t.layer_generation = 0
        /\ t.stage = "composite"
    BY <1>4, <2>1, NoneAssumption
  <2> HIDE DEF t
  <2>3. Due(pending["composite"])
    BY <1>2, <2>2 DEF Due
  <2> QED
    BY <1>1, <1>2, <1>4, <2>2, <2>3 DEF OwedInv, PlainOK, Plain, NotAhead, StampLabels, Owed, Answered
<1> QED
  BY <1>3, <1>4 DEF Init

LEMMA OwedNext ==
    ASSUME MaxUndos = 0, FreshInv, OwedInv, [Next]_vars
    PROVE  OwedInv'
<1>1. CASE Main
  BY <1>1, OwedMain
<1>2. CASE Pull \/ \E t \in delayed : Requeue(t)
  BY <1>2, OwedPool
<1>3. ASSUME NEW w \in Workers, Worker(w) PROVE OwedInv'
  BY <1>3, OwedWorker, StashWorker, StepKeepsOwed
<1>4. CASE UNCHANGED vars
  BY <1>4 DEF vars, docVars, cacheVars, poolVars, mainVars, workerVars, OwedInv, Numbered, PlainOK, Plain,
              NotAhead, Owed, ServedFresh, Behind, Answered, Due, Carries, Refreshes, Doc
<1> QED
  BY <1>1, <1>2, <1>3, <1>4 DEF Next

\* With any number of workers, edits and requests, and no undo, nothing stops
\* while the visible tile is stale, unless the stash holds its refresh: whoever
\* drops a task, is refused an insert, loses its input, clears a dirty bit or
\* defers a refresh leaves a task of the live document in the queue or in the
\* requeue, a worker that has not looked at an older one, or a worker that
\* runs the deferred refresh (worker.rs:687-691, scheduler.rs:59-84,
\* tile_pipeline.rs:904-933, 967-991, commands/mod.rs:528-556, 664-696).
THEOREM RestIsServed == ASSUME MaxUndos = 0 PROVE Spec => []RestIsFresh
<1>1. Init => FreshInv /\ OwedInv
  BY FreshInit, OwedInit
<1>2. FreshInv /\ OwedInv /\ [Next]_vars => FreshInv' /\ OwedInv'
  BY FreshNext, OwedNext
<1>3. FreshInv /\ OwedInv => RestIsFresh
  BY DEF OwedInv, Owed, Answered, Due, Carries, Refreshes, CarryLabels, InlineLabels, SnapLabels,
         RestIsFresh, AtRest, Stages
<1> QED
  BY <1>1, <1>2, <1>3, PTL DEF Spec

-----------------------------------------------------------------------------
(***************************************************************************)
(* The queue keeps the promise of TaskPool.                                *)
(***************************************************************************)
LEMMA AsTaskIs ==
    ASSUME NEW t \in TaskType
    PROVE  /\ AsTask(t) \in PoolTask /\ AsTask(t) # None
           /\ AsTask(t) = [key |-> t.stage, generation |-> t.generation,
                           layer_generation |-> t.layer_generation, priority |-> 0]
           /\ AsTask(t).key = t.stage /\ AsTask(t).generation = t.generation
           /\ AsTask(t).layer_generation = t.layer_generation /\ AsTask(t).priority = 0
<1>1. t # None
  BY NoneAssumption DEF NoneAssumption
<1>2. AsTask(t) = [key |-> t.stage, generation |-> t.generation,
                   layer_generation |-> t.layer_generation, priority |-> 0]
  BY <1>1 DEF AsTask
<1>3. AsTask(t) \in PoolTask
  BY <1>2 DEF PoolTask, TaskType
<1> QED
  BY <1>2, <1>3, NoneAssumption DEF NoneAssumption

\* The pool after a step that files one task, or none, under a stage.
LEMMA PoolAfter ==
    ASSUME PoolOK, NEW stage \in Stages, NEW t, pending' = [pending EXCEPT ![stage] = t]
    PROVE  AsPool' = [AsPool EXCEPT ![stage] = AsTask(t)]
<1>1. \A s \in Stages : pending'[s] = IF s = stage THEN t ELSE pending[s]
  BY DEF PoolOK, PoolTyped
<1>2. AsPool' = [s \in Stages |-> AsTask(pending'[s])]
  BY DEF AsPool, AsTask
<1>3. AsPool' = [s \in Stages |-> IF s = stage THEN AsTask(t) ELSE AsTask(pending[s])]
  BY <1>1, <1>2
<1> QED
  BY <1>3 DEF AsPool

LEMMA SubmitsEnqueued ==
    ASSUME PoolOK, NEW t \in TaskType, pending' = Enqueued(t), UNCHANGED Handed
    PROVE  UNCHANGED AsPool \/ Pool!Submit(AsTask(t))
<1> DEFINE stage == t.stage
           old == pending[stage]
<1>1. stage \in Stages /\ (old # None => old \in TaskType /\ old.stage = stage)
  BY DEF TaskType, PoolOK, PoolTyped
<1>2. AsPool[stage] = AsTask(old)
  BY <1>1 DEF AsPool
<1>3. AsTask(t).key = stage
  BY AsTaskIs
<1>4. CASE pending' = pending
  BY <1>4 DEF AsPool, AsTask
<1>5. CASE old = None /\ pending' = [pending EXCEPT ![stage] = t]
  <2>1. AsPool' = [AsPool EXCEPT ![stage] = AsTask(t)]
    BY <1>1, <1>5, PoolAfter
  <2>2. AsPool[stage] = None
    BY <1>2, <1>5 DEF AsTask
  <2> HIDE DEF stage
  <2> QED
    BY <1>3, <2>1, <2>2 DEF Pool!Submit
<1>6. CASE old # None /\ ~(old.generation >= t.generation) /\ pending' = [pending EXCEPT ![stage] = t]
  <2>1. AsPool' = [AsPool EXCEPT ![stage] = AsTask(t)]
    BY <1>1, <1>6, PoolAfter
  <2>2. AsTask(old) # None /\ AsTask(old).generation = old.generation /\ AsTask(old).priority = 0
    BY <1>1, <1>6, AsTaskIs
  <2>3. old.generation \in Nat /\ t.generation \in Nat
    BY <1>1, <1>6 DEF TaskType
  <2>4. Pool!Absorbs(AsTask(t), AsTask(old), AsTask(t))
    <3>1. AsTask(t).generation = t.generation /\ AsTask(t).priority = 0
      BY AsTaskIs
    <3> HIDE DEF old
    <3> QED
      BY <1>6, <2>2, <2>3, <3>1 DEF Pool!Absorbs
  <2>5. AsTask(t) \in [key : {AsTask(t).key},
                       generation : {AsTask(t).generation, AsTask(old).generation},
                       layer_generation : {AsTask(t).layer_generation, AsTask(old).layer_generation},
                       priority : {AsTask(t).priority, AsTask(old).priority}]
    BY AsTaskIs
  <2> HIDE DEF stage, old
  <2> QED
    BY <1>2, <1>3, <2>1, <2>2, <2>4, <2>5 DEF Pool!Submit
<1> QED
  BY <1>4, <1>5, <1>6 DEF Enqueued

\* A step that puts nothing into a worker's hands and takes nothing out.
LEMMA HandsKept ==
    ASSUME LocalsOK, NEW w \in Workers,
           \A v \in Workers \ {w} : pc'[v] = pc[v] /\ task'[v] = task[v],
           pc[w] # "check", pc'[w] # "check"
    PROVE  UNCHANGED Handed
<1>1. \A v \in Workers : (IF pc'[v] = "check" THEN AsTask(task'[v]) ELSE None)
                          = (IF pc[v] = "check" THEN AsTask(task[v]) ELSE None)
  OBVIOUS
<1>2. Handed' = [v \in Workers |-> IF pc'[v] = "check" THEN AsTask(task'[v]) ELSE None]
  BY DEF Handed, AsTask
<1> QED
  BY <1>1, <1>2 DEF Handed

\* A worker that is done with its first stale test.
LEMMA HandsFinish ==
    ASSUME LocalsOK, NEW w \in Workers,
           \A v \in Workers \ {w} : pc'[v] = pc[v] /\ task'[v] = task[v],
           pc'[w] # "check", UNCHANGED pending
    PROVE  Pool!Finish(w)
<1>1. \A v \in Workers : (IF pc'[v] = "check" THEN AsTask(task'[v]) ELSE None)
                          = IF v = w THEN None ELSE (IF pc[v] = "check" THEN AsTask(task[v]) ELSE None)
  OBVIOUS
<1>2. Handed' = [v \in Workers |-> IF pc'[v] = "check" THEN AsTask(task'[v]) ELSE None]
  BY DEF Handed, AsTask
<1>3. Handed' = [Handed EXCEPT ![w] = None]
  BY <1>1, <1>2 DEF Handed
<1>4. AsPool' = AsPool
  BY DEF AsPool, AsTask
<1> QED
  BY <1>3, <1>4 DEF Pool!Finish

LEMMA HandsTake ==
    ASSUME FreshInv, NEW w \in Workers, Dequeue(w)
    PROVE  \E stage \in Stages : Pool!Take(w, stage)
<1> PICK stage \in Stages :
        /\ pending[stage] # None
        /\ task' = [task EXCEPT ![w] = pending[stage]]
        /\ pending' = [pending EXCEPT ![stage] = None]
  BY DEF Dequeue
<1>0. pc[w] = "idle" /\ pc' = [pc EXCEPT ![w] = "check"]
  BY DEF Dequeue, Goto
<1>1. AsPool' = [AsPool EXCEPT ![stage] = None]
  <2>1. AsPool' = [AsPool EXCEPT ![stage] = AsTask(None)]
    BY PoolAfter DEF FreshInv
  <2> QED
    BY <2>1 DEF AsTask
<1>2. AsPool[stage] = AsTask(pending[stage]) /\ AsPool[stage] # None
  BY AsTaskIs DEF AsPool, FreshInv, PoolOK, PoolTyped
<1>3. /\ pc'[w] = "check" /\ task'[w] = pending[stage]
      /\ \A v \in Workers \ {w} : pc'[v] = pc[v] /\ task'[v] = task[v]
  BY <1>0 DEF FreshInv, LocalsOK
<1>4. Handed[w] = None
  BY <1>0 DEF Handed
<1>5. Handed' = [v \in Workers |-> IF pc'[v] = "check" THEN AsTask(task'[v]) ELSE None]
  BY DEF Handed, AsTask
<1>6. \A v \in Workers : (IF pc'[v] = "check" THEN AsTask(task'[v]) ELSE None)
                          = IF v = w THEN AsTask(pending[stage])
                                     ELSE (IF pc[v] = "check" THEN AsTask(task[v]) ELSE None)
  BY <1>3
<1>7. Handed' = [Handed EXCEPT ![w] = AsPool[stage]]
  BY <1>2, <1>5, <1>6 DEF Handed
<1> QED
  BY <1>1, <1>2, <1>4, <1>7 DEF Pool!Take

\* A worker's step after Dequeue leaves the others alone and hands nothing out.
LEMMA HandsFrame ==
    ASSUME FreshInv, NEW w \in Workers, Worker(w), ~Dequeue(w)
    PROVE  /\ \A v \in Workers \ {w} : pc'[v] = pc[v] /\ task'[v] = task[v]
           /\ pc'[w] # "check"
           /\ DropStale(w) \/ StartCompute(w) \/ pc[w] # "check"
<1> USE DEF FreshInv
<1> DEFINE Frame == /\ \A v \in Workers \ {w} : pc'[v] = pc[v] /\ task'[v] = task[v]
                    /\ pc'[w] # "check"
<1>1. ASSUME NEW label, Goto(w, label), label # "check",
             UNCHANGED task \/ \E t : task' = [task EXCEPT ![w] = t]
      PROVE  Frame
  <2>1. pc' = [pc EXCEPT ![w] = label]
    BY <1>1 DEF Goto
  <2>2. pc'[w] = label /\ \A v \in Workers \ {w} : pc'[v] = pc[v]
    BY <2>1 DEF LocalsOK
  <2>3. \A v \in Workers \ {w} : task'[v] = task[v]
    BY <1>1 DEF LocalsOK
  <2> QED
    BY <1>1, <2>2, <2>3
<1>2. Forget(w) \/ Computed(w) => Frame
  BY <1>1 DEF Forget, Computed, Reset
<1>3. ASSUME NEW label, Local(w, label), label # "check" PROVE Frame
  BY <1>1, <1>3 DEF Local
<1>4. ReturnProcessed(w) => Frame
  BY <1>1, <1>2 DEF ReturnProcessed
<1> HIDE DEF Frame
<1>5. ASSUME ComputeProcessed(w) PROVE Frame /\ pc[w] # "check"
  <2>1. SnapshotProcessed(w) => Frame /\ pc[w] # "check"
    BY <1>1 DEF SnapshotProcessed
  <2>2. MirrorEpoch(w, "processed_epoch", snap[w], "processed_check") => Frame /\ pc[w] # "check"
    BY <1>3 DEF MirrorEpoch
  <2>3. CheckProcessed(w) => Frame /\ pc[w] # "check"
    BY <1>1 DEF CheckProcessed
  <2>4. InsertProcessed(w) => Frame /\ pc[w] # "check"
    <3>1. InsertProcessed(w) => /\ UNCHANGED task /\ pc[w] # "check"
                                /\ \E label \in {"processed_reject", "fed_by"} : Goto(w, label)
      BY DEF InsertProcessed
    <3> QED
      BY <1>1, <3>1
  <2>5. RejectProcessed(w) \/ InvalidateFedBy(w) => Frame /\ pc[w] # "check"
    BY <1>4 DEF RejectProcessed, InvalidateFedBy
  <2> QED
    BY <1>5, <2>1, <2>2, <2>3, <2>4, <2>5 DEF ComputeProcessed
<1>6. ASSUME ComputeComposite(w) PROVE Frame /\ pc[w] # "check"
  <2>1. SnapshotComposite(w) \/ InputVersions(w) \/ Blend(w) => Frame /\ pc[w] # "check"
    BY <1>1 DEF SnapshotComposite, InputVersions, Blend
  <2>2. MirrorEpoch(w, "composite_epoch", base[w], "ensure") \/ EnsureProcessed(w)
          => Frame /\ pc[w] # "check"
    BY <1>3 DEF MirrorEpoch, EnsureProcessed
  <2>3. CheckComposite(w) => Frame /\ pc[w] # "check"
    BY <1>1 DEF CheckComposite
  <2>4. RetryComposite(w) \/ RejectComposite(w) => Frame /\ pc[w] # "check"
    BY <1>2 DEF RetryComposite, RejectComposite
  <2>5. RecheckProcessed(w) => Frame /\ pc[w] # "check"
    <3>1. RecheckProcessed(w) => pc[w] # "check" /\ (Forget(w) \/ Local(w, "composite_insert"))
      BY DEF RecheckProcessed
    <3> QED
      BY <1>2, <1>3, <3>1
  <2>6. InsertComposite(w) => Frame /\ pc[w] # "check"
    <3>1. InsertComposite(w) => pc[w] # "check" /\ (Computed(w) \/ Local(w, "composite_reject"))
      BY DEF InsertComposite
    <3> QED
      BY <1>2, <1>3, <3>1
  <2> QED
    BY <1>6, <2>1, <2>2, <2>3, <2>4, <2>5, <2>6 DEF ComputeComposite
<1>7. DropStale(w) => Frame
  BY <1>2 DEF DropStale
<1>8. StartCompute(w) => Frame
  BY <1>3 DEF StartCompute
<1>9. AnnounceEpoch(w) => Frame /\ pc[w] # "check"
  BY <1>2 DEF AnnounceEpoch
<1>10. Announce(w) => Frame /\ pc[w] # "check"
  <2>1. Announce(w) => /\ pc[w] # "check"
                       /\ Forget(w) \/ (Goto(w, "announce") /\ UNCHANGED task)
    BY DEF Announce
  <2> QED
    BY <1>1, <1>2, <2>1
<1>11. TaskFinished(w) \/ DrainPending(w) => Frame /\ pc[w] # "check"
  <2>1. TaskFinished(w) \/ DrainPending(w) =>
            pc[w] # "check" /\ \E label \in {"idle", "drain", "run"} : Local(w, label)
    BY DEF TaskFinished, DrainPending
  <2> QED
    BY <1>3, <2>1
<1>12. RunRefresh(w) => Frame /\ pc[w] # "check"
  <2>1. RunInvalidateProcessed(w) \/ RunInvalidateComposite(w) => Frame /\ pc[w] # "check"
    BY <1>3 DEF RunInvalidateProcessed, RunInvalidateComposite
  <2>2. MirrorEpoch(w, "run_epoch", base[w], "run_enqueue") => Frame /\ pc[w] # "check"
    BY <1>3 DEF MirrorEpoch
  <2>3. RunSnapshot(w) => Frame /\ pc[w] # "check"
    BY <1>1 DEF RunSnapshot
  <2>4. RunEnqueueVisible(w) => Frame /\ pc[w] # "check"
    BY <1>1 DEF RunEnqueueVisible, Reset
  <2> QED
    BY <2>1, <2>2, <2>3, <2>4 DEF RunRefresh
<1> QED
  BY <1>5, <1>6, <1>7, <1>8, <1>9, <1>10, <1>11, <1>12 DEF Worker, Frame

\* What it may do to the queue.
Submits ==
    \/ pending' = pending
    \/ \E stage \in Stages : pending' = Enqueued(LiveTask(stage))
    \/ \E w \in Workers : pc[w] = "run_enqueue" /\ pending' = Enqueued(CompositeTask(base[w]))

LEMMA WorkerSubmits ==
    ASSUME NEW w \in Workers, Worker(w), ~Dequeue(w)
    PROVE  Submits /\ (DropStale(w) \/ StartCompute(w) => UNCHANGED pending)
<1>1. UNCHANGED poolVars => Submits
  BY DEF poolVars, Submits
<1>2. ASSUME NEW e, NEW stage \in Stages, pending' = Rescheduled(e, stage) PROVE Submits
  BY <1>2 DEF Rescheduled, Submits
<1>3. pending' = Enqueued(LiveTask("composite")) => Submits
  BY DEF Submits, Stages
<1>4. ComputeProcessed(w) => Submits
  <2>1. RejectProcessed(w) => Submits
    BY <1>2 DEF RejectProcessed, Stages
  <2>2. InvalidateFedBy(w) => Submits
    BY <1>3 DEF InvalidateFedBy
  <2> QED
    BY <1>1, <2>1, <2>2 DEF ComputeProcessed, SnapshotProcessed, MirrorEpoch, CheckProcessed,
                            InsertProcessed, poolVars
<1>5. ComputeComposite(w) => Submits
  <2>1. RetryComposite(w) => Submits
    BY <1>3 DEF RetryComposite
  <2>2. RecheckProcessed(w) => Submits
    <3>1. RecheckProcessed(w) => UNCHANGED pending \/ pending' = Rescheduled(composite, "composite")
      BY DEF RecheckProcessed
    <3> QED
      BY <1>2, <3>1 DEF Stages, Submits
  <2>3. RejectComposite(w) => Submits
    BY <1>2 DEF RejectComposite, Stages
  <2>4. SnapshotComposite(w) \/ MirrorEpoch(w, "composite_epoch", base[w], "ensure")
          \/ EnsureProcessed(w) \/ InputVersions(w) \/ Blend(w) \/ CheckComposite(w)
          \/ InsertComposite(w) => UNCHANGED poolVars
    BY DEF SnapshotComposite, MirrorEpoch, EnsureProcessed, InputVersions, Blend,
           CheckComposite, InsertComposite, poolVars
  <2> QED
    BY <1>1, <2>1, <2>2, <2>3, <2>4 DEF ComputeComposite
<1>6. DropStale(w) \/ StartCompute(w) \/ Announce(w) \/ AnnounceEpoch(w) \/ TaskFinished(w) \/ DrainPending(w)
        => UNCHANGED poolVars
  BY DEF DropStale, StartCompute, Announce, AnnounceEpoch, TaskFinished, DrainPending, poolVars
<1>7. RunRefresh(w) => Submits
  <2>1. RunEnqueueVisible(w) => Submits
    BY DEF RunEnqueueVisible, EnqueueIfBehind, Submits
  <2> QED
    BY <1>1, <2>1 DEF RunRefresh, RunInvalidateProcessed, RunInvalidateComposite, RunSnapshot, MirrorEpoch,
                      poolVars
<1> QED
  BY <1>1, <1>4, <1>5, <1>6, <1>7 DEF Worker, poolVars

LEMMA SubmitSteps ==
    ASSUME FreshInv, Submits, UNCHANGED Handed
    PROVE  QueueStep \/ UNCHANGED Pool!poolVars
<1>1. CASE pending' = pending
  <2>1. AsPool' = AsPool
    BY <1>1 DEF AsPool, AsTask
  <2> QED
    BY <2>1 DEF Pool!poolVars
<1>2. ASSUME NEW stage \in Stages, pending' = Enqueued(LiveTask(stage))
      PROVE  QueueStep \/ UNCHANGED Pool!poolVars
  <2>1. LiveTask(stage) \in TaskType
    BY LiveTaskTyped DEF FreshInv
  <2>2. UNCHANGED AsPool \/ Pool!Submit(AsTask(LiveTask(stage)))
    BY <1>2, <2>1, SubmitsEnqueued DEF FreshInv
  <2> QED
    BY <2>2 DEF QueueStep, Pool!poolVars
<1>3. ASSUME NEW w \in Workers, pc[w] = "run_enqueue", pending' = Enqueued(CompositeTask(base[w]))
      PROVE  QueueStep \/ UNCHANGED Pool!poolVars
  <2>1. CompositeTask(base[w]) \in TaskType
    BY <1>3, CompositeTaskTyped DEF FreshInv, HeldOK, BaseLabels
  <2>2. UNCHANGED AsPool \/ Pool!Submit(AsTask(CompositeTask(base[w])))
    BY <1>3, <2>1, SubmitsEnqueued DEF FreshInv
  <2> QED
    BY <1>3, <2>2 DEF QueueStep, Pool!poolVars
<1> QED
  BY <1>1, <1>2, <1>3 DEF Submits

LEMMA QueueSteps ==
    ASSUME FreshInv, [Next]_vars
    PROVE  QueueStep \/ UNCHANGED Pool!poolVars
<1>k. UNCHANGED workerVars => UNCHANGED Handed
  BY DEF workerVars, Handed, AsTask
<1>1. CASE Main \/ Pull \/ UNCHANGED vars
  <2>1. UNCHANGED workerVars
    BY <1>1 DEF Main, Edit, IncrementLayerGen, UndoOrRedo, BumpLiveDocumentGen, InvalidateProcessed,
                InvalidateComposite, SetEpoch, EnqueueVisible, RequestRefresh, StashRefresh, Pull, vars
  <2>2. Submits
    <3>1. CASE EnqueueVisible \/ Pull
      BY <3>1, CompositeIsLive DEF EnqueueVisible, EnqueueIfBehind, Pull, Submits, Stages
    <3>2. CASE UNCHANGED poolVars
      BY <3>2 DEF poolVars, Submits
    <3> QED
      BY <1>1, <3>1, <3>2 DEF Main, Edit, IncrementLayerGen, UndoOrRedo, BumpLiveDocumentGen,
                InvalidateProcessed, InvalidateComposite, SetEpoch, RequestRefresh, StashRefresh, vars
  <2> QED
    BY <1>k, <2>1, <2>2, SubmitSteps
<1>2. ASSUME NEW w \in Workers, Worker(w)
      PROVE  QueueStep \/ UNCHANGED Pool!poolVars
  <2>1. CASE Dequeue(w)
    BY <2>1, HandsTake DEF QueueStep
  <2>2. CASE ~Dequeue(w) /\ (DropStale(w) \/ StartCompute(w))
    BY <1>2, <2>2, HandsFrame, WorkerSubmits, HandsFinish DEF QueueStep, FreshInv
  <2>3. CASE ~Dequeue(w) /\ ~DropStale(w) /\ ~StartCompute(w)
    <3>1. UNCHANGED Handed
      BY <1>2, <2>3, HandsFrame, HandsKept DEF FreshInv
    <3> QED
      BY <1>2, <2>3, <3>1, WorkerSubmits, SubmitSteps
  <2> QED
    BY <2>1, <2>2, <2>3
<1>3. ASSUME NEW t \in delayed, Requeue(t)
      PROVE  QueueStep \/ UNCHANGED Pool!poolVars
  <2>1. UNCHANGED Handed
    BY <1>3, <1>k DEF Requeue
  <2>2. t \in TaskType
    BY DEF FreshInv, PoolOK
  <2>3. CASE pending' = Enqueued(t)
    <3>1. UNCHANGED AsPool \/ Pool!Submit(AsTask(t))
      BY <2>1, <2>2, <2>3, SubmitsEnqueued DEF FreshInv
    <3> QED
      BY <2>1, <3>1 DEF QueueStep, Pool!poolVars
  <2>4. CASE pending' = pending
    BY <2>1, <2>4, SubmitSteps DEF Submits
  <2> QED
    BY <1>3, <2>3, <2>4 DEF Requeue
<1> QED
  BY <1>1, <1>2, <1>3 DEF Next

\* The queue of this module may stand for the scheduler: each step is one
\* submission to TaskPool, one task handed to one worker, or none of its
\* business, with undo and redo as well.
THEOREM QueueCorrect == Spec => QueueIsPool
<1>1. FreshInv /\ [Next]_vars => [QueueStep]_(Pool!poolVars)
  BY QueueSteps
<1> QED
  BY <1>1, FreshInvariant, PTL DEF Spec, QueueIsPool

\* And so it is a step of TaskPool over all the tasks there can be.
LEMMA QueueStepIsPool == FreshInv /\ QueueStep => Pool!Next
<1> SUFFICES ASSUME FreshInv, QueueStep PROVE Pool!Next
  OBVIOUS
<1>1. \A stage \in Stages : AsTask(LiveTask(stage)) \in PoolTask
  BY LiveTaskTyped, AsTaskIs DEF FreshInv
<1>2. \A t \in delayed : AsTask(t) \in PoolTask
  BY AsTaskIs DEF FreshInv, PoolOK
<1>3. \A w \in Workers : pc[w] = "run_enqueue" => AsTask(CompositeTask(base[w])) \in PoolTask
  BY CompositeTaskTyped, AsTaskIs DEF FreshInv, HeldOK, BaseLabels
<1> QED
  BY <1>1, <1>2, <1>3 DEF QueueStep, Pool!Next

\* The queue implements the abstract pool: every step of the main thread, the
\* workers and the requeue thread is a step of TaskPool or leaves it alone, so
\* what scheduler.rs promises its callers (1-5) is all that is used of it here.
THEOREM QueueImplementsPool == Spec => [][Pool!Next]_(Pool!poolVars)
<1>1. FreshInv /\ [Next]_vars => [Pool!Next]_(Pool!poolVars)
  BY QueueSteps, QueueStepIsPool
<1> QED
  BY <1>1, FreshInvariant, PTL DEF Spec

=============================================================================
